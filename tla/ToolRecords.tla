----------------------------- MODULE ToolRecords -----------------------------
(***************************************************************************)
(* The read models derived from messages (internal/index/projections.go):  *)
(* tool_invocations and tool_results, the pairing of results with the      *)
(* calls they answer, and the command search content that triggers keep    *)
(* beside them; how the replacement of one transcript maintains them,      *)
(* statement by statement, and how the migrations of a version 7 index     *)
(* build them from its messages.                                           *)
(*                                                                         *)
(* A message is [session, time, calls, results], a call [tool, name], a    *)
(* result [tool, name, text]; the name stands for the arguments, too.  The *)
(* id of a row is SQLite's: one more than the largest in the table.        *)
(* Siblings and message ids are TranscriptStore's.  A transaction that     *)
(* does not commit leaves what was, and is left out.                       *)
(***************************************************************************)
EXTENDS Naturals, Sequences, FiniteSets, FiniteSetsExt

CONSTANTS
  Paths,       \* transcript paths
  Sessions, Tools, Names, Texts,
  Contents,    \* transcripts, as sequences of messages
  Window,      \* how many calls without id the fallback looks at
  MaxChanges,  \* bound on the replacements
  NoTool, NoName, NoText

MessageType ==
  [session : Sessions, time : Nat,
   calls : Seq([tool : Tools, name : Names]),
   results : Seq([tool : Tools, name : Names, text : Texts])]

ASSUME ToolConstants ==
  /\ Window \in Nat \ {0}
  /\ MaxChanges \in Nat
  /\ Contents \subseteq Seq(MessageType)

VARIABLES
  messages,  \* rows [id, source, message]
  calls,     \* tool_invocations: rows [id, row, session, time, tool, name]
  results,   \* tool_results: as calls, with text and link (0 is NULL)
  search,    \* command_search_content: by call id, [arguments, output]
  stage,     \* "replace" in a transaction of indexFile, "upgrade" in the migrations, or "idle"
  todo,      \* messages whose calls and results are not stored yet
  affected,  \* sessions whose results are to be paired (affectedSessions)
  unpaired,  \* ids of the results that rebuildToolLinks has yet to look at
  answered,  \* history: what the index answered when the upgrade began
  changes    \* replacements so far

tables == <<messages, calls, results, search>>
vars == <<tables, stage, todo, affected, unpaired, answered, changes>>

Ids(table) == {r.id : r \in table}
LastId(table) == Max({0} \union Ids(table))

Init ==
  /\ messages = {} /\ calls = {} /\ results = {} /\ search = <<>>
  /\ stage = "idle" /\ todo = {} /\ affected = {} /\ unpaired = {}
  /\ answered = {} /\ changes = 0

-----------------------------------------------------------------------------
(* Command search.                                                         *)

\* The texts of the results of a call; their order, by time and id, is a function
\* of this set.
Output(rs, i) ==
  {[text |-> r.text, time |-> r.time, id |-> r.id] : r \in {q \in rs : q.link = i /\ q.text # NoText}}

Arguments(cs, i) == (CHOOSE c \in cs : c.id = i).name

\* The population of migrateCommandSearch: every call with its output.
Populated(cs, rs) ==
  [i \in Ids(cs) |-> [arguments |-> Arguments(cs, i), output |-> Output(rs, i)]]

\* Calls whose output the triggers on tool_results recompute when its rows become
\* rs: those of the old links and of the new ones.
TouchedNow(rs) == {r.link : r \in rs \ results}   \* mutant: not those of the old links
Touched(rs) == {r.link : r \in (results \ rs) \union (rs \ results)}

\* Statements after which the tables are cs and rs, with their triggers: a row of
\* the search content comes, empty, and goes with its call.  A version 7 index has
\* none yet.
Write(cs, rs) ==
  /\ calls' = cs
  /\ results' = rs
  /\ search' = IF stage = "upgrade" THEN search
               ELSE [i \in Ids(cs) |->
                       [arguments |-> Arguments(cs, i),
                        output |-> IF i \in Touched(rs) THEN Output(rs, i)
                                   ELSE IF i \in DOMAIN search THEN search[i].output ELSE {}]]

-----------------------------------------------------------------------------
(* Pairing.                                                                *)

Before(a, b) ==
  \/ a.time < b.time
  \/ a.time = b.time /\ a.row < b.row
  \/ a.time = b.time /\ a.row = b.row /\ a.id < b.id

\* A call that a result may answer: at its time or earlier.
Precedes(c, r) == c.time < r.time \/ (c.time = r.time /\ c.row <= r.row)

Prior(r) == {c \in calls : c.session = r.session /\ Precedes(c, r) /\ c.tool = r.tool}

\* fallbackUsed: calls that results without id before r have taken.
Used(r) ==
  {q.link : q \in {d \in results : d.session = r.session /\ d.tool = NoTool /\ Before(d, r)}}

SameName(c, r) == c.name = NoName \/ r.name = NoName \/ c.name = r.name

\* The calls r may answer.  With an id: those with the same id.  Without: of the
\* last few without id, those not taken whose name does not contradict.
AnswerableTwice(r) ==   \* mutant: taken ones too
  LET recent == {c \in Prior(r) : Cardinality({d \in Prior(r) : Before(c, d)}) < Window}
  IN IF r.tool # NoTool THEN Prior(r) ELSE {c \in recent : SameName(c, r)}
Answerable(r) ==
  LET recent == {c \in Prior(r) : Cardinality({d \in Prior(r) : Before(c, d)}) < Window}
  IN IF r.tool # NoTool THEN Prior(r) ELSE {c \in recent : c.id \notin Used(r) /\ SameName(c, r)}

\* The id of the latest of them, or NULL.
Latest(S) == {c \in S : \A d \in S \ {c} : Before(d, c)}
LinkOf(r) == IF Latest(Answerable(r)) = {} THEN 0
             ELSE (CHOOSE c \in Latest(Answerable(r)) : TRUE).id

-----------------------------------------------------------------------------
(* The transaction of indexFile, for these tables.                         *)

\* The sessions of the messages that go.
AffectedNot(p) == {}   \* mutant: only sessions of messages that come are paired again
Affected(p) == {m.message.session : m \in {n \in messages : n.source = p}}

\* deleteTranscriptRows: results that answer a call of p lose it; the results,
\* calls and messages of p go.
Replace(p, c) ==
  LET gone == {m \in messages : m.source = p}
      dead == {d.id : d \in {e \in calls : e.row \in Ids(gone)}}
  IN /\ stage = "idle"
     /\ changes < MaxChanges
     /\ changes' = changes + 1
     /\ stage' = "replace"
     /\ messages' = messages \ gone
     /\ Write({d \in calls : d.row \notin Ids(gone)},
              {IF r.link \in dead THEN [r EXCEPT !.link = 0] ELSE r :
                 r \in {q \in results : q.row \notin Ids(gone)}})
     /\ todo' = {[id |-> LastId(messages \ gone) + i, source |-> p, message |-> c[i]] : i \in DOMAIN c}
     /\ affected' = Affected(p)
     /\ UNCHANGED <<unpaired, answered>>

\* insertToolRecords: the calls and results of the next message, not paired yet.
CallRows(m) ==
  {[id |-> LastId(calls) + i, row |-> m.id, session |-> m.message.session, time |-> m.message.time,
    tool |-> m.message.calls[i].tool, name |-> m.message.calls[i].name] : i \in DOMAIN m.message.calls}
ResultRows(m) ==
  {[id |-> LastId(results) + i, row |-> m.id, session |-> m.message.session, time |-> m.message.time,
    tool |-> m.message.results[i].tool, name |-> m.message.results[i].name,
    text |-> m.message.results[i].text, link |-> 0] : i \in DOMAIN m.message.results}
Store ==
  \E m \in todo :
    /\ \A n \in todo : m.id <= n.id
    /\ messages' = messages \union {m}
    /\ Write(calls \union CallRows(m), results \union ResultRows(m))
    /\ todo' = todo \ {m}
    /\ affected' = affected \union {m.message.session}
    /\ UNCHANGED <<stage, unpaired, answered, changes>>

\* rebuildToolLinks of a session: its results lose their links ...
Unlink ==
  /\ stage # "idle"
  /\ todo = {} /\ unpaired = {}
  /\ \E s \in affected :
       /\ affected' = affected \ {s}
       /\ unpaired' = {r.id : r \in {q \in results : q.session = s}}
       /\ Write(calls, {IF r.session = s THEN [r EXCEPT !.link = 0] ELSE r : r \in results})
  /\ UNCHANGED <<messages, stage, todo, answered, changes>>

\* ... and get them back one after the other.
Pair ==
  /\ \E r \in results :
       /\ r.id \in unpaired
       /\ \A q \in results : q.id \in unpaired /\ q # r => Before(r, q)
       /\ unpaired' = unpaired \ {r.id}
       /\ Write(calls, (results \ {r}) \union {[r EXCEPT !.link = LinkOf(r)]})
  /\ UNCHANGED <<messages, stage, todo, affected, answered, changes>>

\* What a table says, whatever ids its rows have.
Answers(cs, rs) ==
  {<<x[1].row, x[1].tool, x[1].name, x[2].row, x[2].text>> :
     x \in {y \in cs \X rs : y[2].link = y[1].id}}

\* The same messages, had a version 7 binary indexed them: migrateReadProjections
\* stores every call and result anew, in the order of the messages, and pairs all
\* sessions, before migrateCommandSearch populates the search content.
Upgrade ==
  /\ stage = "idle"
  /\ stage' = "upgrade"
  /\ calls' = {} /\ results' = {} /\ search' = <<>>
  /\ todo' = messages
  /\ answered' = Answers(calls, results)
  /\ UNCHANGED <<messages, affected, unpaired, changes>>

CommitUnpaired ==   \* mutant: the migration does not pair
  /\ stage # "idle"
  /\ todo = {} /\ unpaired = {} /\ (stage = "replace" => affected = {})
  /\ stage' = "idle" /\ affected' = {} /\ answered' = {}
  /\ search' = IF stage = "upgrade" THEN Populated(calls, results) ELSE search
  /\ UNCHANGED <<messages, calls, results, todo, unpaired, changes>>
Commit ==
  /\ stage # "idle"
  /\ todo = {} /\ unpaired = {} /\ affected = {}
  /\ stage' = "idle" /\ answered' = {}
  /\ search' = IF stage = "upgrade" THEN Populated(calls, results) ELSE search
  /\ UNCHANGED <<messages, calls, results, todo, affected, unpaired, changes>>

Next ==
  \/ \E p \in Paths, c \in Contents : Replace(p, c)
  \/ Store \/ Unlink \/ Pair \/ Upgrade \/ Commit

Spec == Init /\ [][Next]_vars

-----------------------------------------------------------------------------
(* Properties.                                                             *)

\* In every committed index each result is paired as a rebuild of its whole session
\* would pair it now, although a replacement only rebuilds the sessions of one
\* transcript and other transcripts have calls and results of those sessions, too.
PairingIsCurrent ==
  stage = "idle" => \A r \in results : r.link = LinkOf(r)

\* The search content that triggers maintain row by row is after every statement
\* the one a population from the tables would give.
SearchIsCurrent == stage # "upgrade" => search = Populated(calls, results)

\* A call without id answers one result: legacy results never share one, not even
\* while the sessions are paired one after the other.
AnonymousCallsAnswerOnce ==
  \A q, r \in results : q.tool = NoTool /\ r.tool = NoTool /\ q.link = r.link /\ q.link # 0 => q = r

\* An upgraded index pairs as one that this binary built from the start.
UpgradeKeepsAnswers ==
  [][stage = "upgrade" /\ stage' = "idle" => Answers(calls', results') = answered]_vars

-----------------------------------------------------------------------------
(* The inductive invariant of ToolRecords_proofs.                          *)

RowType == [id : Nat \ {0}, source : Paths, message : MessageType]
CallType == [id : Nat \ {0}, row : Nat, session : Sessions, time : Nat, tool : Tools, name : Names]
ResultType == [id : Nat \ {0}, row : Nat, session : Sessions, time : Nat, tool : Tools, name : Names,
               text : Texts, link : Nat]
TypeOK ==
  /\ messages \subseteq RowType /\ calls \subseteq CallType /\ results \subseteq ResultType
  /\ stage \in {"idle", "replace", "upgrade"}
  /\ todo \subseteq RowType /\ affected \subseteq Sessions /\ unpaired \subseteq Nat

\* Ids are keys, and have a largest one.
Keyed(table) ==
  /\ \A a, b \in table : a.id = b.id => a = b
  /\ \E n \in Nat : \A a \in table : a.id <= n
KeysInv == Keyed(messages \union todo) /\ Keyed(calls) /\ Keyed(results)

\* Calls and results are of the session of their message, and links go to calls of
\* the same session.
RefsInv ==
  /\ \A c \in calls : \E m \in messages : m.id = c.row /\ m.message.session = c.session
  /\ \A r \in results : \E m \in messages : m.id = r.row /\ m.message.session = r.session
  /\ \A r \in results : r.link # 0 => \E c \in calls : c.id = r.link /\ c.session = r.session

\* The order of the work.
StageInv ==
  /\ stage = "idle" => todo = {} /\ affected = {} /\ unpaired = {}
  /\ todo # {} => unpaired = {}

\* What is neither to be paired nor affected is paired as of now.
PairInv ==
  /\ \A r \in results : r.session \notin affected /\ r.id \notin unpaired => r.link = LinkOf(r)
  /\ \A r \in results : r.id \in unpaired =>
       /\ r.link = 0
       /\ r.session \notin affected
       /\ \A q \in results : q.id \in unpaired => q.session = r.session
       /\ \A q \in results : q.session = r.session /\ q.id \notin unpaired => Before(q, r)

IInv ==
  /\ TypeOK /\ KeysInv /\ RefsInv /\ StageInv /\ PairInv
  /\ SearchIsCurrent /\ AnonymousCallsAnswerOnce
=============================================================================
