----------------------------- MODULE CodexParser -----------------------------
(***************************************************************************)
(* What the Codex parser (internal/transcript/codex.go) keeps from record  *)
(* to record: the session header, and which prose it has seen, since Codex *)
(* logs an utterance as a response item, as an event, or as both in either *)
(* order.                                                                  *)
(*                                                                         *)
(* An agent writes a rollout line by line and the parser is given each     *)
(* line; that indexFile reads them later in one go makes no difference.  A *)
(* key stands for a role and the prose that is left of a record, without   *)
(* the preamble of a request.  Lines:                                      *)
(*   "item"   response_item with prose of the user or the assistant        *)
(*   "text"   the older response_item that is a string, or an object with  *)
(*            text and no role: prose of the assistant                     *)
(*   "event"  event_msg of a message or of a task's completion             *)
(*   "tool"   response_item without prose: a call, a result, reasoning, a  *)
(*            summary                                                      *)
(*   "meta"   session_meta, with the session it names if any; turn_context *)
(*            and other metadata are like one that names none              *)
(* Every line has a payload or item; older bare records, which parseLine   *)
(* may pass on to the parser of the other agents, are left out, and so are *)
(* records that name a session or directory themselves.                    *)
(***************************************************************************)
EXTENDS Naturals, Sequences

CONSTANTS
  Keys,       \* role and prose
  Assistants, \* the keys of the assistant
  Sessions,   \* session ids that headers name
  None,       \* no session, no prose
  MaxLines    \* bound on the lines of a rollout

ASSUME CodexConstants ==
  /\ Assistants \subseteq Keys
  /\ None \notin Keys /\ None \notin Sessions
  /\ MaxLines \in Nat

VARIABLES
  canonical,  \* Parser.codexCanonical
  events,     \* Parser.codexEvents
  session,    \* Parser.session.ID
  messages,   \* messages returned: [line, session, whole]
  lines,      \* history: the lines parsed, [form, key, stamped, session, of]
  owed        \* the agent: utterances whose other form is still to be written

vars == <<canonical, events, session, messages, lines, owed>>

Init ==
  /\ canonical = {} /\ events = {}
  /\ session = None
  /\ messages = {}
  /\ lines = <<>>
  /\ owed = {}

Next1 == Len(lines) + 1

-----------------------------------------------------------------------------
(* The parser.                                                             *)

\* codexMessage: without a timestamp the message is empty, and still returned.
Message(stamped) == [line |-> Next1, session |-> session, whole |-> stamped]

\* makeCodexMessageWithParts: the prose is canonical from now on, whichever
\* form it came in.
EmitUnmarked(key, stamped) ==   \* mutant: only the prose of stamped records is
  /\ canonical' = IF stamped THEN canonical \union ({key} \ {None}) ELSE canonical
  /\ messages' = messages \union {Message(stamped)}
Emit(key, stamped) ==
  /\ canonical' = canonical \union ({key} \ {None})
  /\ messages' = messages \union {Message(stamped)}

\* makeCodexMessage: an event mirror arrived before.
MirroredByAny(key) == key \in canonical   \* mutant: or any other record
Mirrored(key) == key \in events
Item(key, stamped) ==
  /\ IF Mirrored(key) THEN UNCHANGED <<canonical, messages>> ELSE Emit(key, stamped)
  /\ UNCHANGED <<events, session>>

\* parseCodexResponseItem makes the older forms a message without that check.
Text(key, stamped) == Emit(key, stamped) /\ UNCHANGED <<events, session>>

\* parseCodexEvent: a mirror of what was seen is skipped.
SeenAlways(key) == TRUE   \* mutant: an event mirrors something
Seen(key) == key \in canonical \/ key \in events
EventUnrecorded(key, stamped) ==   \* mutant: the event is not remembered
  /\ IF Seen(key) THEN UNCHANGED <<canonical, events, messages>>
     ELSE UNCHANGED events /\ Emit(key, stamped)
  /\ UNCHANGED session
Event(key, stamped) ==
  /\ IF Seen(key) THEN UNCHANGED <<canonical, events, messages>>
     ELSE events' = events \union {key} /\ Emit(key, stamped)
  /\ UNCHANGED session

\* makeCodexToolMessage and the other items without prose.
Tool(stamped) == Emit(None, stamped) /\ UNCHANGED <<events, session>>

\* parseCodexSessionMeta: the last header that names a session wins.
SessionMeta(named) ==
  /\ session' = IF named = None THEN session ELSE named
  /\ UNCHANGED <<canonical, events, messages>>

ParseLine(line) ==
  /\ CASE line.form = "item"  -> Item(line.key, line.stamped)
       [] line.form = "text"  -> Text(line.key, line.stamped)
       [] line.form = "event" -> Event(line.key, line.stamped)
       [] line.form = "tool"  -> Tool(line.stamped)
       [] line.form = "meta"  -> SessionMeta(line.session)
  /\ lines' = Append(lines, line)

-----------------------------------------------------------------------------
(* The agent.                                                              *)

Forms(key) == {"item", "event"} \union (IF key \in Assistants THEN {"text"} ELSE {})
Others(form, key) == IF form = "event" THEN Forms(key) \ {"event"} ELSE {"event"}

\* An utterance is first logged, as an event or an item of either kind; the other
\* may follow.
Utter ==
  /\ Len(lines) < MaxLines
  /\ \E key \in Keys, stamped \in BOOLEAN : \E form \in Forms(key) :
       /\ ParseLine([form |-> form, key |-> key, stamped |-> stamped, session |-> None,
                     of |-> Next1])
       /\ \/ UNCHANGED owed
          \/ \E other \in Others(form, key) :
               owed' = owed \union {[form |-> other, key |-> key, of |-> Next1]}

\* The other form of an utterance, after anything else that was logged meanwhile.
Mirror ==
  /\ Len(lines) < MaxLines
  /\ \E o \in owed, stamped \in BOOLEAN :
       /\ ParseLine([form |-> o.form, key |-> o.key, stamped |-> stamped, session |-> None,
                     of |-> o.of])
       /\ owed' = owed \ {o}

\* A record without prose.
Log ==
  /\ Len(lines) < MaxLines
  /\ \/ \E stamped \in BOOLEAN :
          ParseLine([form |-> "tool", key |-> None, stamped |-> stamped, session |-> None,
                     of |-> Next1])
     \/ \E named \in Sessions \union {None} :
          ParseLine([form |-> "meta", key |-> None, stamped |-> TRUE, session |-> named,
                     of |-> Next1])
  /\ UNCHANGED owed

Next == Utter \/ Mirror \/ Log

Spec == Init /\ [][Next]_vars

-----------------------------------------------------------------------------
(* Properties.                                                             *)

Numbers == 1 .. Len(lines)
Kept(i) == \E m \in messages : m.line = i

\* Types; what was seen as an event is canonical too, so that the second lookup
\* of parseCodexEvent never decides.
TypeOK ==
  /\ canonical \subseteq Keys /\ events \subseteq canonical
  /\ session \in Sessions \union {None}
  /\ messages \subseteq [line : Numbers, session : Sessions \union {None}, whole : BOOLEAN]
  /\ lines \in Seq([form : {"item", "text", "event", "tool", "meta"}, key : Keys \union {None},
                    stamped : BOOLEAN, session : Sessions \union {None}, of : Nat])
  /\ owed \subseteq [form : {"item", "text", "event"}, key : Keys, of : Numbers]

\* The first record of a text decides in which form the rollout speaks it: it is
\* always a message; items of the same text are messages too unless it was an
\* event; events after the first record never are.  The older items, which are
\* not compared with events, are messages whatever came before.
First(i) == \A j \in 1 .. i - 1 : lines[j].key # lines[i].key
FirstFormDecides ==
  \A i \in Numbers :
    LET line == lines[i]
        spokenAsEvent == \E j \in 1 .. i : lines[j].key = line.key /\ lines[j].form = "event" /\ First(j)
    IN Kept(i) <=> \/ line.form \in {"tool", "text"}
                   \/ line.form = "item" /\ ~spokenAsEvent
                   \/ line.form = "event" /\ First(i)

\* An utterance that is logged in both forms is one message, whatever else was
\* logged between the two, the same text included; but an event that spoke its
\* text first and an older item of the same utterance are two.
MirrorsAreOne ==
  \A m, n \in messages :
    LET i == m.line
        j == n.line
    IN lines[i].of = lines[j].of /\ i <= j =>
         m = n \/ (lines[i].form = "event" /\ First(i) /\ lines[j].form = "text")

\* Deduplication loses no text: what was spoken is in a message, but for a text
\* whose first record had no timestamp and took its place with an empty message.
NoTextIsLost ==
  \A i \in Numbers : lines[i].key # None =>
    \E m \in messages :
      /\ lines[m.line].key = lines[i].key
      /\ m.whole \/ (m.line <= i /\ ~lines[m.line].stamped /\ First(m.line))

\* parse.go 165-167, a mirror is skipped "without making event-only records
\* disappear": in a rollout that logs events alone, each of them is a message.
EventOnlyRecordsAreKept ==
  (\A i \in Numbers : lines[i].form = "event" /\ lines[i].stamped) /\ owed = {}
    => \A i \in Numbers : Kept(i)
=============================================================================
