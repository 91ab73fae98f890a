------------------------------- MODULE Answers -------------------------------
(***************************************************************************)
(* How the commands search, context, read and last, and the requests of    *)
(* the same names, answer from one snapshot: Search, Last, Around, resolve *)
(* and ExpandContext of internal/index/index.go as runSearch, runContext,  *)
(* runRead and runLast of internal/cli/cli.go and the handlers of          *)
(* internal/server/server.go put them together; OutputBudget then fits the *)
(* response into its budget.                                               *)
(*                                                                         *)
(* The table is a sequence of messages by rowid, which follows the         *)
(* transcript.  A message has                                              *)
(*   session, time   sessions are numbers, for their order                 *)
(*   terms           the terms its content matches,                        *)
(*   prose           those of them its prose matches, and                  *)
(*   spoken          whether it has prose                                  *)
(*   scoped, typed   whether it passes --cwd and --hours, and --type       *)
(*   noise           it is a copied document or an echoed response         *)
(*   body            what is rendered of it, as in OutputBudget            *)
(* bm25 ranks as it will: any order of the matches is tried.  A raw query  *)
(* is an expression that asks for all terms, and is well formed.           *)
(***************************************************************************)
EXTENDS OutputBudget, SequencesExt

CONSTANTS
  Messages,   \* messages a table is made of
  MaxRows,    \* bound on the rows of a table
  Ids,        \* ids of the rows, as sequences of characters
  Requests,   \* requests, see RequestType
  Sides,      \* numbers of messages before and after a hit
  None        \* no session

RequestType ==
  [for : {"search", "context", "read", "last"},
   terms : SUBSET UNION {m.terms : m \in Messages}, mode : {"all", "any", "raw"}, all : BOOLEAN,
   limit : Nat, perSession : Nat, windowMessages : Nat,
   session : Nat, exclude : Nat, reduceNoise : BOOLEAN]

ASSUME AnswerConstants ==
  /\ \A m \in Messages :
       /\ m.session \in Int \ {None} /\ m.time \in Int /\ m.body \in BodyType
       /\ m.prose \subseteq m.terms /\ (m.prose # {} => m.spoken)
  /\ MaxRows \in Nat /\ Len(Ids) >= MaxRows
  /\ \A i, j \in DOMAIN Ids : Ids[i] = Ids[j] => i = j
  /\ Requests \subseteq RequestType
  /\ \A q \in Requests : q.for \in {"read", "last"} => q.exclude = None /\ q.windowMessages = 0
  /\ Sides \subseteq Nat

VARIABLES
  table,      \* the messages of the snapshot
  request,
  window,     \* rows a query looks at
  phase,      \* "asked", "searched", "cut", "selected", "answered" or "refused"
  hits,       \* rows selected, by rank
  relaxed, truncated,
  sides,      \* [before, after] of a context or read
  items       \* what is rendered: [row, hits]

query == <<table, request, window, phase, hits, relaxed, sides, items>>
vars == <<query, truncated, output>>

Rows == DOMAIN table
Take(s, n) == SubSeq(s, 1, Least(n, Len(s)))

-----------------------------------------------------------------------------
(* Search.                                                                 *)

\* The session filter: the current session is excluded unless one is named.
InSession(m, q) ==
  IF q.session # None THEN m.session = q.session ELSE m.session # q.exclude

Scope(t, q) == {i \in DOMAIN t : t[i].scoped /\ InSession(t[i], q)}

\* The newest messages of the scope, whatever their type; SQLite breaks ties of
\* the timestamp, and does so once for a snapshot.
Windows(t, q) ==
  IF q.windowMessages = 0 THEN {Scope(t, q)}
  ELSE {w \in SUBSET Scope(t, q) :
          /\ Cardinality(w) = Least(q.windowMessages, Cardinality(Scope(t, q)))
          /\ \A i \in w, j \in Scope(t, q) \ w : t[i].time >= t[j].time}

\* The full text match, in prose or in content.
Matched(m, any) ==
  LET has == IF request.all THEN m.terms ELSE m.prose
  IN IF any THEN has \intersect request.terms # {} ELSE request.terms \subseteq has

Candidates(any) == {i \in window : table[i].typed /\ Matched(table[i], any)}

\* Rankings: bm25 decides, after the noise when that is to be reduced.
Rankings(any) ==
  {order \in SetToSeqs(Candidates(any)) :
     request.reduceNoise =>
       \A i, j \in DOMAIN order : table[order[i]].noise /\ ~table[order[j]].noise => j < i}

\* The best of each session, in the order of all.
Capped(order) ==
  LET rank(k) == Cardinality({j \in 1 .. k : table[order[j]].session = table[order[k]].session})
      best == {k \in DOMAIN order : rank(k) <= request.perSession}
  IN IF request.perSession = 0 THEN {order}
     ELSE {[x \in DOMAIN kept |-> order[kept[x]]] :
             kept \in {q \in SetToSeqs(best) : \A i, j \in DOMAIN q : i < j => q[i] < q[j]}}

LimitedTo(order, limit) == IF limit = 0 THEN order ELSE Take(order, limit)

\* One more than asked for, to see whether the limit cuts results off.
QueryLimitAsAsked(limit) == limit   \* mutant: not one more
QueryLimit(limit) == IF limit = 0 THEN 0 ELSE limit + 1

\* Search: what it may return.  A query without terms finds nothing.
Results(any) ==
  IF request.terms = {} THEN {<<>>}
  ELSE {LimitedTo(best, QueryLimit(request.limit)) : best \in UNION {Capped(order) : order \in Rankings(any)}}

-----------------------------------------------------------------------------
(* Context.                                                                *)

\* In the order of timestamps, ties by rowid.
Before(i, j) == table[i].time < table[j].time \/ (table[i].time = table[j].time /\ i < j)

OldestFirst(rows) ==
  CHOOSE order \in SetToSeqs(rows) : \A i, j \in DOMAIN order : i < j => Before(order[i], order[j])

\* Around: the neighbours of a row in its session, with prose unless all are asked
\* for; the nearest of the earlier ones, turned to have the oldest first, and of the later.
Neighbours(row) ==
  {i \in Rows \ {row} : table[i].session = table[row].session /\ (request.all \/ table[i].spoken)}
EarlierFirst(row, n) ==   \* mutant: the oldest instead of the nearest
  Take(OldestFirst({i \in Neighbours(row) : Before(i, row)}), n)
Earlier(row, n) ==
  Reverse(Take(Reverse(OldestFirst({i \in Neighbours(row) : Before(i, row)})), n))
Later(row, n) ==
  Take(OldestFirst({i \in Neighbours(row) : Before(row, i)}), n)
Around(row, s) == Earlier(row, s.before) \o <<row>> \o Later(row, s.after)

\* ExpandContext: the windows of all hits, each message once and with the hits it
\* is there for; messages of one session and time come in the order of their ids.
ExpandContext(s) ==
  LET windows == [h \in DOMAIN hits |-> ToSet(Around(hits[h], s))]
      all == UNION {windows[h] : h \in DOMAIN hits}
  IN {[k \in DOMAIN order |->
         [row |-> order[k], hits |-> {hits[h] : h \in {x \in DOMAIN hits : order[k] \in windows[x]}}]] :
        order \in {o \in SetToSeqs(all) :
          \A i, j \in DOMAIN o : i < j =>
            \/ table[o[i]].session < table[o[j]].session
            \/ /\ table[o[i]].session = table[o[j]].session
               /\ table[o[i]].time <= table[o[j]].time}}

\* resolve: an id, or else the prefix of one.
Resolve(address) ==
  IF \E i \in Rows : Ids[i] = address THEN {i \in Rows : Ids[i] = address}
  ELSE {i \in Rows : IsPrefix(address, Ids[i])}

-----------------------------------------------------------------------------
(* The commands.                                                           *)

Init ==
  /\ table \in UNION {[1 .. n -> Messages] : n \in 0 .. MaxRows}
  /\ request \in Requests
  /\ window \in Windows(table, request)
  /\ phase = "asked"
  /\ hits = <<>> /\ relaxed = FALSE /\ truncated = FALSE
  /\ sides = [before |-> 0, after |-> 0] /\ items = <<>>
  /\ OutputInit

\* A multi-term query that finds nothing is repeated for any term.
RelaxesToo == request.mode # "any" /\ Cardinality(request.terms) > 1   \* mutant: raw ones too
Relaxes == request.mode = "all" /\ Cardinality(request.terms) > 1

\* The strict search, and the relaxed one if it finds nothing.
Search ==
  /\ phase = "asked"
  /\ request.for \in {"search", "context"}
  /\ \E found \in Results(request.mode = "any") :
       IF found = <<>> /\ Relaxes
       THEN hits' \in Results(TRUE) /\ relaxed' = (hits' # <<>>)
       ELSE hits' = found /\ relaxed' = FALSE
  /\ phase' = "searched"
  /\ UNCHANGED <<table, request, window, truncated, sides, items, output>>

Alone(rows) == [k \in DOMAIN rows |-> [row |-> rows[k], hits |-> {}]]

\* The extra hit is dropped; a search renders the rest.
Cut ==
  /\ phase = "searched"
  /\ truncated' = (request.limit > 0 /\ Len(hits) > request.limit)
  /\ hits' = LimitedTo(hits, request.limit)
  /\ IF request.for = "search"
     THEN phase' = "selected" /\ items' = Alone(hits')
     ELSE phase' = "cut" /\ items' = items
  /\ UNCHANGED <<table, request, window, relaxed, sides, output>>

\* A context expands its hits.
Expand ==
  /\ phase = "cut"
  /\ \E before, after \in Sides : sides' = [before |-> before, after |-> after]
  /\ items' \in ExpandContext(sides')
  /\ phase' = "selected"
  /\ UNCHANGED <<table, request, window, hits, relaxed, truncated, output>>

\* A read resolves its address, which may be refused, and renders what is around.
Read ==
  /\ phase = "asked"
  /\ request.for = "read"
  /\ \E address \in UNION {{Take(Ids[i], n) : n \in 1 .. Len(Ids[i])} : i \in DOMAIN Ids},
        before, after \in Sides :
       IF Cardinality(Resolve(address)) # 1
       THEN phase' = "refused" /\ UNCHANGED <<hits, sides, items>>
       ELSE \E row \in Resolve(address) :
              /\ hits' = <<row>>
              /\ sides' = [before |-> before, after |-> after]
              /\ items' = Alone(Around(row, sides'))
              /\ phase' = "selected"
  /\ UNCHANGED <<table, request, window, relaxed, truncated, output>>

\* The newest messages, with prose unless all are asked for; ties in any order.
Recent ==
  /\ phase = "asked"
  /\ request.for = "last"
  /\ \E order \in SetToSeqs({i \in window : table[i].typed /\ (request.all \/ table[i].spoken)}) :
       /\ \A i, j \in DOMAIN order : i < j => table[order[i]].time >= table[order[j]].time
       /\ hits' = LimitedTo(order, request.limit)
  /\ items' = Alone(hits')
  /\ phase' = "selected"
  /\ UNCHANGED <<table, request, window, relaxed, truncated, sides, output>>

\* Prose is rendered unless all is asked for.  The response is made of the bodies:
\* the rows are forgotten.
Body(row) == IF request.all \/ table[row].spoken THEN table[row].body ELSE [raw |-> 0, flat |-> 0]

Answer ==
  /\ phase = "selected"
  /\ Format([k \in DOMAIN items |-> Body(items[k].row)])
  /\ phase' = "answered"
  /\ table' = <<>> /\ window' = {} /\ hits' = <<>> /\ items' = <<>>
  /\ UNCHANGED <<request, relaxed, truncated, sides>>

\* Dropped results truncate the response, too.
Finish == Formatted /\ truncated' = (truncated \/ Dropped > 0) /\ UNCHANGED query

Next ==
  \/ Search \/ Cut \/ Expand \/ Read \/ Recent \/ Answer \/ Finish
  \/ (Fill \/ Filled \/ Pour \/ Emit) /\ UNCHANGED <<query, truncated>>

Spec == Init /\ [][Next]_vars

-----------------------------------------------------------------------------
(* Properties.                                                             *)

Chosen == phase = "selected" /\ request.for \in {"search", "context"}

\* What the query asks for, in the window: every term, or any.
TermsOf(row) == IF request.all THEN table[row].terms ELSE table[row].prose
AllTerms == {i \in window : table[i].typed /\ request.terms # {} /\ request.terms \subseteq TermsOf(i)}
AnyTerm == {i \in window : table[i].typed /\ request.terms \intersect TermsOf(i) # {}}
Asked == IF relaxed \/ request.mode = "any" THEN AnyTerm ELSE AllTerms

SessionHits(session) == {r \in ToSet(hits) : table[r].session = session}
Missed ==
  {r \in Asked \ ToSet(hits) :
     request.perSession = 0 \/ Cardinality(SessionHits(table[r].session)) < request.perSession}

\* Every hit matches and is given once, a session has no more than its share.
HitsAreAsked ==
  /\ \A i, j \in DOMAIN hits : hits[i] = hits[j] => i = j
  /\ ToSet(hits) \subseteq Asked
  /\ request.perSession > 0 =>
       \A r \in ToSet(hits) : Cardinality(SessionHits(table[r].session)) <= request.perSession
TruncatedIfMissed ==
  /\ request.limit > 0 => Len(hits) <= request.limit
  /\ truncated = (Missed # {})
  /\ truncated => request.limit > 0 /\ Len(hits) = request.limit
LastAreNewest ==
  LET rest == {i \in window : table[i].typed /\ (request.all \/ table[i].spoken)} \ ToSet(hits)
  IN /\ rest # {} => Len(hits) = request.limit
     /\ \A i \in rest, j \in ToSet(hits) : table[i].time <= table[j].time

\* A search misses a match, however far down the ranking, only if its limit is used up
\* or the session of the match has its share, and says that it is truncated exactly if
\* the limit made it miss one ("One more than requested", runSearch; "without an
\* arbitrary overfetch cutoff that could hide quieter sessions", Search).  The last
\* messages are the newest.
LimitIsHonest ==
  /\ Chosen => HitsAreAsked /\ TruncatedIfMissed
  /\ phase = "selected" /\ request.for = "last" => LastAreNewest

StrictFirst ==
  /\ relaxed => request.mode = "all" /\ AllTerms = {} /\ hits # <<>>
  /\ (request.mode = "raw" \/ (request.mode = "all" /\ ~relaxed)) => ToSet(hits) \subseteq AllTerms
  /\ (hits = <<>> /\ request.mode = "all" /\ Cardinality(request.terms) > 1) => AnyTerm = {}

\* Hits that lack a term of the query are given only as relaxed ones, only when no
\* message has them all and the query was neither raw nor for any term; and nothing is
\* given only when there is no related message either (runSearch, runContext).
RelaxedOnlyWithoutStrict == Chosen => StrictFirst

\* The messages from a hit to another, as a window counts them: without the hit, and
\* without what said nothing unless all is asked for.
Distance(hit, row) ==
  LET between(i) == (Before(hit, i) /\ ~Before(row, i)) \/ (Before(i, hit) /\ ~Before(i, row))
  IN Cardinality({i \in Rows : /\ table[i].session = table[hit].session
                               /\ request.all \/ table[i].spoken
                               /\ between(i)})
Surrounds(hit, row) ==
  \/ row = hit
  \/ /\ table[row].session = table[hit].session
     /\ request.all \/ table[row].spoken
     /\ Distance(hit, row) <= IF Before(row, hit) THEN sides.before ELSE sides.after

\* The windows of several hits merge into one: every message near a hit is there
\* exactly once, no other is, it names the hits it is near, and the messages of a
\* session are in the order of their times.
WindowsAreExact ==
  phase = "selected" /\ request.for \in {"context", "read"} =>
    /\ \A row \in Rows : Cardinality({k \in DOMAIN items : items[k].row = row})
                           = IF \E h \in ToSet(hits) : Surrounds(h, row) THEN 1 ELSE 0
    /\ request.for = "context" =>
         \A k \in DOMAIN items :
           items[k].hits = {h \in ToSet(hits) : Surrounds(h, items[k].row)} /\ items[k].hits # {}
    /\ \A j, k \in DOMAIN items :
         j < k /\ table[items[j].row].session = table[items[k].row].session =>
           table[items[j].row].time <= table[items[k].row].time

-----------------------------------------------------------------------------
(* What holds along the way.                                               *)

QueryType ==
  /\ table \in Seq(Messages) /\ request \in Requests /\ window \in SUBSET Rows
  /\ phase \in {"asked", "searched", "cut", "selected", "answered", "refused"}
  /\ hits \in Seq(Rows)
  /\ relaxed \in BOOLEAN /\ truncated \in BOOLEAN
  /\ sides \in [before : Nat, after : Nat]
  /\ items \in Seq([row : Rows, hits : SUBSET Rows])

\* Only searches and contexts go through a search, and a response is formatted last.
PhaseInv ==
  /\ phase # "answered" => stage = "idle"
  /\ phase = "asked" => ~relaxed
  /\ phase \in {"asked", "searched"} => ~truncated
  /\ phase = "searched" => request.for \in {"search", "context"}
  /\ phase = "cut" => request.for = "context"

\* What a search found, with the extra hit: short of it, nothing was missed.
SearchInv ==
  /\ phase \in {"searched", "cut"} => HitsAreAsked /\ StrictFirst
  /\ phase = "searched" =>
       /\ request.limit > 0 => Len(hits) <= request.limit + 1
       /\ request.limit = 0 \/ Len(hits) <= request.limit => Missed = {}
  /\ phase = "cut" => TruncatedIfMissed

AnswersInv ==
  /\ QueryType /\ PhaseInv /\ SearchInv /\ OutputInv
  /\ LimitIsHonest /\ RelaxedOnlyWithoutStrict /\ WindowsAreExact
=============================================================================
