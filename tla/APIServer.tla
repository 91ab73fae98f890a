------------------------------ MODULE APIServer ------------------------------
(***************************************************************************)
(* The scheduling and shutdown of the HTTP API: internal/server/refresh.go *)
(* and Server of internal/server/server.go.  A mutex protects closed,      *)
(* refreshing and the additions to the operations wait group; requests     *)
(* run concurrently, each with a snapshot of its own; stale ones start the *)
(* one background refresh the server owns; Close drains them all.          *)
(*                                                                         *)
(* What a snapshot contains, and whether it is stale, is a choice here:    *)
(* RefreshProtocol models the index.                                       *)
(***************************************************************************)
EXTENDS Naturals, FiniteSets

CONSTANTS
  Requests,   \* request goroutines of net/http
  Workers,    \* goroutines of requestRefresh that can be alive at once
  Closers     \* goroutines that call Close

ASSUME ServerConstants ==
  /\ IsFiniteSet(Requests) /\ IsFiniteSet(Workers)
  /\ Requests \intersect Workers = {}
  /\ Closers \intersect (Requests \union Workers) = {}

VARIABLES
  closed,      \* Server.closed
  refreshing,  \* Server.refreshing
  operations,  \* the counter of the wait group Server.operations
  once,        \* Server.closeOnce: "new", "running" or "done"
  pc,          \* where each goroutine is
  kind         \* what each request is

serverVars == <<closed, refreshing, operations, once>>
vars == <<serverVars, pc, kind>>

Goroutines == Requests \union Workers \union Closers
Kinds == {"read", "sessions", "write"}

\* Where a request or a worker has been added to the wait group.
Counted == {"open", "schedule", "query", "end", "run", "clear", "exit"}
Held == {p \in Requests \union Workers : pc[p] \in Counted}

TypeOK ==
  /\ closed \in BOOLEAN
  /\ refreshing \in BOOLEAN
  /\ operations \in Nat
  /\ once \in {"new", "running", "done"}
  /\ pc \in [Goroutines ->
       {"idle", "begin", "mark", "wait", "blocked", "returned"} \union Counted]
  /\ kind \in [Requests -> Kinds]

\* New has bootstrapped the index; the server has served nothing yet.
Init ==
  /\ closed = FALSE
  /\ refreshing = FALSE
  /\ operations = 0
  /\ once = "new"
  /\ pc = [p \in Goroutines |-> "idle"]
  /\ kind = [r \in Requests |-> "read"]

-----------------------------------------------------------------------------
(* Requests.                                                               *)

Arrive(r, k) ==
  /\ pc[r] = "idle"
  /\ pc' = [pc EXCEPT ![r] = "begin"]
  /\ kind' = [kind EXCEPT ![r] = k]
  /\ UNCHANGED serverVars

\* refresh.go 14: what is refused with 503.
RefusesNone == FALSE   \* mutant: the test is missing
Refuses == closed

\* Admission, in one critical section: refused once the server is closed,
\* counted otherwise.
BeginOperation(r) ==
  /\ pc[r] = "begin"
  /\ \/ /\ Refuses
        /\ pc' = [pc EXCEPT ![r] = "idle"]
        /\ UNCHANGED operations
     \/ /\ ~Refuses
        /\ operations' = operations + 1
        /\ pc' = [pc EXCEPT ![r] = "open"]
  /\ UNCHANGED <<closed, refreshing, once, kind>>

\* withDB opens the snapshot and reads its freshness; one found stale and not
\* tried lately goes to requestRefresh.  A refresh or rebuild request does all
\* of its work here.  An error ends the operation.
OpenIndex(r) ==
  /\ pc[r] = "open"
  /\ \/ pc' = [pc EXCEPT ![r] = "end"]
     \/ kind[r] # "write" /\ \E next \in {"schedule", "query"} : pc' = [pc EXCEPT ![r] = next]
  /\ UNCHANGED <<serverVars, kind>>

\* refresh.go 48: nothing is started once closed, nor a second worker.
DeclinesClosed == closed   \* mutant: the flag is not looked at
Declines == closed \/ refreshing

\* The new worker is added to the wait group before it runs.
Uncounted == operations   \* mutant: it is not
CountedToo == operations + 1

\* requestRefresh, in one critical section: nothing to do when the server is
\* closed or its refresh is in flight; otherwise count and start a worker.
RequestRefresh(r) ==
  /\ pc[r] = "schedule"
  /\ \/ /\ Declines
        /\ pc' = [pc EXCEPT ![r] = "query"]
        /\ UNCHANGED <<refreshing, operations>>
     \/ /\ ~Declines
        /\ refreshing' = TRUE
        /\ operations' = CountedToo
        /\ \E w \in Workers :
             /\ pc[w] = "idle"
             /\ pc' = [pc EXCEPT ![r] = "query", ![w] = "run"]
  /\ UNCHANGED <<closed, once, kind>>

\* The handler's queries, successful, failed or ended by a recovered panic.
Query(r) ==
  /\ pc[r] = "query"
  /\ pc' = [pc EXCEPT ![r] = "end"]
  /\ UNCHANGED <<serverVars, kind>>

\* The deferred Done.  A session listing without a strict match goes through
\* withDB a second time, as a new operation, to match any term.
EndOperation(r) ==
  /\ pc[r] = "end"
  /\ operations' = operations - 1
  /\ \/ /\ pc' = [pc EXCEPT ![r] = "idle"]
        /\ UNCHANGED kind
     \/ /\ kind[r] = "sessions"
        /\ pc' = [pc EXCEPT ![r] = "begin"]
        /\ kind' = [kind EXCEPT ![r] = "read"]
  /\ UNCHANGED <<closed, refreshing, once>>

-----------------------------------------------------------------------------
(* The background refresh.                                                 *)

\* index.Refresh returns: done, skipped, throttled or failed, it is all one.
WorkerRefreshed(w) ==
  /\ pc[w] = "run"
  /\ pc' = [pc EXCEPT ![w] = "clear"]
  /\ UNCHANGED <<serverVars, kind>>

\* Mutant: the counter is decremented with the flag, and again by Done.
WorkerClearAndDone(w) ==
  /\ pc[w] = "clear"
  /\ refreshing' = FALSE
  /\ operations' = operations - 1
  /\ pc' = [pc EXCEPT ![w] = "exit"]
  /\ UNCHANGED <<closed, once, kind>>

\* Mutant: the flag stays set.
WorkerKeepsFlag(w) ==
  /\ pc[w] = "clear"
  /\ pc' = [pc EXCEPT ![w] = "exit"]
  /\ UNCHANGED <<closed, refreshing, operations, once, kind>>

\* The deferred calls, last first: the flag under the mutex, then Done.
WorkerClear(w) ==
  /\ pc[w] = "clear"
  /\ refreshing' = FALSE
  /\ pc' = [pc EXCEPT ![w] = "exit"]
  /\ UNCHANGED <<closed, operations, once, kind>>

WorkerDone(w) ==
  /\ pc[w] = "exit"
  /\ operations' = operations - 1
  /\ pc' = [pc EXCEPT ![w] = "idle"]
  /\ UNCHANGED <<closed, refreshing, once, kind>>

-----------------------------------------------------------------------------
(* Close.                                                                  *)

\* closeOnce.Do: the first caller runs the function, the others wait for it.
CloseBegins(c) ==
  /\ pc[c] = "idle"
  /\ \/ /\ once = "new"
        /\ once' = "running"
        /\ pc' = [pc EXCEPT ![c] = "mark"]
     \/ /\ once # "new"
        /\ pc' = [pc EXCEPT ![c] = "blocked"]
        /\ UNCHANGED once
  /\ UNCHANGED <<closed, refreshing, operations, kind>>

CloseMarks(c) ==
  /\ pc[c] = "mark"
  /\ closed' = TRUE
  /\ pc' = [pc EXCEPT ![c] = "wait"]
  /\ UNCHANGED <<refreshing, operations, once, kind>>

\* operations.Wait, and the return of Do.
CloseDrained(c) ==
  /\ pc[c] = "wait"
  /\ operations = 0
  /\ once' = "done"
  /\ pc' = [pc EXCEPT ![c] = "returned"]
  /\ UNCHANGED <<closed, refreshing, operations, kind>>

CloseFollows(c) ==
  /\ pc[c] = "blocked"
  /\ once = "done"
  /\ pc' = [pc EXCEPT ![c] = "returned"]
  /\ UNCHANGED <<serverVars, kind>>

-----------------------------------------------------------------------------
RequestStep(r) ==
  BeginOperation(r) \/ OpenIndex(r) \/ RequestRefresh(r) \/ Query(r) \/ EndOperation(r)
WorkerStep(w) == WorkerRefreshed(w) \/ WorkerClear(w) \/ WorkerDone(w)
CloseStep(c) == CloseMarks(c) \/ CloseDrained(c) \/ CloseFollows(c)

Next ==
  \/ \E r \in Requests : RequestStep(r) \/ \E k \in Kinds : Arrive(r, k)
  \/ \E w \in Workers : WorkerStep(w)
  \/ \E c \in Closers : CloseStep(c) \/ CloseBegins(c)

Spec == Init /\ [][Next]_vars

\* Goroutines are scheduled, and every call into the index returns; nobody is
\* obliged to send a request or to close the server.
FairSpec ==
  /\ Spec
  /\ \A r \in Requests : WF_vars(RequestStep(r))
  /\ \A w \in Workers : WF_vars(WorkerStep(w))
  /\ \A c \in Closers : WF_vars(CloseStep(c))

-----------------------------------------------------------------------------
(* Properties.                                                             *)

\* The server owns one background refresh: two never run at once, though a
\* worker gives up the flag before it leaves the wait group.
SingleFlight ==
  \A v, w \in Workers : pc[v] = "run" /\ pc[w] = "run" => v = w

\* When Close has returned to any of its callers, no request holds a snapshot
\* or a writer and no background refresh is alive, whatever was admitted or
\* scheduled while Close was marking the server closed.
ClosedIsQuiet == (\E c \in Closers : pc[c] = "returned") => Held = {}

\* Every Close returns: admission stops before the wait begins, so the
\* operations in flight drain, the background refresh included.
CloseReturns == \A c \in Closers : pc[c] # "idle" ~> pc[c] = "returned"

\* While the server is open, reads that keep finding the index stale keep
\* getting background refreshes: the flag is never left set by a worker.
StaleReadsRefresh ==
  ([]<>\E r \in Requests : pc[r] = "schedule") =>
    <>closed \/ []<>\E w \in Workers : pc[w] = "run"

-----------------------------------------------------------------------------
(* The inductive invariant.                                                *)

\* The wait group counts the operations in flight.
OperationsCounted == operations = Cardinality(Held)

\* The flag is set exactly while a worker has it, and one worker has it.
FlagOwned ==
  /\ \A v, w \in Workers :
       pc[v] \in {"run", "clear"} /\ pc[w] \in {"run", "clear"} => v = w
  /\ refreshing <=> \E w \in Workers : pc[w] \in {"run", "clear"}

\* The first Close marks the server and waits alone; once it is done nothing
\* is in flight.
CloseInv ==
  /\ \A c, d \in Closers :
       pc[c] \in {"mark", "wait"} /\ pc[d] \in {"mark", "wait"} => c = d
  /\ \A c \in Closers : pc[c] \in {"mark", "wait"} => once = "running"
  /\ \A c \in Closers : pc[c] = "wait" => closed
  /\ \A c \in Closers : pc[c] = "returned" => once = "done"
  /\ once = "done" => closed /\ Held = {}

\* Requests, workers and closers are each in places of their own code.
Places ==
  /\ \A r \in Requests : pc[r] \in {"idle", "begin", "open", "schedule", "query", "end"}
  /\ \A w \in Workers : pc[w] \in {"idle", "run", "clear", "exit"}
  /\ \A c \in Closers : pc[c] \in {"idle", "mark", "wait", "blocked", "returned"}

IInv == TypeOK /\ OperationsCounted /\ FlagOwned /\ CloseInv /\ Places
=============================================================================
