-------------------------- MODULE APIServer_proofs --------------------------
(***************************************************************************)
(* Proofs about APIServer, for any finite sets of requests and workers and *)
(* any number of calls of Close.                                           *)
(***************************************************************************)
EXTENDS APIServer, TLAPS, FiniteSetTheorems

\* The goroutines in flight are finitely many.
LEMMA HeldFinite == IsFiniteSet(Held) /\ Cardinality(Held) \in Nat
<1>1. IsFiniteSet(Requests \union Workers)
  BY ServerConstants, FS_Union
<1>2. Held \subseteq Requests \union Workers
  BY DEF Held
<1> QED BY <1>1, <1>2, FS_Subset, FS_CardinalityType

\* A goroutine that enters the counted part of its code adds one.
LEMMA HeldGrows ==
  ASSUME NEW p \in Requests \union Workers, p \notin Held, Held' = Held \union {p}
  PROVE  Cardinality(Held') = Cardinality(Held) + 1
  BY HeldFinite, FS_AddElement

\* One that leaves it removes one.
LEMMA HeldShrinks ==
  ASSUME NEW p \in Held, Held' = Held \ {p}
  PROVE  Cardinality(Held') = Cardinality(Held) - 1
  BY HeldFinite, FS_RemoveElement

\* An empty counter means nothing is in flight.
LEMMA HeldEmpty == Cardinality(Held) = 0 => Held = {}
  BY HeldFinite, FS_EmptySet

\* The initial states satisfy the invariant.
LEMMA InitInv == Init => IInv
<1> SUFFICES ASSUME Init PROVE IInv
  OBVIOUS
<1>1. Held = {}
  BY DEF Init, Held, Counted, Goroutines
<1>2. OperationsCounted
  BY <1>1, FS_EmptySet DEF Init, OperationsCounted
<1>3. TypeOK /\ Places /\ CloseInv /\ FlagOwned
  BY <1>1 DEF Init, TypeOK, Places, CloseInv, FlagOwned, Goroutines, Kinds, Counted
<1> QED BY <1>2, <1>3 DEF IInv

\* The disjoint places of requests, workers and closers.
LEMMA Disjoint ==
  /\ \A r \in Requests : r \in Goroutines /\ r \notin Workers /\ r \notin Closers
  /\ \A w \in Workers : w \in Goroutines /\ w \notin Requests /\ w \notin Closers
  /\ \A c \in Closers : c \in Goroutines /\ c \notin Requests /\ c \notin Workers
  BY ServerConstants DEF Goroutines

\* A request's step keeps the invariant.
LEMMA RequestInv ==
  ASSUME IInv, NEW r \in Requests, RequestStep(r) \/ \E k \in Kinds : Arrive(r, k)
  PROVE  IInv'
<1> USE Disjoint DEF serverVars
<1>0. pc \in [Goroutines -> {"idle", "begin", "mark", "wait", "blocked", "returned"} \union Counted]
  BY DEF IInv, TypeOK
<1>1. CASE BeginOperation(r) /\ ~closed
  <2>1. /\ pc' = [pc EXCEPT ![r] = "open"] /\ operations' = operations + 1
        /\ UNCHANGED <<closed, refreshing, once, kind>> /\ pc[r] = "begin"
    BY <1>1 DEF BeginOperation, Refuses
  <2>2. Held' = Held \union {r} /\ r \notin Held
    BY <1>0, <2>1 DEF Held, Counted
  <2>3. OperationsCounted'
    BY <2>1, <2>2, HeldGrows DEF IInv, OperationsCounted
  <2>4. TypeOK' /\ Places' /\ FlagOwned'
    BY <1>0, <2>1 DEF IInv, TypeOK, Places, FlagOwned, Counted
  <2>5. CloseInv'
    BY <1>0, <1>1, <2>1 DEF IInv, CloseInv
  <2> QED BY <2>3, <2>4, <2>5 DEF IInv
<1>2. CASE \/ (BeginOperation(r) /\ closed) \/ OpenIndex(r) \/ Query(r)
           \/ (RequestRefresh(r) /\ (closed \/ refreshing)) \/ \E k \in Kinds : Arrive(r, k)
  <2>1. /\ \E l \in {"idle", "begin", "schedule", "query", "end"} :
             /\ pc' = [pc EXCEPT ![r] = l]
             /\ pc[r] \in Counted <=> l \in Counted
        /\ UNCHANGED serverVars /\ kind' \in [Requests -> Kinds]
    BY <1>2 DEF BeginOperation, Refuses, OpenIndex, Query, RequestRefresh, Declines, CountedToo, Arrive, IInv, TypeOK, Counted, Kinds
  <2>2. Held' = Held
    BY <1>0, <2>1 DEF Held, Counted
  <2>3. TypeOK' /\ Places' /\ FlagOwned'
    BY <1>0, <2>1 DEF IInv, TypeOK, Places, FlagOwned, Counted
  <2>4. CloseInv' /\ OperationsCounted'
    BY <1>0, <2>1, <2>2 DEF IInv, CloseInv, OperationsCounted
  <2> QED BY <2>3, <2>4 DEF IInv
<1>3. CASE RequestRefresh(r) /\ ~closed /\ ~refreshing
  <2>1. PICK w \in Workers :
           /\ pc[w] = "idle" /\ pc' = [pc EXCEPT ![r] = "query", ![w] = "run"]
    BY <1>3 DEF RequestRefresh, Declines, CountedToo
  <2>2. /\ refreshing' = TRUE /\ operations' = operations + 1 /\ pc[r] = "schedule"
        /\ UNCHANGED <<closed, once, kind>>
    BY <1>3 DEF RequestRefresh, Declines, CountedToo
  <2>3. Held' = Held \union {w} /\ w \notin Held
    BY <1>0, <2>1, <2>2 DEF Held, Counted
  <2>4. OperationsCounted'
    BY <2>2, <2>3, HeldGrows DEF IInv, OperationsCounted
  <2>5. TypeOK' /\ Places'
    BY <1>0, <2>1, <2>2 DEF IInv, TypeOK, Places, Counted
  <2>6. FlagOwned'
    BY <1>0, <1>3, <2>1, <2>2 DEF IInv, FlagOwned
  <2>7. CloseInv'
    BY <1>0, <1>3, <2>1, <2>2 DEF IInv, CloseInv
  <2> QED BY <2>4, <2>5, <2>6, <2>7 DEF IInv
<1>4. CASE EndOperation(r)
  <2>1. PICK l \in {"idle", "begin"} : pc' = [pc EXCEPT ![r] = l]
    BY <1>4 DEF EndOperation
  <2>2. /\ operations' = operations - 1 /\ pc[r] = "end"
        /\ UNCHANGED <<closed, refreshing, once>> /\ kind' \in [Requests -> Kinds]
    BY <1>4 DEF EndOperation, IInv, TypeOK, Kinds
  <2>3. Held' = Held \ {r} /\ r \in Held
    BY <1>0, <2>1, <2>2 DEF Held, Counted
  <2>4. OperationsCounted'
    BY <2>2, <2>3, HeldShrinks DEF IInv, OperationsCounted
  <2>5. operations' \in Nat
    BY <2>4, HeldFinite, <2>3, FS_Subset, FS_CardinalityType DEF OperationsCounted
  <2>6. TypeOK' /\ Places' /\ FlagOwned'
    BY <1>0, <2>1, <2>2, <2>5 DEF IInv, TypeOK, Places, FlagOwned, Counted
  <2>7. CloseInv'
    BY <1>0, <2>1, <2>2, <2>3 DEF IInv, CloseInv
  <2> QED BY <2>4, <2>6, <2>7 DEF IInv
<1> QED BY <1>1, <1>2, <1>3, <1>4 DEF RequestStep, RequestRefresh, Declines, CountedToo

\* A worker's step keeps the invariant.
LEMMA WorkerInv ==
  ASSUME IInv, NEW w \in Workers, WorkerStep(w) PROVE IInv'
<1> USE Disjoint DEF serverVars
<1>0. pc \in [Goroutines -> {"idle", "begin", "mark", "wait", "blocked", "returned"} \union Counted]
  BY DEF IInv, TypeOK
<1>1. CASE WorkerRefreshed(w)
  <2>1. /\ pc' = [pc EXCEPT ![w] = "clear"] /\ pc[w] = "run" /\ UNCHANGED <<serverVars, kind>>
    BY <1>1 DEF WorkerRefreshed
  <2>2. Held' = Held
    BY <1>0, <2>1 DEF Held, Counted
  <2> QED BY <1>0, <2>1, <2>2
        DEF IInv, TypeOK, Places, FlagOwned, CloseInv, OperationsCounted, Counted
<1>2. CASE WorkerClear(w)
  <2>1. /\ pc' = [pc EXCEPT ![w] = "exit"] /\ pc[w] = "clear" /\ refreshing' = FALSE
        /\ UNCHANGED <<closed, operations, once, kind>>
    BY <1>2 DEF WorkerClear
  <2>2. Held' = Held
    BY <1>0, <2>1 DEF Held, Counted
  <2>3. FlagOwned'
    BY <1>0, <2>1 DEF IInv, FlagOwned
  <2> QED BY <1>0, <2>1, <2>2, <2>3
        DEF IInv, TypeOK, Places, CloseInv, OperationsCounted, Counted
<1>3. CASE WorkerDone(w)
  <2>1. /\ pc' = [pc EXCEPT ![w] = "idle"] /\ pc[w] = "exit" /\ operations' = operations - 1
        /\ UNCHANGED <<closed, refreshing, once, kind>>
    BY <1>3 DEF WorkerDone
  <2>2. Held' = Held \ {w} /\ w \in Held
    BY <1>0, <2>1 DEF Held, Counted
  <2>3. OperationsCounted'
    BY <2>1, <2>2, HeldShrinks DEF IInv, OperationsCounted
  <2>4. operations' \in Nat
    BY <2>2, <2>3, HeldFinite, FS_Subset, FS_CardinalityType DEF OperationsCounted
  <2>5. CloseInv'
    BY <1>0, <2>1, <2>2 DEF IInv, CloseInv
  <2> QED BY <1>0, <2>1, <2>3, <2>4, <2>5 DEF IInv, TypeOK, Places, FlagOwned, Counted
<1> QED BY <1>1, <1>2, <1>3 DEF WorkerStep

\* A step of Close keeps the invariant: the wait ends with nothing in flight.
LEMMA CloseStepInv ==
  ASSUME IInv, NEW c \in Closers, CloseStep(c) \/ CloseBegins(c) PROVE IInv'
<1> USE Disjoint DEF serverVars
<1>0. pc \in [Goroutines -> {"idle", "begin", "mark", "wait", "blocked", "returned"} \union Counted]
  BY DEF IInv, TypeOK
<1>1. /\ \E l \in {"mark", "wait", "blocked", "returned"} : pc' = [pc EXCEPT ![c] = l]
      /\ UNCHANGED <<refreshing, operations, kind>>
      /\ closed' \in BOOLEAN /\ once' \in {"new", "running", "done"}
  BY DEF CloseStep, CloseBegins, CloseMarks, CloseDrained, CloseFollows, IInv, TypeOK
<1>2. Held' = Held
  BY <1>0, <1>1 DEF Held
<1>3. TypeOK' /\ Places' /\ FlagOwned' /\ OperationsCounted'
  BY <1>0, <1>1, <1>2 DEF IInv, TypeOK, Places, FlagOwned, OperationsCounted, Counted
<1>4. CloseInv'
  <2>1. CASE CloseBegins(c)
    BY <1>0, <1>2, <2>1 DEF CloseBegins, IInv, CloseInv
  <2>2. CASE CloseMarks(c)
    BY <1>0, <1>2, <2>2 DEF CloseMarks, IInv, CloseInv
  <2>3. CASE CloseDrained(c)
    <3>1. Held = {} /\ closed
      BY <2>3, HeldEmpty DEF CloseDrained, IInv, OperationsCounted, CloseInv
    <3> QED BY <1>0, <1>2, <2>3, <3>1 DEF CloseDrained, IInv, CloseInv
  <2>4. CASE CloseFollows(c)
    BY <1>0, <1>2, <2>4 DEF CloseFollows, IInv, CloseInv
  <2> QED BY <2>1, <2>2, <2>3, <2>4 DEF CloseStep
<1> QED BY <1>3, <1>4 DEF IInv

\* The invariant is inductive.
LEMMA NextInv == IInv /\ [Next]_vars => IInv'
<1> SUFFICES ASSUME IInv, [Next]_vars PROVE IInv'
  OBVIOUS
<1>1. CASE UNCHANGED vars
  <2>1. Held' = Held
    BY <1>1 DEF vars, Held
  <2> QED BY <1>1, <2>1 DEF vars, serverVars, IInv, TypeOK, OperationsCounted, FlagOwned, CloseInv, Places
<1> QED BY <1>1, RequestInv, WorkerInv, CloseStepInv DEF Next

\* The wait group counts what is in flight and the flag has one owner.
THEOREM Invariance == Spec => []IInv
  BY InitInv, NextInv, PTL DEF Spec

\* Every variable of the server keeps its type; the wait group's counter, in
\* particular, is never taken below zero, which would panic.
THEOREM TypeCorrect == Spec => []TypeOK
<1>1. IInv => TypeOK
  BY DEF IInv
<1> QED BY <1>1, Invariance, PTL

\* The server never runs two background refreshes at once.
THEOREM SingleFlightAlways == Spec => []SingleFlight
<1>1. IInv => SingleFlight
  BY DEF IInv, FlagOwned, SingleFlight
<1> QED BY <1>1, Invariance, PTL

\* After any Close has returned nothing of the server touches the index.
THEOREM ClosedIsQuietAlways == Spec => []ClosedIsQuiet
<1>1. IInv => ClosedIsQuiet
  BY DEF IInv, CloseInv, ClosedIsQuiet
<1> QED BY <1>1, Invariance, PTL
=============================================================================
