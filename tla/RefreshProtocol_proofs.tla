----------------------- MODULE RefreshProtocol_proofs -----------------------
(***************************************************************************)
(* Proofs about RefreshProtocol, for every set of callers, workers, files, *)
(* roots and profiles and every bound.                                     *)
(***************************************************************************)
EXTENDS RefreshProtocol, TLAPS

\* The constants have the types the module assumes, and SomeProfile is one.
LEMMA SomeProfileType == SomeProfile \in Profiles
  BY ConstantsAssumption DEF SomeProfile

\* An age stays an age when it grows.
LEMMA OlderType == \A a \in 0 .. Never : Older(a) \in 0 .. Never
  BY ConstantsAssumption DEF Older, Never

\* What exists when a call begins is a vector of versions.
LEMMA ExistingType ==
  ASSUME disk \in [Files -> Nat], NEW pr \in Profiles
  PROVE  Existing(pr) \in [Files -> Nat]
  BY DEF Existing

LEMMA NothingType == Nothing \in [Files -> Nat]
  BY DEF Nothing

\* The steps that end a call leave the local state of a process well typed.
LEMMA ForgetType ==
  ASSUME TypeOK, NEW p \in Procs, Forget(p)
  PROVE  /\ kind' \in [Procs -> Kinds]
         /\ profile' \in [Procs -> Profiles]
         /\ owed' \in [Procs -> [Files -> Nat]]
         /\ waited' \in [Procs -> 0 .. LockTimeout]
         /\ outcome' \in [Procs -> {"running", "ok", "skipped", "failed"}]
         /\ roots' \in [Procs -> SUBSET Roots]
         /\ at' \in [Procs -> Roots \union {NoRoot}]
         /\ pending' \in [Procs -> SUBSET Files]
         /\ cut' \in [Procs -> SUBSET Roots]
         /\ cur' \in [Procs -> Files \union {NoFile}]
         /\ stat' \in [Procs -> Nat]
         /\ data' \in [Procs -> Nat]
         /\ snap' \in [Procs -> [Files -> Nat]]
         /\ launch' \in [Procs -> BOOLEAN]
         /\ \A q \in Procs \ {p} : at'[q] = at[q] /\ cur'[q] = cur[q]
<1> USE DEF TypeOK, Forget
<1>1. /\ kind' \in [Procs -> Kinds]
      /\ profile' \in [Procs -> Profiles]
      /\ owed' \in [Procs -> [Files -> Nat]]
      /\ snap' \in [Procs -> [Files -> Nat]]
  BY SomeProfileType, NothingType DEF Kinds
<1>2. /\ waited' \in [Procs -> 0 .. LockTimeout]
      /\ stat' \in [Procs -> Nat]
      /\ data' \in [Procs -> Nat]
  BY ConstantsAssumption
<1>3. /\ outcome' \in [Procs -> {"running", "ok", "skipped", "failed"}]
      /\ roots' \in [Procs -> SUBSET Roots]
      /\ at' \in [Procs -> Roots \union {NoRoot}]
      /\ pending' \in [Procs -> SUBSET Files]
      /\ cut' \in [Procs -> SUBSET Roots]
      /\ cur' \in [Procs -> Files \union {NoFile}]
  OBVIOUS
<1>4. launch' \in [Procs -> BOOLEAN]
  OBVIOUS
<1>5. \A q \in Procs \ {p} : at'[q] = at[q] /\ cur'[q] = cur[q]
  OBVIOUS
<1> QED BY <1>1, <1>2, <1>3, <1>4, <1>5

LEMMA InitType == Init => TypeOK
<1> SUFFICES ASSUME Init PROVE TypeOK
  OBVIOUS
<1> USE DEF Init
<1>1. /\ disk \in [Files -> Nat] /\ row \in [Files -> Nat]
      /\ content \in [Files -> Nat]
      /\ owed \in [Procs -> [Files -> Nat]] /\ snap \in [Procs -> [Files -> Nat]]
  BY NothingType
<1>2. /\ attempt \in [Profiles -> 0 .. Never] /\ success \in [Profiles -> 0 .. Never]
      /\ sinceBg \in [Profiles -> 0 .. Never]
      /\ waited \in [Procs -> 0 .. LockTimeout] /\ faults \in 0 .. MaxFaults
  BY ConstantsAssumption DEF Never
<1>3. profile \in [Procs -> Profiles]
  BY SomeProfileType
<1> QED BY <1>1, <1>2, <1>3 DEF TypeOK, Labels, Kinds

\* Every step of the protocol keeps every variable well typed.
LEMMA NextType == TypeOK /\ [Next]_vars => TypeOK'
<1> SUFFICES ASSUME TypeOK, [Next]_vars PROVE TypeOK'
  OBVIOUS
<1> USE DEF diskVars, dbVars, stateVars, callVars, walkVars, fileVars, readVars
<1>1. ASSUME NEW f \in Files, Write(f) PROVE TypeOK'
  BY <1>1 DEF Write, TypeOK
<1>2. ASSUME NEW f \in Files, Delete(f) PROVE TypeOK'
  BY <1>2 DEF Delete, TypeOK
<1>3. ASSUME Tick PROVE TypeOK'
  <2>1. /\ attempt' \in [Profiles -> 0 .. Never] /\ success' \in [Profiles -> 0 .. Never]
        /\ sinceBg' \in [Profiles -> 0 .. Never]
    BY <1>3, OlderType DEF Tick, TypeOK
  <2>2. waited' \in [Procs -> 0 .. LockTimeout]
    BY <1>3, ConstantsAssumption DEF Tick, TypeOK
  <2> QED BY <1>3, <2>1, <2>2 DEF Tick, TypeOK
<1>4. ASSUME NEW c \in Clients, NEW k \in Calls, NEW pr \in Profiles, Invoke(c, k, pr)
      PROVE TypeOK'
  <2>1. owed' \in [Procs -> [Files -> Nat]]
    BY <1>4, ExistingType DEF Invoke, TypeOK
  <2>2. kind' \in [Procs -> Kinds] /\ pc' \in [Procs -> Labels]
    BY <1>4, ConstantsAssumption DEF Invoke, TypeOK, Kinds, Labels
  <2> QED BY <1>4, <2>1, <2>2 DEF Invoke, TypeOK
<1>5. ASSUME NEW p \in Procs, Step(p) PROVE TypeOK'
  <2>1. CASE OpenEstablished(p)
    <3>1. CASE success[profile[p]] # Never
      <4>1. owed' = [owed EXCEPT ![p] = Nothing] /\ Pin(p)
        BY <2>1, <3>1 DEF OpenEstablished
      <4> QED BY <2>1, <4>1, NothingType DEF OpenEstablished, Pin, Due, TypeOK, Labels
    <3>2. CASE success[profile[p]] = Never
      BY <2>1, <3>2 DEF OpenEstablished, TypeOK, Labels
    <3> QED BY <3>1, <3>2
  <2>2. CASE OpenRefreshed(p)
    BY <2>2 DEF OpenRefreshed, Pin, Due, TypeOK, Labels
  <2>3. CASE Serve(p)
    <3>1. pc' = [pc EXCEPT ![p] = "idle"] /\ Forget(p)
      BY <2>3 DEF Serve
    <3> QED BY <2>3, <3>1, ForgetType DEF Serve, TypeOK, Labels
  <2>4. CASE LaunchFails(p)
    BY <2>4, ConstantsAssumption DEF LaunchFails, TypeOK
  <2>5. ASSUME NEW w \in Workers, Launch(p, w) PROVE TypeOK'
    <3>1. owed' \in [Procs -> [Files -> Nat]]
      BY <2>5, ExistingType DEF Launch, TypeOK
    <3> QED BY <2>5, <3>1 DEF Launch, TypeOK, Labels
  <2>6. CASE Acquire(p)
    <3>1. RootsOf[profile[p]] \in SUBSET Roots
      BY ConstantsAssumption DEF TypeOK
    <3>2. waited' \in [Procs -> 0 .. LockTimeout]
      BY <2>6, ConstantsAssumption DEF Acquire, TryLock, TypeOK
    <3>3. roots' \in [Procs -> SUBSET Roots] /\ pc' \in [Procs -> Labels]
      BY <2>6, <3>1 DEF Acquire, TryLock, TypeOK, Labels, Writing
    <3> QED BY <2>6, <3>2, <3>3 DEF Acquire, TryLock, TypeOK
  <2>7. CASE Busy(p)
    <3>1. pc' = [pc EXCEPT ![p] = "idle"] /\ Forget(p)
      BY <2>7 DEF Busy
    <3> QED BY <2>7, <3>1, ForgetType DEF Busy, TypeOK, Labels
  <2>8. CASE Release(p)
    <3>1. CASE kind[p] \in {"read", "freshRead"} /\ outcome[p] # "failed"
      BY <2>8, <3>1 DEF Release, Reopens, TypeOK, Labels
    <3>2. CASE kind[p] \notin {"read", "freshRead"} \/ outcome[p] = "failed"
      <4>1. pc' = [pc EXCEPT ![p] = "idle"] /\ Forget(p)
        BY <2>8, <3>2 DEF Release, Reopens
      <4> QED BY <2>8, <4>1, ForgetType DEF Release, Reopens, TypeOK, Labels
    <3> QED BY <3>1, <3>2
  <2>9. CASE Attempt(p)
    <3> DEFINE skip == kind[p] = "background" /\ Throttled(attempt[profile[p]])
    <3>1. CASE skip
      <4>1. /\ pc' = [pc EXCEPT ![p] = "unlock"]
            /\ outcome' = [outcome EXCEPT ![p] = "skipped"]
            /\ owed' = [owed EXCEPT ![p] = Nothing]
            /\ UNCHANGED <<attempt, sinceBg, roots>>
        BY <2>9, <3>1 DEF Attempt, Skips
      <4>2. owed' \in [Procs -> [Files -> Nat]]
        BY <4>1, NothingType DEF TypeOK
      <4> QED BY <2>9, <4>1, <4>2 DEF Attempt, Skips, TypeOK, Labels, Writing
    <3>2. CASE ~skip
      <4>1. RootsOf[profile[p]] \in SUBSET Roots /\ 0 \in 0 .. Never
        BY ConstantsAssumption DEF TypeOK, Never
      <4>2. /\ attempt' \in [Profiles -> 0 .. Never]
            /\ sinceBg' \in [Profiles -> 0 .. Never]
        <5>1. /\ attempt' = [attempt EXCEPT ![profile[p]] = 0]
              /\ \/ sinceBg' = [sinceBg EXCEPT ![profile[p]] = 0]
                 \/ sinceBg' = sinceBg
          BY <2>9, <3>2 DEF Attempt, Skips
        <5>2. attempt' \in [Profiles -> 0 .. Never]
          BY <4>1, <5>1 DEF TypeOK
        <5>3. sinceBg' \in [Profiles -> 0 .. Never]
          BY <4>1, <5>1 DEF TypeOK
        <5> QED BY <5>2, <5>3
      <4>3. roots' \in [Procs -> SUBSET Roots] /\ pc' \in [Procs -> Labels]
        BY <2>9, <3>2, <4>1 DEF Attempt, Skips, TypeOK, Labels, Writing
      <4> QED BY <2>9, <3>2, <4>2, <4>3 DEF Attempt, Skips, TypeOK
    <3> QED BY <3>1, <3>2
  <2>10. CASE Enter(p)
    BY <2>10 DEF Enter, TypeOK, Labels, Writing
  <2>11. CASE Visit(p)
    <3>1. PICK f \in pending[p] :
            /\ pending' = [pending EXCEPT ![p] = @ \ {f}]
            /\ \/ UNCHANGED <<pc, cur, stat>>
               \/ /\ cur' = [cur EXCEPT ![p] = f]
                  /\ stat' = [stat EXCEPT ![p] = disk[f]]
                  /\ pc' = [pc EXCEPT ![p] = "read"]
      BY <2>11 DEF Visit, Changed
    <3>2. f \in Files /\ disk[f] \in Nat /\ pc[p] = "walk" /\ at[p] \in Roots
      BY <2>11 DEF Visit, Changed, TypeOK
    <3>3. pending' \in [Procs -> SUBSET Files]
      BY <3>1 DEF TypeOK
    <3>4. /\ cur' \in [Procs -> Files \union {NoFile}] /\ stat' \in [Procs -> Nat]
          /\ pc' \in [Procs -> Labels]
      <4>1. CASE UNCHANGED <<pc, cur, stat>>
        BY <4>1 DEF TypeOK
      <4>2. CASE /\ cur' = [cur EXCEPT ![p] = f]
                 /\ stat' = [stat EXCEPT ![p] = disk[f]]
                 /\ pc' = [pc EXCEPT ![p] = "read"]
        BY <4>2, <3>2 DEF TypeOK, Labels, Writing
      <4> QED BY <3>1, <4>1, <4>2
    <3>5. \A q \in Procs :
            /\ pc'[q] \in {"walk", "read", "commit"} => at'[q] \in Roots
            /\ pc'[q] \in {"read", "commit"} => cur'[q] \in Files
      BY <2>11, <3>1, <3>2 DEF Visit, Changed, TypeOK
    <3> QED BY <2>11, <3>3, <3>4, <3>5 DEF Visit, Changed, TypeOK
  <2>12. CASE Read(p)
    <3>1. data' \in [Procs -> Nat]
      BY <2>12 DEF Read, TypeOK
    <3> QED BY <2>12, <3>1 DEF Read, TypeOK, Labels, Writing
  <2>13. CASE ReadVanished(p)
    <3>1. cut' \in [Procs -> SUBSET Roots]
      BY <2>13 DEF ReadVanished, TypeOK
    <3>2. /\ roots' \in [Procs -> SUBSET Roots] /\ at' \in [Procs -> Roots \union {NoRoot}]
          /\ pending' \in [Procs -> SUBSET Files] /\ cur' \in [Procs -> Files \union {NoFile}]
          /\ stat' \in [Procs -> Nat] /\ data' \in [Procs -> Nat]
      BY <2>13 DEF ReadVanished, LeaveRoot, TypeOK
    <3>3. /\ pc' \in [Procs -> Labels]
          /\ outcome' \in [Procs -> {"running", "ok", "skipped", "failed"}]
          /\ pc'[p] \in {"roots", "unlock"}
          /\ \A q \in Procs \ {p} : pc'[q] = pc[q] /\ at'[q] = at[q] /\ cur'[q] = cur[q]
      BY <2>13 DEF ReadVanished, LeaveRoot, TypeOK, Labels, Writing
    <3> QED BY <2>13, <3>1, <3>2, <3>3 DEF ReadVanished, TypeOK
  <2>14. CASE Commit(p)
    BY <2>14 DEF Commit, Recorded, TypeOK, Labels, Writing
  <2>15. CASE Leave(p)
    BY <2>15 DEF Leave, LeaveRoot, TypeOK, Labels, Writing
  <2>16. CASE Walked(p)
    BY <2>16, ConstantsAssumption DEF Walked, Result, TypeOK, Labels, Writing, Never
  <2> QED BY <1>5, <2>1, <2>2, <2>3, <2>4, <2>5, <2>6, <2>7, <2>8, <2>9, <2>10,
             <2>11, <2>12, <2>13, <2>14, <2>15, <2>16 DEF Step
<1>6. ASSUME NEW p \in Procs, Fail(p) PROVE TypeOK'
  <2>1. CASE SyncFails(p)
    BY <2>1, ConstantsAssumption DEF SyncFails, AfterError, LeaveRoot, TypeOK, Labels, Writing
  <2>2. CASE StateFails(p)
    BY <2>2, ConstantsAssumption DEF StateFails, TypeOK, Labels, Writing
  <2>3. CASE Crash(p)
    <3>1. pc' = [pc EXCEPT ![p] = "idle"] /\ Forget(p)
      BY <2>3 DEF Crash
    <3>2. faults' \in 0 .. MaxFaults /\ lock' \in Procs \union {Nobody}
      BY <2>3, ConstantsAssumption DEF Crash, TypeOK
    <3> QED BY <2>3, <3>1, <3>2, ForgetType DEF Crash, TypeOK, Labels
  <2> QED BY <1>6, <2>1, <2>2, <2>3 DEF Fail
<1>7. CASE UNCHANGED vars
  BY <1>7 DEF vars, TypeOK
<1> QED BY <1>1, <1>2, <1>3, <1>4, <1>5, <1>6, <1>7 DEF Next

\* Every variable keeps its type in every behaviour.
THEOREM TypeCorrect == Spec => []TypeOK
  BY InitType, NextType, PTL DEF Spec

-----------------------------------------------------------------------------
(* The inductive invariant.  Most steps touch one process and leave the    *)
(* rest as it was; Frame says what the others need for that.               *)

Same(q) ==
  /\ pc'[q] = pc[q] /\ profile'[q] = profile[q] /\ owed'[q] = owed[q]
  /\ outcome'[q] = outcome[q] /\ roots'[q] = roots[q] /\ at'[q] = at[q]
  /\ pending'[q] = pending[q] /\ cut'[q] = cut[q] /\ cur'[q] = cur[q]
  /\ stat'[q] = stat[q] /\ data'[q] = data[q] /\ snap'[q] = snap[q]

\* A process whose local state is untouched keeps its invariant while the
\* disk is the same and the index only gets newer, unless it is about to
\* commit, in which case the index must not change under it.
LEMMA Frame ==
  ASSUME TypeOK, TypeOK', NEW q \in Procs, ProcInv(q), Same(q),
         disk' = disk, present' = present,
         \A f \in Files : content'[f] >= content[f],
         pc[q] = "commit" => content' = content
  PROVE  ProcInv(q)'
<1> USE DEF Same
<1>1. \A f \in Files : /\ content[f] \in Nat /\ content'[f] \in Nat
                       /\ owed[q][f] \in Nat
  BY DEF TypeOK
<1>2. \A f \in Files : Paid(q, f) => Paid(q, f)'
  BY <1>1 DEF Paid
<1>3. OwedExists(q)'
  BY DEF ProcInv, OwedExists
<1>4. WalkInv(q)'
  BY <1>2 DEF ProcInv, WalkInv
<1>5. FileInv(q)'
  BY DEF ProcInv, FileInv
<1>6. DoneRootsPaid(q) => DoneRootsPaid(q)'
  BY <1>2 DEF DoneRootsPaid
<1>7. CallInv(q)'
  <2>1. /\ pc'[q] \in {"idle", "open", "lock", "attempt"} => outcome'[q] = "running" /\ cut'[q] = {}
        /\ pc'[q] = "idle" => owed'[q] = Nothing
        /\ pc'[q] # "serve" => snap'[q] = Nothing
        /\ pc'[q] \in {"unlock", "reopen"} => outcome'[q] \in {"ok", "skipped", "failed"}
        /\ pc'[q] \in {"unlock", "reopen"} /\ outcome'[q] = "skipped" => owed'[q] = Nothing
        /\ pc'[q] = "reopen" => outcome'[q] # "failed"
    BY DEF ProcInv, CallInv
  <2>2. pc'[q] \in {"roots", "walk", "read", "commit"} =>
          /\ outcome'[q] \in {"running", "failed"}
          /\ outcome'[q] = "running" => DoneRootsPaid(q)'
    BY <1>6 DEF ProcInv, CallInv
  <2>3. pc'[q] \in {"unlock", "reopen"} /\ outcome'[q] = "ok" =>
          \A f \in Files : RootOf[f] \notin cut'[q] => Paid(q, f)'
    BY <1>2 DEF ProcInv, CallInv
  <2>4. pc'[q] = "serve" =>
          \A f \in Files : RootOf[f] \notin cut'[q] => snap'[q][f] >= owed'[q][f]
    BY DEF ProcInv, CallInv
  <2> QED BY <2>1, <2>2, <2>3, <2>4 DEF CallInv
<1> QED BY <1>3, <1>4, <1>5, <1>7 DEF ProcInv

\* A process that is not in a call owes nothing and holds nothing.
LEMMA IdleInv ==
  ASSUME TypeOK', NEW p \in Procs, pc'[p] = "idle", outcome'[p] = "running",
         owed'[p] = Nothing, snap'[p] = Nothing, cut'[p] = {}
  PROVE  ProcInv(p)'
  BY DEF ProcInv, OwedExists, WalkInv, FileInv, CallInv, Nothing

\* Ending a call: the process that ends it is idle, the others are untouched.
LEMMA ForgetSame ==
  ASSUME TypeOK, NEW p \in Procs, Forget(p), pc' = [pc EXCEPT ![p] = "idle"]
  PROVE  /\ \A q \in Procs \ {p} : Same(q)
         /\ pc'[p] = "idle" /\ outcome'[p] = "running" /\ owed'[p] = Nothing
         /\ snap'[p] = Nothing /\ cut'[p] = {}
  BY DEF Forget, Same, TypeOK

\* A call that ends leaves the invariant intact.
LEMMA EndInv ==
  ASSUME IInv, TypeOK', NEW p \in Procs, Forget(p), pc' = [pc EXCEPT ![p] = "idle"],
         UNCHANGED <<disk, present, row, content, attempt, success, sinceBg>>,
         lock' = lock \/ (lock = p /\ lock' = Nobody)
  PROVE  IInv'
<1>1. VersionsOrdered' /\ AttemptsOrdered'
  BY DEF IInv, VersionsOrdered, AttemptsOrdered
<1>2. OneWriter'
  BY DEF IInv, OneWriter, TypeOK, Writing
<1>3. \A q \in Procs : ProcInv(q)'
  <2>1. ProcInv(p)'
    BY ForgetSame, IdleInv DEF IInv
  <2>2. ASSUME NEW q \in Procs \ {p} PROVE ProcInv(q)'
    <3>1. \A f \in Files : content'[f] >= content[f]
      BY DEF IInv, TypeOK
    <3> QED BY <3>1, ForgetSame, Frame DEF IInv
  <2> QED BY <2>1, <2>2
<1> QED BY <1>1, <1>2, <1>3 DEF IInv

\* What the rest of the system sees of a step of one process that leaves the
\* files and the index alone: enough for the invariant when the process's own
\* part is preserved.
LEMMA OneProc ==
  ASSUME IInv, TypeOK', NEW p \in Procs,
         \A q \in Procs \ {p} : Same(q),
         UNCHANGED <<disk, present, row, content>>,
         pc'[p] \in Writing => lock' = p,
         \A q \in Procs \ {p} : pc[q] \in Writing => lock' = lock,
         AttemptsOrdered', ProcInv(p)'
  PROVE  IInv'
<1>1. VersionsOrdered'
  BY DEF IInv, VersionsOrdered
<1>2. OneWriter'
  BY DEF IInv, OneWriter, Same
<1>3. ASSUME NEW q \in Procs \ {p} PROVE ProcInv(q)'
  <2>1. \A f \in Files : content'[f] >= content[f]
    BY DEF IInv, TypeOK
  <2> QED BY <2>1, Frame DEF IInv
<1> QED BY <1>1, <1>2, <1>3 DEF IInv

\* The environment: writing and removing transcripts, and time.
LEMMA WriteInv ==
  ASSUME IInv, TypeOK', NEW g \in Files, Write(g) PROVE IInv'
<1> USE DEF Write, dbVars, stateVars, callVars, walkVars, fileVars, readVars
<1>1. \A f \in Files : disk[f] \in Nat /\ disk'[f] >= disk[f] /\ disk'[f] \in Nat
  BY DEF IInv, TypeOK
<1>2. VersionsOrdered'
  BY <1>1 DEF IInv, VersionsOrdered, TypeOK
<1>3. OneWriter' /\ AttemptsOrdered'
  BY DEF IInv, OneWriter, AttemptsOrdered
<1>4. ASSUME NEW p \in Procs PROVE ProcInv(p)'
  <2>1. OwedExists(p)'
    BY <1>1 DEF IInv, ProcInv, OwedExists, TypeOK
  <2>2. WalkInv(p)'
    BY DEF IInv, ProcInv, WalkInv, Paid
  <2>3. FileInv(p)'
    BY <1>1 DEF IInv, ProcInv, FileInv, TypeOK
  <2>4. CallInv(p)'
    BY DEF IInv, ProcInv, CallInv, DoneRootsPaid, Paid
  <2> QED BY <2>1, <2>2, <2>3, <2>4 DEF ProcInv
<1> QED BY <1>2, <1>3, <1>4 DEF IInv

LEMMA DeleteInv ==
  ASSUME IInv, TypeOK', NEW g \in Files, Delete(g) PROVE IInv'
<1> USE DEF Delete, dbVars, stateVars, walkVars, fileVars, readVars
<1>1. VersionsOrdered' /\ OneWriter' /\ AttemptsOrdered'
  BY DEF IInv, VersionsOrdered, OneWriter, AttemptsOrdered
<1>2. ASSUME NEW p \in Procs PROVE ProcInv(p)'
  <2>1. \A f \in Files : /\ owed'[p][f] = IF f = g THEN 0 ELSE owed[p][f]
                         /\ owed[p][f] \in Nat /\ content[f] \in Nat /\ snap[p][f] \in Nat
    BY DEF IInv, TypeOK
  <2>2. \A f \in Files : Paid(p, f) => Paid(p, f)'
    BY <2>1 DEF Paid
  <2>3. OwedExists(p)'
    BY <2>1 DEF IInv, ProcInv, OwedExists, TypeOK
  <2>4. WalkInv(p)'
    BY <2>2 DEF IInv, ProcInv, WalkInv
  <2>5. FileInv(p)'
    BY <2>1 DEF IInv, ProcInv, FileInv, TypeOK
  <2>6. owed[p] = Nothing => owed'[p] = Nothing
    <3>1. [Nothing EXCEPT ![g] = 0] = Nothing
      BY DEF Nothing
    <3> QED BY <3>1
  <2>7. CallInv(p)'
    <3>1. DoneRootsPaid(p) => DoneRootsPaid(p)'
      BY <2>2 DEF DoneRootsPaid
    <3>2. \A f \in Files : snap[p][f] >= owed[p][f] => snap'[p][f] >= owed'[p][f]
      BY <2>1
    <3> QED BY <2>2, <2>6, <3>1, <3>2 DEF IInv, ProcInv, CallInv
  <2> QED BY <2>3, <2>4, <2>5, <2>7 DEF ProcInv
<1> QED BY <1>1, <1>2 DEF IInv

LEMMA TickInv ==
  ASSUME IInv, TypeOK', Tick PROVE IInv'
<1> USE DEF Tick, diskVars, dbVars, callVars, walkVars, fileVars, readVars
<1>1. AttemptsOrdered'
  <2>1. \A a, b \in 0 .. Never : a <= b => Older(a) <= Older(b)
    BY ConstantsAssumption DEF Older, Never
  <2> QED BY <2>1 DEF IInv, AttemptsOrdered, TypeOK
<1>2. VersionsOrdered' /\ OneWriter'
  BY DEF IInv, VersionsOrdered, OneWriter
<1>3. ASSUME NEW p \in Procs PROVE ProcInv(p)'
  <2>1. Same(p) /\ \A f \in Files : content'[f] >= content[f]
    BY DEF Same, IInv, TypeOK
  <2> QED BY <2>1, Frame DEF IInv
<1> QED BY <1>1, <1>2, <1>3 DEF IInv

\* A call begins and owes what exists.
LEMMA InvokeInv ==
  ASSUME IInv, TypeOK', NEW c \in Clients, NEW k \in Calls, NEW pr \in Profiles,
         Invoke(c, k, pr)
  PROVE  IInv'
<1> USE DEF Invoke, diskVars, dbVars, stateVars, walkVars, fileVars, readVars
<1>1. \A q \in Procs \ {c} : Same(q)
  BY DEF Same, IInv, TypeOK
<1>2. /\ c \in Procs /\ pc[c] = "idle" /\ pc'[c] \in {"open", "lock"}
      /\ owed'[c] = Existing(pr) /\ profile'[c] = pr
  BY DEF IInv, TypeOK, Procs
<1>3. AttemptsOrdered'
  BY DEF IInv, AttemptsOrdered
<1>4. ProcInv(c)'
  <2>1. OwedExists(c)'
    BY <1>2 DEF OwedExists, Existing, FilesOf, IInv, TypeOK
  <2>2. WalkInv(c)' /\ FileInv(c)'
    BY <1>2 DEF WalkInv, FileInv
  <2>3. CallInv(c)'
    BY <1>2 DEF CallInv, IInv, ProcInv
  <2> QED BY <2>1, <2>2, <2>3 DEF ProcInv
<1> QED BY <1>1, <1>2, <1>3, <1>4, OneProc DEF Writing

-----------------------------------------------------------------------------
(* The caller's steps.                                                     *)

LEMMA OpenEstablishedInv ==
  ASSUME IInv, TypeOK', NEW p \in Procs, OpenEstablished(p) PROVE IInv'
<1> USE DEF OpenEstablished, Pin, Due, diskVars, dbVars, stateVars, walkVars, fileVars, readVars
<1>1. \A q \in Procs \ {p} : Same(q)
  BY DEF Same, IInv, TypeOK
<1>2. AttemptsOrdered'
  BY DEF IInv, AttemptsOrdered
<1>3. pc[p] = "open" /\ pc'[p] \in {"serve", "lock"}
  BY DEF IInv, TypeOK
<1>4. OwedExists(p)'
  BY DEF OwedExists, Nothing, IInv, ProcInv, TypeOK
<1>5. WalkInv(p)' /\ FileInv(p)'
  BY <1>3 DEF WalkInv, FileInv
<1>6. CallInv(p)'
  <2>1. CASE success[profile[p]] = Never
    <3>1. pc'[p] = "lock" /\ snap'[p] = snap[p] /\ outcome'[p] = outcome[p] /\ cut'[p] = cut[p]
      BY <2>1 DEF IInv, TypeOK
    <3> QED BY <1>3, <3>1 DEF CallInv, IInv, ProcInv
  <2>2. CASE success[profile[p]] # Never
    <3>1. pc'[p] = "serve" /\ snap'[p] = content /\ owed'[p] = Nothing
      BY <2>2 DEF IInv, TypeOK
    <3>2. \A f \in Files : snap'[p][f] >= owed'[p][f]
      BY <3>1 DEF Nothing, IInv, TypeOK
    <3> QED BY <3>1, <3>2 DEF CallInv
  <2> QED BY <2>1, <2>2
<1> QED BY <1>1, <1>2, <1>3, <1>4, <1>5, <1>6, OneProc DEF Writing, ProcInv

LEMMA OpenRefreshedInv ==
  ASSUME IInv, TypeOK', NEW p \in Procs, OpenRefreshed(p) PROVE IInv'
<1> USE DEF OpenRefreshed, Pin, Due, diskVars, dbVars, stateVars, callVars, walkVars, fileVars, readVars
<1>1. \A q \in Procs \ {p} : Same(q)
  BY DEF Same, IInv, TypeOK
<1>2. AttemptsOrdered'
  BY DEF IInv, AttemptsOrdered
<1>3. /\ pc[p] = "reopen" /\ pc'[p] = "serve" /\ snap'[p] = content
      /\ owed'[p] = owed[p] /\ cut'[p] = cut[p]
  BY DEF IInv, TypeOK
<1>4. OwedExists(p)'
  BY DEF OwedExists, IInv, ProcInv
<1>5. WalkInv(p)' /\ FileInv(p)'
  BY <1>3 DEF WalkInv, FileInv
<1>6. CallInv(p)'
  <2>1. \A f \in Files : RootOf[f] \notin cut[p] => content[f] >= owed[p][f]
    <3>1. /\ outcome[p] \in {"ok", "skipped"}
          /\ outcome[p] = "skipped" => owed[p] = Nothing
          /\ outcome[p] = "ok" =>
               \A f \in Files : RootOf[f] \notin cut[p] => Paid(p, f)
      BY <1>3 DEF IInv, ProcInv, CallInv
    <3>2. CASE outcome[p] = "ok"
      BY <3>1, <3>2 DEF Paid
    <3>3. CASE outcome[p] = "skipped"
      BY <3>1, <3>3 DEF Nothing, IInv, TypeOK
    <3> QED BY <3>1, <3>2, <3>3
  <2> QED BY <1>3, <2>1 DEF CallInv
<1> QED BY <1>1, <1>2, <1>3, <1>4, <1>5, <1>6, OneProc DEF Writing, ProcInv

LEMMA ServeInv ==
  ASSUME IInv, TypeOK', NEW p \in Procs, Serve(p) PROVE IInv'
  BY EndInv DEF Serve, diskVars, dbVars, stateVars

LEMMA LaunchFailsInv ==
  ASSUME IInv, TypeOK', NEW p \in Procs, LaunchFails(p) PROVE IInv'
<1> USE DEF LaunchFails, diskVars, dbVars, stateVars, callVars, walkVars, fileVars
<1>1. \A q \in Procs : Same(q) /\ \A f \in Files : content'[f] >= content[f]
  BY DEF Same, IInv, TypeOK
<1>2. AttemptsOrdered' /\ VersionsOrdered' /\ OneWriter'
  BY DEF IInv, AttemptsOrdered, VersionsOrdered, OneWriter
<1>3. \A q \in Procs : ProcInv(q)'
  BY <1>1, Frame DEF IInv
<1> QED BY <1>2, <1>3 DEF IInv

\* A launched child starts as a call of its own.
LEMMA LaunchInv ==
  ASSUME IInv, TypeOK', NEW p \in Procs, NEW w \in Workers, Launch(p, w)
  PROVE  IInv'
<1> USE DEF Launch, diskVars, dbVars, stateVars, walkVars, fileVars
<1>1. /\ w \in Procs /\ pc[w] = "idle" /\ pc'[w] = "lock"
      /\ owed'[w] = Existing(profile[p]) /\ profile'[w] = profile[p]
      /\ profile[p] \in Profiles
  BY DEF Procs, IInv, TypeOK
<1>2. \A q \in Procs \ {w} : Same(q)
  BY DEF Same, IInv, TypeOK
<1>3. AttemptsOrdered'
  BY DEF IInv, AttemptsOrdered
<1>4. OwedExists(w)'
  BY <1>1 DEF OwedExists, Existing, FilesOf, IInv, TypeOK
<1>5. WalkInv(w)' /\ FileInv(w)'
  BY <1>1 DEF WalkInv, FileInv
<1>6. CallInv(w)'
  BY <1>1 DEF CallInv, IInv, ProcInv
<1> QED BY <1>1, <1>2, <1>3, <1>4, <1>5, <1>6, OneProc DEF Writing, ProcInv

-----------------------------------------------------------------------------
(* The lock.                                                               *)

LEMMA AcquireInv ==
  ASSUME IInv, TypeOK', NEW p \in Procs, Acquire(p) PROVE IInv'
<1> USE DEF Acquire, TryLock, diskVars, dbVars, stateVars, callVars, fileVars, readVars
<1>1. \A q \in Procs \ {p} : Same(q)
  BY DEF Same, IInv, TypeOK
<1>2. AttemptsOrdered'
  BY DEF IInv, AttemptsOrdered
<1>3. \A q \in Procs : pc[q] \notin Writing
  BY ConstantsAssumption DEF IInv, OneWriter
<1>4. /\ pc[p] = "lock" /\ owed'[p] = owed[p] /\ snap'[p] = snap[p]
      /\ outcome'[p] = outcome[p] /\ cut'[p] = cut[p]
      /\ \/ pc'[p] = "roots" /\ roots'[p] = RootsOf[profile[p]]
         \/ pc'[p] = "attempt"
  BY DEF IInv, TypeOK
<1>5. OwedExists(p)'
  BY DEF OwedExists, IInv, ProcInv
<1>6. WalkInv(p)' /\ FileInv(p)'
  BY <1>4 DEF WalkInv, FileInv
<1>7. CallInv(p)'
  <2>1. pc'[p] = "roots" => DoneRootsPaid(p)'
    <3>1. \A f \in Files : content[f] \in Nat /\ owed[p][f] \in Nat
      BY DEF IInv, TypeOK
    <3> QED BY <1>4, <3>1 DEF DoneRootsPaid, Paid, IInv, ProcInv, OwedExists
  <2> QED BY <1>4, <2>1 DEF CallInv, IInv, ProcInv
<1>8. lock' = p
  OBVIOUS
<1> QED BY <1>1, <1>2, <1>3, <1>5, <1>6, <1>7, <1>8, OneProc DEF ProcInv

LEMMA BusyInv ==
  ASSUME IInv, TypeOK', NEW p \in Procs, Busy(p) PROVE IInv'
  BY EndInv DEF Busy, diskVars, dbVars, stateVars

LEMMA ReleaseInv ==
  ASSUME IInv, TypeOK', NEW p \in Procs, Release(p) PROVE IInv'
<1>1. lock = p /\ lock' = Nobody /\ pc[p] = "unlock"
  BY DEF Release, Reopens, IInv, OneWriter, Writing
<1>2. CASE kind[p] \in {"read", "freshRead"} /\ outcome[p] # "failed"
  <2> USE DEF Release, Reopens, diskVars, dbVars, stateVars, callVars, walkVars, fileVars, readVars
  <2>1. \A q \in Procs \ {p} : Same(q) /\ pc[q] \notin Writing
    BY <1>1, <1>2 DEF Same, IInv, TypeOK, OneWriter
  <2>2. AttemptsOrdered'
    BY DEF IInv, AttemptsOrdered
  <2>3. /\ pc'[p] = "reopen" /\ owed'[p] = owed[p] /\ snap'[p] = snap[p]
        /\ outcome'[p] = outcome[p] /\ cut'[p] = cut[p]
    BY <1>2 DEF IInv, TypeOK
  <2>4. OwedExists(p)'
    BY <1>2 DEF OwedExists, IInv, ProcInv
  <2>5. WalkInv(p)' /\ FileInv(p)'
    BY <2>3 DEF WalkInv, FileInv
  <2>6. CallInv(p)'
    BY <1>1, <1>2, <2>3 DEF CallInv, IInv, ProcInv, Paid
  <2> QED BY <2>1, <2>2, <2>3, <2>4, <2>5, <2>6, OneProc DEF ProcInv, Writing
<1>3. CASE kind[p] \notin {"read", "freshRead"} \/ outcome[p] = "failed"
  BY <1>1, <1>3, EndInv DEF Release, Reopens, diskVars, dbVars, stateVars
<1> QED BY <1>2, <1>3

-----------------------------------------------------------------------------
(* The writer's steps.                                                     *)

LEMMA AttemptInv ==
  ASSUME IInv, TypeOK', NEW p \in Procs, Attempt(p) PROVE IInv'
<1> USE DEF Attempt, Skips, diskVars, dbVars, fileVars, readVars
<1>1. \A q \in Procs \ {p} : Same(q)
  BY DEF Same, IInv, TypeOK
<1>2. lock = p /\ lock' = p /\ pc[p] = "attempt"
  BY DEF IInv, OneWriter, Writing
<1>3. CASE kind[p] = "background" /\ Throttled(attempt[profile[p]])
  <2>1. /\ pc'[p] = "unlock" /\ outcome'[p] = "skipped" /\ owed'[p] = Nothing
        /\ snap'[p] = snap[p] /\ UNCHANGED <<attempt, sinceBg>>
    BY <1>3 DEF IInv, TypeOK
  <2>2. AttemptsOrdered'
    BY <2>1 DEF IInv, AttemptsOrdered
  <2>3. OwedExists(p)' /\ WalkInv(p)' /\ FileInv(p)'
    BY <2>1 DEF OwedExists, Nothing, WalkInv, FileInv
  <2>4. CallInv(p)'
    BY <1>2, <2>1 DEF CallInv, IInv, ProcInv
  <2> QED BY <1>1, <1>2, <2>2, <2>3, <2>4, OneProc DEF ProcInv
<1>4. CASE ~(kind[p] = "background" /\ Throttled(attempt[profile[p]]))
  <2>1. /\ pc'[p] = "roots" /\ roots'[p] = RootsOf[profile[p]]
        /\ outcome'[p] = outcome[p] /\ owed'[p] = owed[p]
        /\ snap'[p] = snap[p] /\ cut'[p] = cut[p] /\ profile'[p] = profile[p]
    BY <1>4 DEF IInv, TypeOK
  <2>2. AttemptsOrdered'
    <3>1. /\ attempt' = [attempt EXCEPT ![profile[p]] = 0]
          /\ sinceBg' = [sinceBg EXCEPT ![profile[p]] = 0] \/ sinceBg' = sinceBg
      BY <1>4
    <3> SUFFICES ASSUME NEW pr \in Profiles PROVE attempt'[pr] <= sinceBg'[pr]
      BY DEF AttemptsOrdered
    <3>2. CASE pr = profile[p]
      <4>1. attempt'[pr] = 0 /\ sinceBg'[pr] \in 0 .. Never
        BY <3>1, <3>2 DEF IInv, TypeOK
      <4> QED BY <4>1
    <3>3. CASE pr # profile[p]
      <4>1. attempt'[pr] = attempt[pr] /\ sinceBg'[pr] = sinceBg[pr]
        BY <3>1, <3>3 DEF IInv, TypeOK
      <4> QED BY <4>1 DEF IInv, AttemptsOrdered
    <3> QED BY <3>2, <3>3
  <2>3. OwedExists(p)'
    BY <2>1 DEF OwedExists, IInv, ProcInv
  <2>4. WalkInv(p)' /\ FileInv(p)'
    BY <2>1 DEF WalkInv, FileInv
  <2>5. DoneRootsPaid(p)'
    <3>1. \A f \in Files : content[f] \in Nat /\ owed[p][f] \in Nat
      BY DEF IInv, TypeOK
    <3> QED BY <2>1, <3>1 DEF DoneRootsPaid, Paid, IInv, ProcInv, OwedExists
  <2>6. CallInv(p)'
    BY <1>2, <2>1, <2>5 DEF CallInv, IInv, ProcInv
  <2> QED BY <1>1, <1>2, <2>2, <2>3, <2>4, <2>6, OneProc DEF ProcInv
<1> QED BY <1>3, <1>4

LEMMA EnterInv ==
  ASSUME IInv, TypeOK', NEW p \in Procs, Enter(p) PROVE IInv'
<1> USE DEF diskVars, dbVars, stateVars, callVars, fileVars, readVars
<1>1. \A q \in Procs \ {p} : Same(q)
  BY DEF Enter, Same, IInv, TypeOK
<1>2. /\ lock = p /\ lock' = p /\ pc[p] = "roots" /\ pc'[p] = "walk"
      /\ roots'[p] = roots[p] /\ owed'[p] = owed[p] /\ cut'[p] = cut[p]
      /\ outcome'[p] = outcome[p] /\ snap'[p] = snap[p] /\ profile'[p] = profile[p]
      /\ UNCHANGED <<disk, present, row, content, attempt, sinceBg>>
  BY DEF Enter, IInv, OneWriter, Writing, TypeOK
<1>3. PICK r \in roots[p] :
        at'[p] = r /\ pending'[p] = {f \in Files : RootOf[f] = r /\ present[f]}
  BY DEF Enter, IInv, TypeOK
<1>4. AttemptsOrdered'
  BY <1>2 DEF IInv, AttemptsOrdered
<1>5. OwedExists(p)'
  BY <1>2 DEF OwedExists, IInv, ProcInv
<1>6. WalkInv(p)'
  <2>1. \A f \in Files : content[f] \in Nat /\ owed[p][f] \in Nat
    BY DEF IInv, TypeOK
  <2>2. \A f \in Files : RootOf[f] = r => present[f] \/ Paid(p, f)'
    BY <1>2, <2>1 DEF Paid, IInv, ProcInv, OwedExists
  <2> QED BY <1>2, <1>3, <2>2 DEF WalkInv
<1>7. FileInv(p)'
  BY <1>2 DEF FileInv
<1>8. CallInv(p)'
  BY <1>2 DEF CallInv, IInv, ProcInv, DoneRootsPaid, Paid
<1> QED BY <1>1, <1>2, <1>4, <1>5, <1>6, <1>7, <1>8, OneProc DEF ProcInv

LEMMA VisitInv ==
  ASSUME IInv, TypeOK', NEW p \in Procs, Visit(p) PROVE IInv'
<1> USE DEF diskVars, dbVars, stateVars, callVars, readVars
<1>1. \A q \in Procs \ {p} : Same(q)
  BY DEF Visit, Changed, Same, IInv, TypeOK
<1>2. /\ lock = p /\ lock' = p /\ pc[p] = "walk" /\ at'[p] = at[p]
      /\ roots'[p] = roots[p] /\ owed'[p] = owed[p] /\ cut'[p] = cut[p]
      /\ outcome'[p] = outcome[p] /\ snap'[p] = snap[p] /\ profile'[p] = profile[p]
      /\ UNCHANGED <<disk, present, row, content, attempt, sinceBg>>
  BY DEF Visit, Changed, IInv, OneWriter, Writing, TypeOK
<1>3. PICK g \in pending[p] :
        /\ pending'[p] = pending[p] \ {g}
        /\ \/ /\ ~present[g] \/ row[g] = disk[g]
              /\ pc'[p] = "walk"
           \/ /\ present[g]
              /\ pc'[p] = "read" /\ cur'[p] = g /\ stat'[p] = disk[g]
  BY DEF Visit, Changed, IInv, TypeOK
<1>4. AttemptsOrdered'
  BY <1>2 DEF IInv, AttemptsOrdered
<1>5. OwedExists(p)'
  BY <1>2 DEF OwedExists, IInv, ProcInv
<1>6. g \in Files /\ RootOf[g] = at[p]
  BY <1>2, <1>3 DEF IInv, TypeOK, ProcInv, WalkInv
<1>7. \A f \in Files : /\ content[f] \in Nat /\ owed[p][f] \in Nat /\ disk[f] \in Nat
                       /\ row[f] \in Nat /\ row[f] <= content[f]
                       /\ (owed[p][f] # 0 => present[f] /\ owed[p][f] <= disk[f])
                       /\ (Paid(p, f)' <=> Paid(p, f))
  BY <1>2 DEF IInv, TypeOK, VersionsOrdered, ProcInv, OwedExists, Paid
<1>8. WalkInv(p)'
  <2>1. \A f \in Files : RootOf[f] = at[p] => f \in pending[p] \/ Paid(p, f)
    BY <1>2 DEF IInv, ProcInv, WalkInv
  <2>2. at[p] \in roots[p] /\ \A f \in pending[p] : RootOf[f] = at[p]
    BY <1>2 DEF IInv, ProcInv, WalkInv
  <2>3. pc'[p] = "walk" => Paid(p, g)
    BY <1>2, <1>3, <1>6, <1>7 DEF Paid
  <2> QED BY <1>2, <1>3, <1>7, <2>1, <2>2, <2>3 DEF WalkInv
<1>9. FileInv(p)'
  BY <1>2, <1>3, <1>6, <1>7 DEF FileInv
<1>10. CallInv(p)'
  BY <1>2, <1>3, <1>7 DEF CallInv, IInv, ProcInv, DoneRootsPaid
<1> QED BY <1>1, <1>2, <1>4, <1>5, <1>8, <1>9, <1>10, OneProc DEF ProcInv

LEMMA ReadInv ==
  ASSUME IInv, TypeOK', NEW p \in Procs, Read(p) PROVE IInv'
<1> USE DEF Read, diskVars, dbVars, stateVars, callVars, walkVars, readVars
<1>1. \A q \in Procs \ {p} : Same(q)
  BY DEF Same, IInv, TypeOK
<1>2. /\ lock = p /\ lock' = p /\ pc[p] = "read" /\ pc'[p] = "commit"
      /\ data'[p] = disk[cur[p]] /\ cur[p] \in Files
  BY DEF IInv, OneWriter, Writing, TypeOK
<1>3. AttemptsOrdered'
  BY DEF IInv, AttemptsOrdered
<1>4. OwedExists(p)'
  BY DEF OwedExists, IInv, ProcInv
<1>5. WalkInv(p)'
  BY <1>2 DEF WalkInv, Paid, IInv, ProcInv
<1>6. FileInv(p)'
  BY <1>2 DEF FileInv, IInv, ProcInv, VersionsOrdered, TypeOK
<1>7. CallInv(p)'
  BY <1>2 DEF CallInv, IInv, ProcInv, DoneRootsPaid, Paid
<1> QED BY <1>1, <1>2, <1>3, <1>4, <1>5, <1>6, <1>7, OneProc DEF ProcInv

\* Leaving a root, in full or not.  What p has paid elsewhere stays paid.
LEMMA LeaveSame ==
  ASSUME IInv, NEW p \in Procs, LeaveRoot(p)
  PROVE  /\ roots'[p] = roots[p] \ {at[p]}
         /\ \A q \in Procs \ {p} :
              /\ roots'[q] = roots[q] /\ at'[q] = at[q] /\ pending'[q] = pending[q]
              /\ cur'[q] = cur[q] /\ stat'[q] = stat[q] /\ data'[q] = data[q]
  BY DEF LeaveRoot, IInv, TypeOK

LEMMA ReadVanishedInv ==
  ASSUME IInv, TypeOK', NEW p \in Procs, ReadVanished(p) PROVE IInv'
<1> USE DEF diskVars, dbVars, stateVars, callVars, readVars
<1>1. LeaveRoot(p)
  BY DEF ReadVanished
<1>2. \A q \in Procs \ {p} : Same(q)
  BY <1>1, LeaveSame DEF ReadVanished, Same, IInv, TypeOK
<1>3. /\ lock = p /\ lock' = p /\ pc[p] = "read" /\ cut'[p] = cut[p] \union {at[p]}
      /\ owed'[p] = owed[p] /\ snap'[p] = snap[p] /\ profile'[p] = profile[p]
      /\ UNCHANGED <<disk, present, row, content, attempt, sinceBg>>
      /\ \/ pc'[p] = "roots" /\ outcome'[p] = outcome[p]
         \/ pc'[p] = "unlock" /\ outcome'[p] = "failed"
  BY DEF ReadVanished, IInv, OneWriter, Writing, TypeOK
<1>4. AttemptsOrdered'
  BY <1>3 DEF IInv, AttemptsOrdered
<1>5. OwedExists(p)'
  BY <1>3 DEF OwedExists, IInv, ProcInv
<1>6. WalkInv(p)' /\ FileInv(p)'
  BY <1>3 DEF WalkInv, FileInv
<1>7. CallInv(p)'
  BY <1>1, <1>3, LeaveSame DEF CallInv, IInv, ProcInv, DoneRootsPaid, Paid
<1> QED BY <1>2, <1>3, <1>4, <1>5, <1>6, <1>7, OneProc DEF ProcInv

LEMMA LeaveInv ==
  ASSUME IInv, TypeOK', NEW p \in Procs, Leave(p) PROVE IInv'
<1> USE DEF diskVars, dbVars, stateVars, callVars, readVars
<1>1. LeaveRoot(p)
  BY DEF Leave
<1>2. \A q \in Procs \ {p} : Same(q)
  BY <1>1, LeaveSame DEF Leave, Same, IInv, TypeOK
<1>3. /\ lock = p /\ lock' = p /\ pc[p] = "walk" /\ pending[p] = {}
      /\ pc'[p] = "roots" /\ cut'[p] = cut[p] /\ outcome'[p] = outcome[p]
      /\ owed'[p] = owed[p] /\ snap'[p] = snap[p] /\ profile'[p] = profile[p]
      /\ UNCHANGED <<disk, present, row, content, attempt, sinceBg>>
  BY DEF Leave, IInv, OneWriter, Writing, TypeOK
<1>4. AttemptsOrdered'
  BY <1>3 DEF IInv, AttemptsOrdered
<1>5. OwedExists(p)'
  BY <1>3 DEF OwedExists, IInv, ProcInv
<1>6. WalkInv(p)' /\ FileInv(p)'
  BY <1>3 DEF WalkInv, FileInv
<1>7. \A f \in Files : RootOf[f] = at[p] => Paid(p, f)
  BY <1>3 DEF IInv, ProcInv, WalkInv
<1>8. CallInv(p)'
  BY <1>1, <1>3, <1>7, LeaveSame DEF CallInv, IInv, ProcInv, DoneRootsPaid, Paid
<1> QED BY <1>2, <1>3, <1>4, <1>5, <1>6, <1>8, OneProc DEF ProcInv

\* The only step that changes the index: the lock keeps every other process
\* from committing, and the text read is no older than the one it replaces.
LEMMA CommitInv ==
  ASSUME IInv, TypeOK', NEW p \in Procs, Commit(p) PROVE IInv'
<1> USE DEF diskVars, stateVars, callVars, walkVars, readVars
<1>1. /\ lock = p /\ lock' = p /\ pc[p] = "commit" /\ pc'[p] = "walk"
      /\ cur[p] \in Files /\ roots'[p] = roots[p] /\ at'[p] = at[p]
      /\ pending'[p] = pending[p] /\ outcome'[p] = outcome[p]
      /\ UNCHANGED <<disk, present, owed, cut, snap, profile, attempt, sinceBg>>
  BY DEF Commit, Recorded, IInv, OneWriter, Writing, TypeOK
<1>2. /\ content[cur[p]] <= data[p] /\ stat[p] <= data[p] /\ data[p] <= disk[cur[p]]
      /\ owed[p][cur[p]] <= stat[p] /\ RootOf[cur[p]] = at[p]
  BY <1>1 DEF IInv, ProcInv, FileInv
<1>3. \A f \in Files : /\ content[f] \in Nat /\ content'[f] \in Nat
                       /\ content'[f] = IF f = cur[p] THEN data[p] ELSE content[f]
                       /\ row'[f] = IF f = cur[p] THEN stat[p] ELSE row[f]
                       /\ owed[p][f] \in Nat
  BY DEF Commit, Recorded, IInv, TypeOK
<1>4. stat[p] \in Nat /\ data[p] \in Nat
  BY DEF IInv, TypeOK
<1>5. \A f \in Files : content'[f] >= content[f]
  BY <1>1, <1>2, <1>3, <1>4
<1>6. VersionsOrdered'
  BY <1>1, <1>2, <1>3 DEF IInv, VersionsOrdered
<1>7. \A q \in Procs \ {p} : Same(q) /\ pc[q] # "commit" /\ pc[q] \notin Writing
  BY <1>1 DEF Commit, Recorded, Same, IInv, OneWriter, Writing, TypeOK
<1>8. OneWriter' /\ AttemptsOrdered'
  BY <1>1, <1>7 DEF IInv, OneWriter, AttemptsOrdered, Same
<1>9. ASSUME NEW q \in Procs \ {p} PROVE ProcInv(q)'
  BY <1>1, <1>5, <1>7, Frame DEF IInv
<1>10. ProcInv(p)'
  <2>1. \A f \in Files : Paid(p, f) => Paid(p, f)'
    BY <1>1, <1>3, <1>5 DEF Paid
  <2>2. content'[cur[p]] >= owed'[p][cur[p]]
    <3>1. content'[cur[p]] = data[p] /\ owed[p][cur[p]] \in Nat
      BY <1>1, <1>3
    <3>2. data[p] >= owed[p][cur[p]]
      BY <1>2, <1>4, <3>1
    <3> QED BY <1>1, <3>1, <3>2
  <2>3. OwedExists(p)'
    BY <1>1 DEF OwedExists, IInv, ProcInv
  <2>4. WalkInv(p)'
    <3>1. /\ at[p] \in roots[p]
          /\ \A f \in pending[p] : RootOf[f] = at[p]
          /\ \A f \in Files : RootOf[f] = at[p] =>
               f \in pending[p] \/ f = cur[p] \/ Paid(p, f)
      BY <1>1 DEF WalkInv, IInv, ProcInv
    <3>2. ASSUME NEW f \in Files, RootOf[f] = at[p]
          PROVE  f \in pending[p] \/ Paid(p, f)'
      <4>1. CASE f = cur[p]
        BY <2>2, <4>1, <1>1 DEF Paid
      <4>2. CASE f # cur[p]
        BY <2>1, <3>1, <3>2, <4>2
      <4> QED BY <4>1, <4>2
    <3> QED BY <1>1, <3>1, <3>2 DEF WalkInv
  <2>5. FileInv(p)'
    BY <1>1 DEF FileInv
  <2>6. DoneRootsPaid(p) => DoneRootsPaid(p)'
    BY <1>1, <2>1 DEF DoneRootsPaid
  <2>7. CallInv(p)'
    BY <1>1, <2>6 DEF CallInv, IInv, ProcInv
  <2> QED BY <2>3, <2>4, <2>5, <2>7 DEF ProcInv
<1> QED BY <1>6, <1>8, <1>9, <1>10 DEF IInv

LEMMA WalkedInv ==
  ASSUME IInv, TypeOK', NEW p \in Procs, Walked(p) PROVE IInv'
<1> USE DEF diskVars, dbVars, callVars, walkVars, fileVars, readVars
<1>1. \A q \in Procs \ {p} : Same(q)
  BY DEF Walked, Result, Same, IInv, TypeOK
<1>2. /\ lock = p /\ lock' = p /\ pc[p] = "roots" /\ pc'[p] = "unlock" /\ roots[p] = {}
      /\ outcome'[p] = IF outcome[p] = "failed" THEN "failed" ELSE "ok"
      /\ UNCHANGED <<disk, present, row, content, owed, cut, snap, profile, attempt, sinceBg>>
  BY DEF Walked, Result, IInv, OneWriter, Writing, TypeOK
<1>3. AttemptsOrdered'
  BY <1>2 DEF IInv, AttemptsOrdered
<1>4. OwedExists(p)'
  BY <1>2 DEF OwedExists, IInv, ProcInv
<1>5. WalkInv(p)' /\ FileInv(p)'
  BY <1>2 DEF WalkInv, FileInv
<1>6. CallInv(p)'
  BY <1>2 DEF CallInv, IInv, ProcInv, DoneRootsPaid, Paid
<1> QED BY <1>1, <1>2, <1>3, <1>4, <1>5, <1>6, OneProc DEF ProcInv

-----------------------------------------------------------------------------
(* Failures.                                                               *)

LEMMA SyncFailsInv ==
  ASSUME IInv, TypeOK', NEW p \in Procs, SyncFails(p) PROVE IInv'
<1> USE DEF diskVars, dbVars, stateVars, callVars, readVars
<1>1. LeaveRoot(p)
  BY DEF SyncFails, AfterError
<1>2. \A q \in Procs \ {p} : Same(q)
  BY <1>1, LeaveSame DEF SyncFails, AfterError, Same, IInv, TypeOK
<1>3. /\ lock = p /\ lock' = p /\ pc[p] \in {"walk", "read", "commit"}
      /\ outcome'[p] = "failed" /\ pc'[p] \in {"roots", "unlock"}
      /\ UNCHANGED <<disk, present, row, content, owed, cut, snap, profile, attempt, sinceBg>>
  BY DEF SyncFails, AfterError, IInv, OneWriter, Writing, TypeOK
<1>4. AttemptsOrdered'
  BY <1>3 DEF IInv, AttemptsOrdered
<1>5. OwedExists(p)'
  BY <1>3 DEF OwedExists, IInv, ProcInv
<1>6. WalkInv(p)' /\ FileInv(p)'
  BY <1>3 DEF WalkInv, FileInv
<1>7. CallInv(p)'
  BY <1>3 DEF CallInv, IInv, ProcInv
<1> QED BY <1>2, <1>3, <1>4, <1>5, <1>6, <1>7, OneProc DEF ProcInv

LEMMA StateFailsInv ==
  ASSUME IInv, TypeOK', NEW p \in Procs, StateFails(p) PROVE IInv'
<1> USE DEF diskVars, dbVars, stateVars, callVars, walkVars, fileVars, readVars
<1>1. \A q \in Procs \ {p} : Same(q)
  BY DEF StateFails, Same, IInv, TypeOK
<1>2. /\ lock = p /\ lock' = p /\ pc[p] \in {"attempt", "roots"}
      /\ outcome'[p] = "failed" /\ pc'[p] = "unlock"
      /\ UNCHANGED <<disk, present, row, content, owed, cut, snap, profile, attempt, sinceBg>>
  BY DEF StateFails, IInv, OneWriter, Writing, TypeOK
<1>3. AttemptsOrdered'
  BY <1>2 DEF IInv, AttemptsOrdered
<1>4. OwedExists(p)'
  BY <1>2 DEF OwedExists, IInv, ProcInv
<1>5. WalkInv(p)' /\ FileInv(p)'
  BY <1>2 DEF WalkInv, FileInv
<1>6. CallInv(p)'
  BY <1>2 DEF CallInv, IInv, ProcInv
<1> QED BY <1>1, <1>2, <1>3, <1>4, <1>5, <1>6, OneProc DEF ProcInv

LEMMA CrashInv ==
  ASSUME IInv, TypeOK', NEW p \in Procs, Crash(p) PROVE IInv'
  BY EndInv DEF Crash, diskVars, dbVars, stateVars

-----------------------------------------------------------------------------
(* The theorems.                                                           *)

LEMMA InitInv == Init => IInv
<1> SUFFICES ASSUME Init PROVE IInv
  OBVIOUS
<1>1. TypeOK
  BY InitType
<1>2. VersionsOrdered /\ AttemptsOrdered /\ OneWriter
  BY ConstantsAssumption
  DEF Init, Nothing, VersionsOrdered, AttemptsOrdered, OneWriter, Writing, Never
<1>3. \A p \in Procs : ProcInv(p)
  BY DEF Init, ProcInv, OwedExists, WalkInv, FileInv, CallInv, Nothing
<1> QED BY <1>1, <1>2, <1>3 DEF IInv

LEMMA NextInv == IInv /\ [Next]_vars => IInv'
<1> SUFFICES ASSUME IInv, [Next]_vars PROVE IInv'
  OBVIOUS
<1>1. TypeOK'
  BY NextType DEF IInv
<1>2. ASSUME NEW f \in Files, Write(f) \/ Delete(f) PROVE IInv'
  BY <1>1, <1>2, WriteInv, DeleteInv
<1>3. CASE Tick
  BY <1>1, <1>3, TickInv
<1>4. ASSUME NEW c \in Clients, NEW k \in Calls, NEW pr \in Profiles, Invoke(c, k, pr)
      PROVE IInv'
  BY <1>1, <1>4, InvokeInv
<1>5. ASSUME NEW p \in Procs, Step(p) PROVE IInv'
  BY <1>1, <1>5, OpenEstablishedInv, OpenRefreshedInv, ServeInv, LaunchFailsInv,
     LaunchInv, AcquireInv, BusyInv, ReleaseInv, AttemptInv, EnterInv, VisitInv,
     ReadInv, ReadVanishedInv, CommitInv, LeaveInv, WalkedInv DEF Step
<1>6. ASSUME NEW p \in Procs, Fail(p) PROVE IInv'
  BY <1>1, <1>6, SyncFailsInv, StateFailsInv, CrashInv DEF Fail
<1>7. CASE UNCHANGED vars
  <2> USE <1>7 DEF vars, diskVars, dbVars, stateVars, callVars, walkVars, fileVars, readVars
  <2>1. VersionsOrdered' /\ AttemptsOrdered' /\ OneWriter'
    BY DEF IInv, VersionsOrdered, AttemptsOrdered, OneWriter
  <2>2. ASSUME NEW p \in Procs PROVE ProcInv(p)'
    <3>1. Same(p) /\ \A f \in Files : content'[f] >= content[f]
      BY DEF Same, IInv, TypeOK
    <3> QED BY <1>1, <3>1, Frame DEF IInv
  <2> QED BY <1>1, <2>1, <2>2 DEF IInv
<1> QED BY <1>2, <1>3, <1>4, <1>5, <1>6, <1>7 DEF Next

\* The inductive invariant holds in every behaviour.
THEOREM Invariance == Spec => []IInv
  BY InitInv, NextInv, PTL DEF Spec

-----------------------------------------------------------------------------
(* The properties, from the invariant.                                     *)

\* A transcript that a later sync skips, because the recorded stat is that of
\* the disk, has its current text indexed: between the two versions lies what
\* is indexed, and an interleaved append can only widen the gap.
THEOREM SkippedFilesAreIndexedAlways == Spec => []SkippedFilesAreIndexed
<1>1. IInv => SkippedFilesAreIndexed
  <2>1. ASSUME IInv, NEW f \in Files, row[f] = disk[f] PROVE content[f] = disk[f]
    <3>1. row[f] <= content[f] /\ content[f] <= disk[f]
      BY <2>1 DEF IInv, VersionsOrdered
    <3>2. content[f] \in Nat /\ disk[f] \in Nat
      BY <2>1 DEF IInv, TypeOK
    <3> QED BY <2>1, <3>1, <3>2
  <2> QED BY <2>1 DEF SkippedFilesAreIndexed
<1> QED BY <1>1, Invariance, PTL

\* A refresh or rebuild about to return without error has published, in each
\* root it walked to the end, what existed when its call began.
THEOREM WalkedRootsAreFreshAlways == Spec => []WalkedRootsAreFresh
<1>1. IInv => WalkedRootsAreFresh
  BY DEF IInv, ProcInv, CallInv, WalkedRootsAreFresh, Paid
<1> QED BY <1>1, Invariance, PTL

\* A read that refreshed first is served what existed when it was called.
THEOREM RefreshedReadsAreFreshAlways == Spec => []RefreshedReadsAreFresh
<1>1. IInv => RefreshedReadsAreFresh
  BY DEF IInv, ProcInv, CallInv, RefreshedReadsAreFresh, Procs
<1> QED BY <1>1, Invariance, PTL

\* Only Commit changes what is indexed.
LEMMA ContentChanges ==
  ASSUME Next, content' # content PROVE \E p \in Procs : Commit(p)
<1> USE DEF diskVars, dbVars, stateVars, callVars, walkVars, fileVars, readVars
<1>1. ASSUME NEW p \in Procs, Step(p) PROVE Commit(p) \/ UNCHANGED content
  BY <1>1 DEF Step, OpenEstablished, OpenRefreshed, Serve, LaunchFails, Launch,
     Acquire, TryLock, Busy, Release, Reopens, Attempt, Skips, Enter, Visit, Changed, Read, ReadVanished, Leave, Walked, Result
<1>2. ASSUME NEW p \in Procs, Fail(p) PROVE UNCHANGED content
  BY <1>2 DEF Fail, SyncFails, AfterError, StateFails, Crash
<1>3. ASSUME NEW f \in Files, Write(f) \/ Delete(f) PROVE UNCHANGED content
  BY <1>3 DEF Write, Delete
<1>4. Tick => UNCHANGED content
  BY DEF Tick
<1>5. ASSUME NEW c \in Clients, NEW k \in Calls, NEW pr \in Profiles, Invoke(c, k, pr)
      PROVE UNCHANGED content
  BY <1>5 DEF Invoke
<1> QED BY <1>1, <1>2, <1>3, <1>4, <1>5 DEF Next

\* A commit publishes a version between the published one and the current one.
LEMMA CommitPublishes ==
  ASSUME IInv, NEW p \in Procs, Commit(p)
  PROVE  /\ cur[p] \in Files
         /\ data[p] \in content[cur[p]] .. disk[cur[p]]
         /\ content' = [content EXCEPT ![cur[p]] = data[p]]
<1>1. cur[p] \in Files /\ content' = [content EXCEPT ![cur[p]] = data[p]]
  BY DEF Commit, Recorded, IInv, TypeOK
<1>2. content[cur[p]] <= data[p] /\ data[p] <= disk[cur[p]]
  BY DEF Commit, Recorded, IInv, ProcInv, FileInv
<1>3. content[cur[p]] \in Nat /\ data[p] \in Nat /\ disk[cur[p]] \in Nat
  BY <1>1 DEF IInv, TypeOK
<1> QED BY <1>1, <1>2, <1>3

\* No writer ever replaces the text of a transcript by an older one.
THEOREM ContentNeverGoesBackAlways == Spec => ContentNeverGoesBack
<1>1. IInv /\ [Next]_vars => [\A f \in Files : content'[f] >= content[f]]_content
  <2> SUFFICES ASSUME IInv, Next, content' # content, NEW f \in Files
               PROVE  content'[f] >= content[f]
    BY DEF vars, dbVars
  <2>1. PICK p \in Procs : Commit(p)
    BY ContentChanges
  <2>2. /\ cur[p] \in Files /\ data[p] \in content[cur[p]] .. disk[cur[p]]
        /\ content' = [content EXCEPT ![cur[p]] = data[p]]
    BY <2>1, CommitPublishes
  <2>3. content \in [Files -> Nat] /\ disk \in [Files -> Nat]
    BY DEF IInv, TypeOK
  <2> QED BY <2>2, <2>3
<1> QED BY <1>1, Invariance, PTL DEF Spec, ContentNeverGoesBack

\* Only Attempt moves a process from the throttle into its first root.
LEMMA OnlyAttemptStarts ==
  ASSUME IInv, [Next]_vars, NEW p \in Procs, pc[p] = "attempt", pc'[p] = "roots"
  PROVE  Attempt(p)
<1> USE DEF diskVars, dbVars, stateVars, callVars, walkVars, fileVars, readVars, IInv, TypeOK
<1>1. ASSUME NEW q \in Procs, Step(q) PROVE Attempt(p)
  <2>1. CASE q = p
    BY <1>1, <2>1 DEF Step, OpenEstablished, OpenRefreshed, Pin, Due, Serve, LaunchFails, Launch,
       Acquire, TryLock, Busy, Release, Reopens, Enter, Visit, Changed, Read, ReadVanished, Commit, Recorded, Leave, Walked, Result
  <2>2. CASE q # p
    BY <1>1, <2>2 DEF Step, OpenEstablished, OpenRefreshed, Pin, Due, Serve, LaunchFails, Launch,
       Acquire, TryLock, Busy, Release, Reopens, Attempt, Skips, Enter, Visit, Changed, Read, ReadVanished, Commit, Recorded, Leave, Walked, Result
  <2> QED BY <2>1, <2>2
<1>2. ASSUME NEW q \in Procs, Fail(q) PROVE FALSE
  BY <1>2 DEF Fail, SyncFails, AfterError, StateFails, Crash
<1>3. ASSUME NEW f \in Files, Write(f) \/ Delete(f) PROVE FALSE
  BY <1>3 DEF Write, Delete
<1>4. ~Tick
  BY DEF Tick
<1>5. ASSUME NEW c \in Clients, NEW k \in Calls, NEW pr \in Profiles, Invoke(c, k, pr)
      PROVE FALSE
  BY <1>5 DEF Invoke
<1>6. CASE UNCHANGED vars
  BY <1>6 DEF vars
<1> QED BY <1>1, <1>2, <1>3, <1>4, <1>5, <1>6 DEF Next

\* Background refreshes of one root set start at least an interval apart.
THEOREM BackgroundAttemptsAreThrottledAlways == Spec => BackgroundAttemptsAreThrottled
<1> DEFINE Start(p) == kind[p] = "background" /\ pc[p] = "attempt" /\ pc'[p] = "roots"
<1>1. ASSUME IInv, [Next]_vars, NEW p \in Procs, Start(p)
      PROVE  sinceBg[profile[p]] >= RefreshInterval
  <2>1. Attempt(p)
    BY <1>1, OnlyAttemptStarts
  <2>2. ~Throttled(attempt[profile[p]])
    BY <2>1, <1>1 DEF Attempt, Skips, IInv, TypeOK
  <2>3. attempt[profile[p]] <= sinceBg[profile[p]] /\ profile[p] \in Profiles
    BY <1>1 DEF IInv, AttemptsOrdered, TypeOK
  <2>4. attempt[profile[p]] \in Nat /\ sinceBg[profile[p]] \in Nat /\ RefreshInterval \in Nat
    BY <2>3, <1>1, ConstantsAssumption DEF IInv, TypeOK, Never
  <2> QED BY <2>2, <2>3, <2>4 DEF Throttled
<1>2. IInv /\ [Next]_vars =>
        [\A p \in Procs : Start(p) => sinceBg[profile[p]] >= RefreshInterval]_vars
  BY <1>1
<1> QED BY <1>2, Invariance, PTL DEF Spec, BackgroundAttemptsAreThrottled

-----------------------------------------------------------------------------
(* RefreshProtocol implements FreshIndex: under the mapping of Index, every *)
(* step of a process is one step of the abstract index, or none.            *)

\* The refinement mapping: what the two abstract variables stand for.
PromiseMap == [p \in Procs |-> Promised(p)]
PhaseMap == [p \in Procs |-> Phase(p)]

\* Nothing the abstract index sees of process q has changed.
Calm(q) == Promised(q)' = Promised(q) /\ Phase(q)' = Phase(q)

\* A process whose local state is untouched is calm.
LEMMA SameIsCalm == \A q \in Procs : Same(q) => Calm(q)
  BY DEF Same, Calm, Promised, Phase

\* A step that is calm for everybody and changes neither files nor index is a
\* stutter of the abstract index.
LEMMA Stutter ==
  ASSUME \A q \in Procs : Calm(q), UNCHANGED <<disk, present, content, snap>>
  PROVE  UNCHANGED Index!indexVars
<1>1. PromiseMap' = PromiseMap /\ PhaseMap' = PhaseMap
  BY DEF PromiseMap, PhaseMap, Calm
<1> QED BY <1>1 DEF Index!indexVars, PromiseMap, PhaseMap

\* A step of one process changes both maps at that process only.
LEMMA OneMoves ==
  ASSUME NEW p \in Procs, \A q \in Procs \ {p} : Calm(q)
  PROVE  /\ PromiseMap' = [PromiseMap EXCEPT ![p] = Promised(p)']
         /\ PhaseMap' = [PhaseMap EXCEPT ![p] = Phase(p)']
  BY DEF PromiseMap, PhaseMap, Calm

\* Every call that ends is an End of the abstract index.
LEMMA EndMaps ==
  ASSUME IInv, NEW p \in Procs, Forget(p), pc' = [pc EXCEPT ![p] = "idle"],
         UNCHANGED <<disk, present, content>>
  PROVE  Index!End(p)
<1>1. \A q \in Procs \ {p} : Calm(q)
  BY ForgetSame, SameIsCalm DEF IInv
<1>2. pc'[p] = "idle" /\ owed'[p] = Nothing /\ cut'[p] = {}
  BY ForgetSame DEF IInv
<1>3. Promised(p)' = Index!None /\ Phase(p)' = "idle"
  BY <1>2 DEF Promised, Phase, Index!None, Nothing
<1>4. snap' = [snap EXCEPT ![p] = Index!None]
  BY DEF Forget, Index!None, Nothing
<1> QED BY <1>1, <1>3, <1>4, OneMoves DEF Index!End, PromiseMap, PhaseMap

\* Every call that begins is a Begin: it is promised the current version of
\* the files of its profile that are there.
LEMMA BeginMaps ==
  ASSUME IInv, NEW p \in Procs, NEW pr \in Profiles, pc[p] = "idle",
         pc'[p] \in {"open", "lock"}, owed'[p] = Existing(pr),
         UNCHANGED <<disk, present, content, snap, cut, outcome>>,
         \A q \in Procs \ {p} : Calm(q)
  PROVE  Index!Begin(p)
<1>1. cut'[p] = {} /\ outcome'[p] = "running"
  BY DEF IInv, ProcInv, CallInv
<1>2. Phase(p) = "idle" /\ Phase(p)' = "running"
  BY DEF Phase
<1>3. Promised(p)' = [f \in Files |-> IF f \in FilesOf(pr) /\ present[f] THEN disk[f] ELSE 0]
  BY <1>1 DEF Promised, Existing
<1>4. FilesOf(pr) \in SUBSET Files
  BY DEF FilesOf
<1> QED BY <1>2, <1>3, <1>4, OneMoves DEF Index!Begin, PromiseMap, PhaseMap

\* A change of a transcript is a Change, its removal a Remove.
LEMMA FilesMap ==
  ASSUME IInv, NEW f \in Files, Write(f) \/ Delete(f)
  PROVE  Index!Change(f) \/ Index!Remove(f)
<1> USE DEF diskVars, dbVars, stateVars, callVars, walkVars, fileVars, readVars
<1>1. CASE Write(f)
  <2>1. \A q \in Procs : Calm(q)
    BY <1>1 DEF Write, Calm, Promised, Phase
  <2>2. PromiseMap' = PromiseMap /\ PhaseMap' = PhaseMap
    BY <2>1 DEF PromiseMap, PhaseMap, Calm
  <2> QED BY <1>1, <2>2 DEF Write, Index!Change, PromiseMap, PhaseMap
<1>2. CASE Delete(f)
  <2>1. PhaseMap' = PhaseMap
    BY <1>2 DEF Delete, PhaseMap, Phase
  <2>2. ASSUME NEW q \in Procs PROVE Promised(q)' = [Promised(q) EXCEPT ![f] = 0]
    <3>1. owed'[q] = [owed[q] EXCEPT ![f] = 0] /\ cut' = cut
      BY <1>2 DEF Delete
    <3>2. owed[q] \in [Files -> Nat]
      BY DEF IInv, TypeOK
    <3> QED BY <3>1, <3>2 DEF Promised
  <2>3. PromiseMap' = [q \in Procs |-> [PromiseMap[q] EXCEPT ![f] = 0]]
    BY <2>2 DEF PromiseMap
  <2> QED BY <1>2, <2>1, <2>3 DEF Delete, Index!Remove, PromiseMap, PhaseMap
<1> QED BY <1>1, <1>2

-----------------------------------------------------------------------------
(* The steps of one process.                                               *)

\* The steps between which a call makes no promise and keeps none: waiting
\* for the lock, entering a root, visiting a file and reading it, leaving a
\* root, and failing.
LEMMA QuietMaps ==
  ASSUME IInv, NEW p \in Procs,
         \/ LaunchFails(p) \/ Acquire(p) \/ Enter(p) \/ Visit(p) \/ Read(p)
         \/ Leave(p) \/ SyncFails(p) \/ StateFails(p)
  PROVE  UNCHANGED Index!indexVars
<1> USE DEF diskVars, dbVars, stateVars, callVars, walkVars, fileVars, readVars
<1>1. \A q \in Procs \ {p} : Calm(q)
  BY DEF LaunchFails, Acquire, TryLock, Enter, Visit, Changed, Read, Leave, LeaveRoot, SyncFails, AfterError, StateFails,
     Calm, Promised, Phase, IInv, TypeOK
<1>2. Promised(p)' = Promised(p)
  BY DEF LaunchFails, Acquire, TryLock, Enter, Visit, Changed, Read, Leave, LeaveRoot, SyncFails, AfterError, StateFails,
     Promised
<1>3. pc \in [Procs -> Labels] /\ outcome \in [Procs -> {"running", "ok", "skipped", "failed"}]
  BY DEF IInv, TypeOK
<1>4. Phase(p)' = Phase(p)
  <2>1. CASE LaunchFails(p) \/ Acquire(p) \/ Enter(p) \/ Visit(p) \/ Read(p) \/ Leave(p)
    BY <2>1, <1>3 DEF LaunchFails, Acquire, TryLock, Enter, Visit, Changed, Read, Leave, Phase
  <2>2. CASE SyncFails(p) \/ StateFails(p)
    BY <2>2, <1>3 DEF SyncFails, AfterError, StateFails, Phase
  <2> QED BY <2>1, <2>2
<1>5. UNCHANGED <<disk, present, content, snap>>
  BY DEF LaunchFails, Acquire, TryLock, Enter, Visit, Changed, Read, Leave, LeaveRoot, SyncFails, AfterError, StateFails
<1> QED BY <1>1, <1>2, <1>4, <1>5, Stutter DEF Calm

\* An established read shows what is published and is promised nothing; any
\* other waits for a refresh.
LEMMA OpenEstablishedMaps ==
  ASSUME IInv, NEW p \in Procs, OpenEstablished(p)
  PROVE  Index!Waive(p) \/ UNCHANGED Index!indexVars
<1> USE DEF diskVars, dbVars, stateVars, callVars, walkVars, fileVars, readVars
<1>1. \A q \in Procs \ {p} : Calm(q)
  BY DEF OpenEstablished, Pin, Due, Calm, Promised, Phase, IInv, TypeOK
<1>2. UNCHANGED <<disk, present, content, cut, outcome>> /\ pc[p] = "open"
  BY DEF OpenEstablished
<1>3. CASE pc'[p] = "lock"
  <2>1. Calm(p) /\ UNCHANGED snap
    BY <1>2, <1>3 DEF OpenEstablished, Pin, Due, Calm, Promised, Phase, IInv, TypeOK
  <2> QED BY <1>1, <1>2, <2>1, Stutter
<1>4. CASE pc'[p] # "lock"
  <2>1. /\ pc'[p] = "serve" /\ owed'[p] = Nothing
        /\ snap' = [snap EXCEPT ![p] = content]
    BY <1>4 DEF OpenEstablished, Pin, Due, IInv, TypeOK
  <2>2. Phase(p) = "running" /\ Phase(p)' = "serving"
    BY <1>2, <2>1 DEF Phase
  <2>3. Promised(p)' = Index!None
    BY <2>1 DEF Promised, Nothing, Index!None
  <2> QED BY <1>1, <1>2, <2>1, <2>2, <2>3, OneMoves DEF Index!Waive, PromiseMap, PhaseMap
<1> QED BY <1>3, <1>4

\* A read that refreshed shows what is published, its promises kept.
LEMMA OpenRefreshedMaps ==
  ASSUME IInv, NEW p \in Procs, OpenRefreshed(p)
  PROVE  Index!Show(p) \/ Index!Waive(p)
<1> USE DEF diskVars, dbVars, stateVars, callVars, walkVars, fileVars, readVars
<1>1. \A q \in Procs \ {p} : Calm(q)
  BY DEF OpenRefreshed, Pin, Due, Calm, Promised, Phase, IInv, TypeOK
<1>2. /\ UNCHANGED <<disk, present, content, cut, outcome, owed>>
      /\ pc[p] = "reopen" /\ pc'[p] = "serve" /\ snap' = [snap EXCEPT ![p] = content]
  BY DEF OpenRefreshed, Pin, Due, IInv, TypeOK
<1>3. Promised(p)' = Promised(p) /\ Phase(p)' = "serving"
  BY <1>2 DEF Promised, Phase
<1>4. PromiseMap' = PromiseMap
  BY <1>1, <1>3 DEF PromiseMap, Calm
<1>5. CASE outcome[p] = "ok"
  <2>1. Phase(p) = "done"
    BY <1>2, <1>5 DEF Phase
  <2> QED BY <1>1, <1>2, <1>3, <1>4, <2>1, OneMoves DEF Index!Show, PromiseMap, PhaseMap
<1>6. CASE outcome[p] # "ok"
  <2>1. outcome[p] = "skipped" /\ owed[p] = Nothing
    BY <1>2, <1>6 DEF IInv, ProcInv, CallInv
  <2>2. Phase(p) = "running"
    BY <1>2, <1>6 DEF Phase
  <2>3. Promised(p)' = Index!None
    BY <1>2, <2>1 DEF Promised, Nothing, Index!None
  <2> QED BY <1>1, <1>2, <1>3, <2>2, <2>3, OneMoves DEF Index!Waive, PromiseMap, PhaseMap
<1> QED BY <1>5, <1>6

\* A stale read launches a background refresh, which begins.
LEMMA LaunchMaps ==
  ASSUME IInv, NEW p \in Procs, NEW w \in Workers, Launch(p, w)
  PROVE  Index!Begin(w)
<1> USE DEF diskVars, dbVars, stateVars, callVars, walkVars, fileVars, readVars
<1>1. w \in Procs /\ profile[p] \in Profiles
  BY DEF Procs, IInv, TypeOK
<1>2. \A q \in Procs \ {w} : Calm(q)
  BY DEF Launch, Calm, Promised, Phase, IInv, TypeOK
<1>3. /\ pc[w] = "idle" /\ pc'[w] = "lock" /\ owed'[w] = Existing(profile[p])
      /\ UNCHANGED <<disk, present, content, snap, cut, outcome>>
  BY <1>1 DEF Launch, IInv, TypeOK
<1> QED BY <1>1, <1>2, <1>3, BeginMaps

\* A caller begins.
LEMMA InvokeMaps ==
  ASSUME IInv, NEW c \in Clients, NEW k \in Calls, NEW pr \in Profiles, Invoke(c, k, pr)
  PROVE  Index!Begin(c)
<1> USE DEF diskVars, dbVars, stateVars, callVars, walkVars, fileVars, readVars
<1>1. c \in Procs
  BY DEF Procs
<1>2. \A q \in Procs \ {c} : Calm(q)
  BY DEF Invoke, Calm, Promised, Phase, IInv, TypeOK
<1>3. /\ pc[c] = "idle" /\ pc'[c] \in {"open", "lock"} /\ owed'[c] = Existing(pr)
      /\ UNCHANGED <<disk, present, content, snap, cut, outcome>>
  BY <1>1 DEF Invoke, IInv, TypeOK
<1> QED BY <1>1, <1>2, <1>3, BeginMaps

\* The lock is given up; the call goes on to its snapshot or ends.
LEMMA ReleaseMaps ==
  ASSUME IInv, NEW p \in Procs, Release(p)
  PROVE  Index!End(p) \/ UNCHANGED Index!indexVars
<1> USE DEF diskVars, dbVars, stateVars, callVars, walkVars, fileVars, readVars
<1>1. CASE pc' = [pc EXCEPT ![p] = "idle"] /\ Forget(p)
  BY <1>1, EndMaps DEF Release, Reopens
<1>2. CASE /\ pc' = [pc EXCEPT ![p] = "reopen"] /\ outcome[p] # "failed"
           /\ UNCHANGED <<callVars, waited, outcome, walkVars, fileVars, readVars>>
  <2>1. \A q \in Procs : Calm(q)
    BY <1>2 DEF Release, Reopens, Calm, Promised, Phase, IInv, TypeOK
  <2> QED BY <1>2, <2>1, Stutter DEF Release, Reopens
<1> QED BY <1>1, <1>2 DEF Release, Reopens

\* A throttled background refresh waives its promises; any other goes on.
LEMMA AttemptMaps ==
  ASSUME IInv, NEW p \in Procs, Attempt(p)
  PROVE  Index!Waive(p) \/ UNCHANGED Index!indexVars
<1> USE DEF diskVars, dbVars, stateVars, callVars, walkVars, fileVars, readVars
<1>1. \A q \in Procs \ {p} : Calm(q)
  BY DEF Attempt, Skips, Calm, Promised, Phase, IInv, TypeOK
<1>2. UNCHANGED <<disk, present, content, cut, snap>> /\ pc[p] = "attempt"
  BY DEF Attempt, Skips
<1>3. CASE pc' = [pc EXCEPT ![p] = "unlock"] /\ outcome' = [outcome EXCEPT ![p] = "skipped"]
           /\ owed' = [owed EXCEPT ![p] = Nothing]
  <2>1. pc'[p] = "unlock" /\ outcome'[p] = "skipped" /\ owed'[p] = Nothing
    BY <1>3 DEF IInv, TypeOK
  <2>2. Phase(p) = "running" /\ Phase(p)' = "running"
    BY <1>2, <2>1 DEF Phase
  <2>3. Promised(p)' = Index!None
    BY <2>1 DEF Promised, Nothing, Index!None
  <2>4. PhaseMap' = PhaseMap
    BY <1>1, <2>2 DEF PhaseMap, Calm
  <2> QED BY <1>1, <1>2, <2>2, <2>3, <2>4, OneMoves DEF Index!Waive, PromiseMap, PhaseMap
<1>4. CASE pc' = [pc EXCEPT ![p] = "roots"] /\ UNCHANGED <<outcome, owed>>
  <2>1. Calm(p)
    BY <1>2, <1>4 DEF Calm, Promised, Phase, IInv, TypeOK
  <2> QED BY <1>1, <1>2, <2>1, Stutter
<1> QED BY <1>3, <1>4 DEF Attempt, Skips

\* A transcript that is gone voids the promises on its root.
LEMMA ReadVanishedMaps ==
  ASSUME IInv, NEW p \in Procs, ReadVanished(p)
  PROVE  Index!Excuse(p)
<1> USE DEF diskVars, dbVars, stateVars, callVars, walkVars, fileVars, readVars
<1>1. \A q \in Procs \ {p} : Calm(q)
  BY DEF ReadVanished, LeaveRoot, Calm, Promised, Phase, IInv, TypeOK
<1>2. /\ cur[p] \in Files /\ ~present[cur[p]] /\ RootOf[cur[p]] = at[p]
      /\ UNCHANGED <<disk, present, content, snap, owed>>
      /\ cut'[p] = cut[p] \union {at[p]}
  BY DEF ReadVanished, LeaveRoot, IInv, TypeOK, ProcInv, FileInv
<1>3. Phase(p)' = Phase(p)
  BY DEF ReadVanished, Phase, IInv, TypeOK
<1>4. Promised(p)' =
        [f \in Files |-> IF RootOf[f] = RootOf[cur[p]] THEN 0 ELSE Promised(p)[f]]
  BY <1>2 DEF Promised
<1>5. PhaseMap' = PhaseMap
  BY <1>1, <1>3 DEF PhaseMap, Calm
<1>6. PromiseMap' = [PromiseMap EXCEPT ![p] =
        [f \in Files |-> IF RootOf[f] = RootOf[cur[p]] THEN 0 ELSE PromiseMap[p][f]]]
  <2>1. PromiseMap' = [PromiseMap EXCEPT ![p] = Promised(p)']
    BY <1>1, OneMoves
  <2>2. Promised(p) = PromiseMap[p]
    BY DEF PromiseMap
  <2> QED BY <1>4, <2>1, <2>2
<1> QED BY <1>2, <1>5, <1>6 DEF Index!Excuse, PromiseMap, PhaseMap

\* A committed transcript is published.
LEMMA CommitMaps ==
  ASSUME IInv, NEW p \in Procs, Commit(p)
  PROVE  \E f \in Files : Index!Publish(f)
<1> USE DEF diskVars, dbVars, stateVars, callVars, walkVars, fileVars, readVars
<1>1. \A q \in Procs : Calm(q)
  BY DEF Commit, Recorded, Calm, Promised, Phase, IInv, TypeOK
<1>2. PromiseMap' = PromiseMap /\ PhaseMap' = PhaseMap
  BY <1>1 DEF PromiseMap, PhaseMap, Calm
<1>3. UNCHANGED <<disk, present, snap>>
  BY DEF Commit, Recorded
<1> QED BY <1>2, <1>3, CommitPublishes DEF Index!Publish, PromiseMap, PhaseMap

\* A walk that is over succeeds with its promises kept, or has failed.
LEMMA WalkedMaps ==
  ASSUME IInv, NEW p \in Procs, Walked(p)
  PROVE  Index!Succeed(p) \/ UNCHANGED Index!indexVars
<1> USE DEF diskVars, dbVars, stateVars, callVars, walkVars, fileVars, readVars
<1>1. \A q \in Procs \ {p} : Calm(q)
  BY DEF Walked, Result, Calm, Promised, Phase, IInv, TypeOK
<1>2. /\ UNCHANGED <<disk, present, content, snap, owed, cut>> /\ pc[p] = "roots"
      /\ pc'[p] = "unlock" /\ roots[p] = {}
      /\ outcome'[p] = IF outcome[p] = "failed" THEN "failed" ELSE "ok"
  BY DEF Walked, Result, IInv, TypeOK
<1>3. Promised(p)' = Promised(p) /\ Phase(p) = "running"
  BY <1>2 DEF Promised, Phase
<1>4. CASE outcome[p] = "failed"
  <2>1. Calm(p)
    BY <1>2, <1>3, <1>4 DEF Calm, Phase
  <2> QED BY <1>1, <1>2, <2>1, Stutter
<1>5. CASE outcome[p] # "failed"
  <2>1. Phase(p)' = "done"
    BY <1>2, <1>5 DEF Phase
  <2>2. \A f \in Files : content[f] >= Promised(p)[f]
    <3>1. DoneRootsPaid(p)
      BY <1>2, <1>5 DEF IInv, ProcInv, CallInv
    <3>2. content \in [Files -> Nat]
      BY DEF IInv, TypeOK
    <3> QED BY <1>2, <3>1, <3>2 DEF DoneRootsPaid, Paid, Promised
  <2>3. PromiseMap' = PromiseMap
    BY <1>1, <1>3 DEF PromiseMap, Calm
  <2> QED BY <1>1, <1>2, <1>3, <2>1, <2>2, <2>3, OneMoves DEF Index!Succeed, PromiseMap, PhaseMap
<1> QED BY <1>4, <1>5

-----------------------------------------------------------------------------
\* The initial states map to initial states.
LEMMA InitMaps == Init => Index!Init
  BY DEF Init, Index!Init, Promised, Phase, Nothing, Index!None

\* Every step maps to one step of the abstract index or to a stutter.
LEMMA NextMaps == IInv /\ [Next]_vars => [Index!Next]_(Index!indexVars)
<1> SUFFICES ASSUME IInv, [Next]_vars PROVE Index!Next \/ UNCHANGED Index!indexVars
  OBVIOUS
<1>1. ASSUME NEW f \in Files, Write(f) \/ Delete(f) PROVE Index!Next
  BY <1>1, FilesMap DEF Index!Next
<1>2. CASE Tick
  <2>1. \A q \in Procs : Calm(q)
    BY <1>2 DEF Tick, diskVars, dbVars, callVars, walkVars, fileVars, readVars, Calm, Promised, Phase
  <2> QED BY <1>2, <2>1, Stutter DEF Tick, diskVars, dbVars, readVars
<1>3. ASSUME NEW c \in Clients, NEW k \in Calls, NEW pr \in Profiles, Invoke(c, k, pr)
      PROVE Index!Next
  BY <1>3, InvokeMaps DEF Index!Next, Procs
<1>4. ASSUME NEW p \in Procs, Serve(p) \/ Busy(p) \/ Crash(p) PROVE Index!Next
  BY <1>4, EndMaps DEF Serve, Busy, Crash, diskVars, dbVars, Index!Next
<1>5. ASSUME NEW p \in Procs, Step(p) PROVE Index!Next \/ UNCHANGED Index!indexVars
  BY <1>4, <1>5, QuietMaps, OpenEstablishedMaps, OpenRefreshedMaps, LaunchMaps, ReleaseMaps,
     AttemptMaps, ReadVanishedMaps, CommitMaps, WalkedMaps DEF Step, Index!Next, Procs
<1>6. ASSUME NEW p \in Procs, Fail(p) PROVE Index!Next \/ UNCHANGED Index!indexVars
  BY <1>4, <1>6, QuietMaps DEF Fail
<1>7. CASE UNCHANGED vars
  <2>1. \A q \in Procs : Calm(q)
    BY <1>7 DEF vars, callVars, walkVars, Calm, Promised, Phase
  <2> QED BY <1>7, <2>1, Stutter DEF vars, diskVars, dbVars, readVars
<1> QED BY <1>1, <1>2, <1>3, <1>5, <1>6, <1>7 DEF Next

\* The coordinated writers and snapshot readers keep the promises of
\* FreshIndex, for any number of callers, transcripts, roots and failures.
THEOREM Refinement == Spec => ImplementsFreshIndex
<1>1. Init => Index!Init
  BY InitMaps
<1>2. IInv /\ [Next]_vars => [Index!Next]_(Index!indexVars)
  BY NextMaps
<1> QED BY <1>1, <1>2, Invariance, PTL DEF Spec, ImplementsFreshIndex, Index!Spec
=============================================================================
