----------------------------- MODULE FreshIndex -----------------------------
(***************************************************************************)
(* What the index promises to whoever calls it, with no lock, no walk, no  *)
(* throttle and no process inside: files change, newer texts of files are  *)
(* published one file at a time, and a call that waits for                 *)
(* synchronization succeeds only when everything it was promised when it   *)
(* began has been published.  RefreshProtocol implements this module.      *)
(***************************************************************************)
EXTENDS Naturals

CONSTANTS Procs, Files, RootOf

VARIABLES
  disk,     \* disk[f]: the current version of a transcript
  present,  \* present[f]: it exists
  content,  \* content[f]: the version of it that is published
  promise,  \* promise[p][f]: the version of f that p's call must reach
  phase,    \* phase[p]: "idle", "running", "done" or "serving"
  snap      \* snap[p]: what a serving call shows

indexVars == <<disk, present, content, promise, phase, snap>>

None == [f \in Files |-> 0]

Init ==
  /\ disk = None
  /\ present = [f \in Files |-> FALSE]
  /\ content = None
  /\ promise = [p \in Procs |-> None]
  /\ phase = [p \in Procs |-> "idle"]
  /\ snap = [p \in Procs |-> None]

Change(f) ==
  /\ disk' = [disk EXCEPT ![f] = @ + 1]
  /\ present' = [present EXCEPT ![f] = TRUE]
  /\ UNCHANGED <<content, promise, phase, snap>>

\* Nobody can be promised a file that is gone.
Remove(f) ==
  /\ present' = [present EXCEPT ![f] = FALSE]
  /\ promise' = [p \in Procs |-> [promise[p] EXCEPT ![f] = 0]]
  /\ UNCHANGED <<disk, content, phase, snap>>

\* A call begins; it is promised the current version of a set of files.
Begin(p) ==
  /\ phase[p] = "idle"
  /\ phase' = [phase EXCEPT ![p] = "running"]
  /\ \E S \in SUBSET Files :
       promise' = [promise EXCEPT ![p] =
         [f \in Files |-> IF f \in S /\ present[f] THEN disk[f] ELSE 0]]
  /\ UNCHANGED <<disk, present, content, snap>>

\* One file is published at a version between the published and the current.
Publish(f) ==
  /\ \E v \in content[f] .. disk[f] : content' = [content EXCEPT ![f] = v]
  /\ UNCHANGED <<disk, present, promise, phase, snap>>

\* The promises on one root are void when a file below it is gone.
Excuse(p) ==
  /\ \E g \in Files :
       /\ ~present[g]
       /\ promise' = [promise EXCEPT ![p] =
            [f \in Files |-> IF RootOf[f] = RootOf[g] THEN 0 ELSE promise[p][f]]]
  /\ UNCHANGED <<disk, present, content, phase, snap>>

\* Nothing is promised to a plain read, or to a skipped background refresh.
Waive(p) ==
  /\ phase[p] = "running"
  /\ promise' = [promise EXCEPT ![p] = None]
  /\ \/ UNCHANGED <<phase, snap>>
     \/ /\ phase' = [phase EXCEPT ![p] = "serving"]
        /\ snap' = [snap EXCEPT ![p] = content]
  /\ UNCHANGED <<disk, present, content>>

\* The call succeeds: all it was promised is published.
Succeed(p) ==
  /\ phase[p] = "running"
  /\ \A f \in Files : content[f] >= promise[p][f]
  /\ phase' = [phase EXCEPT ![p] = "done"]
  /\ UNCHANGED <<disk, present, content, promise, snap>>

\* A successful read shows what is published, its promises included.
Show(p) ==
  /\ phase[p] = "done"
  /\ phase' = [phase EXCEPT ![p] = "serving"]
  /\ snap' = [snap EXCEPT ![p] = content]
  /\ UNCHANGED <<disk, present, content, promise>>

\* The call ends: it returned, it failed, or its process died.
End(p) ==
  /\ phase' = [phase EXCEPT ![p] = "idle"]
  /\ promise' = [promise EXCEPT ![p] = None]
  /\ snap' = [snap EXCEPT ![p] = None]
  /\ UNCHANGED <<disk, present, content>>

Next ==
  \/ \E f \in Files : Change(f) \/ Remove(f) \/ Publish(f)
  \/ \E p \in Procs :
       Begin(p) \/ Excuse(p) \/ Waive(p) \/ Succeed(p) \/ Show(p) \/ End(p)

Spec == Init /\ [][Next]_indexVars
=============================================================================
