-------------------------- MODULE RefreshProtocol --------------------------
(***************************************************************************)
(* The coordinated writers and the snapshot readers of one index database: *)
(* internal/index/refresh.go, the Open/Rebuild path and the walk of        *)
(* internal/index/index.go, and the lifecycle lock of lifecycle_lock.go.   *)
(*                                                                         *)
(* A transcript is abstracted to a version: every create, append or        *)
(* rewrite of file f increments disk[f], which stands both for what stat   *)
(* reports (mtime, size) and for the bytes a read returns.  The index      *)
(* keeps, per file, the stat that was recorded (row, table files) and the  *)
(* version of the text that was indexed (content, table messages).         *)
(*                                                                         *)
(* Time is relative: attempt, success and sinceBg are the ages of the      *)
(* timestamps in refresh_state, counted in ticks and saturated at          *)
(* RefreshInterval, so that no clock has to be bounded.                    *)
(***************************************************************************)
EXTENDS Naturals

CONSTANTS
  Clients,          \* CLI commands and HTTP requests: the callers that wait
  Workers,          \* background refreshes that can be alive at once
  Calls,            \* the calls clients make, of those in Kinds
  Files,            \* transcript files
  Roots,            \* transcript roots
  RootOf,           \* the root below which a file lies
  Profiles,         \* normalized root sets, the keys of refresh_state
  RootsOf,          \* the roots of a profile
  RefreshInterval,  \* refresh.go: 30 s, in ticks
  LockTimeout,      \* lifecycle_lock.go: 30 s, in ticks
  MaxVersion,       \* bound on the changes of one file
  MaxFaults,        \* bound on crashes, I/O errors and failed launches
  Nobody, NoFile, NoRoot

Procs == Clients \union Workers

ASSUME ConstantsAssumption ==
  /\ Clients \intersect Workers = {}
  /\ Nobody \notin Procs
  /\ NoFile \notin Files
  /\ NoRoot \notin Roots
  /\ Calls \subseteq {"refresh", "read", "freshRead", "rebuild"}
  /\ Profiles # {}
  /\ RootOf \in [Files -> Roots]
  /\ RootsOf \in [Profiles -> SUBSET Roots]
  /\ RefreshInterval \in Nat \ {0}
  /\ LockTimeout \in Nat
  /\ MaxVersion \in Nat
  /\ MaxFaults \in Nat

VARIABLES
  disk,       \* disk[f]: version of the transcript, 0 before it is created
  present,    \* present[f]: the file exists
  row,        \* row[f]: version recorded in table files, 0 for no row
  content,    \* content[f]: version of the text in table messages, 0 for none
  attempt,    \* attempt[pr]: age of refresh_state.last_attempt, or Never
  success,    \* success[pr]: age of refresh_state.last_success, or Never
  sinceBg,    \* history: age of the last attempt a background refresh made
  lock,       \* holder of the flock on <index>.lock, or Nobody
  pc,         \* pc[p]: where process p is in its call
  kind,       \* kind[p]: which call it is
  profile,    \* profile[p]: the root set of the call
  waited,     \* waited[p]: ticks spent in the lock's retry loop
  owed,       \* history: owed[p][f], the version of f when p's call began
  outcome,    \* outcome[p]: what the writer part of the call returns
  roots,      \* roots[p]: roots db.Sync has not finished
  at,         \* at[p]: the root being walked
  pending,    \* pending[p]: names listed in that root and not visited yet
  cut,        \* cut[p]: roots whose walk ended early with fs.ErrNotExist
  cur,        \* cur[p]: the file being indexed
  stat,       \* stat[p]: its version when it was stat'ed
  data,       \* data[p]: its version when it was read
  snap,       \* snap[p]: the messages of the pinned WAL snapshot
  launch,     \* launch[p]: the snapshot was found stale and not tried lately
  faults      \* crashes and errors so far

diskVars == <<disk, present>>
dbVars == <<row, content>>
stateVars == <<attempt, success, sinceBg>>
callVars == <<kind, profile, owed>>
walkVars == <<roots, at, pending, cut>>
fileVars == <<cur, stat, data>>
readVars == <<snap, launch>>

vars == <<diskVars, dbVars, stateVars, lock, pc, callVars, waited, outcome,
          walkVars, fileVars, readVars, faults>>

Never == RefreshInterval + 1
SomeProfile == CHOOSE pr \in Profiles : TRUE
Versions == 0 .. MaxVersion
Kinds == {"refresh", "read", "freshRead", "rebuild", "background"}
Writing == {"attempt", "roots", "walk", "read", "commit", "unlock"}
Labels == {"idle", "open", "lock", "reopen", "serve"} \union Writing

FilesOf(pr) == {f \in Files : RootOf[f] \in RootsOf[pr]}
Nothing == [f \in Files |-> 0]
Existing(pr) ==
  [f \in Files |-> IF f \in FilesOf(pr) /\ present[f] THEN disk[f] ELSE 0]

\* A timestamp grows older: 0 .. RefreshInterval, and never stays never.
Older(age) == IF age < RefreshInterval THEN age + 1 ELSE age

\* refresh.go 260 and refresh.go 89: the two tests on an age.  A zero
\* timestamp (no row yet) is both stale and out of the throttle.
Stale(age) == age >= RefreshInterval
Throttled(age) == age < RefreshInterval

TypeOK ==
  /\ disk \in [Files -> Nat]
  /\ present \in [Files -> BOOLEAN]
  /\ row \in [Files -> Nat]
  /\ content \in [Files -> Nat]
  /\ attempt \in [Profiles -> 0 .. Never]
  /\ success \in [Profiles -> 0 .. Never]
  /\ sinceBg \in [Profiles -> 0 .. Never]
  /\ lock \in Procs \union {Nobody}
  /\ pc \in [Procs -> Labels]
  /\ kind \in [Procs -> Kinds]
  /\ profile \in [Procs -> Profiles]
  /\ waited \in [Procs -> 0 .. LockTimeout]
  /\ owed \in [Procs -> [Files -> Nat]]
  /\ outcome \in [Procs -> {"running", "ok", "skipped", "failed"}]
  /\ roots \in [Procs -> SUBSET Roots]
  /\ at \in [Procs -> Roots \union {NoRoot}]
  /\ pending \in [Procs -> SUBSET Files]
  /\ cut \in [Procs -> SUBSET Roots]
  /\ cur \in [Procs -> Files \union {NoFile}]
  /\ stat \in [Procs -> Nat]
  /\ data \in [Procs -> Nat]
  /\ snap \in [Procs -> [Files -> Nat]]
  /\ launch \in [Procs -> BOOLEAN]
  /\ faults \in 0 .. MaxFaults
  /\ \A p \in Procs :
       /\ pc[p] \in {"walk", "read", "commit"} => at[p] \in Roots
       /\ pc[p] \in {"read", "commit"} => cur[p] \in Files

Init ==
  /\ disk = Nothing
  /\ present = [f \in Files |-> FALSE]
  /\ row = Nothing
  /\ content = Nothing
  /\ attempt = [pr \in Profiles |-> Never]
  /\ success = [pr \in Profiles |-> Never]
  /\ sinceBg = [pr \in Profiles |-> Never]
  /\ lock = Nobody
  /\ pc = [p \in Procs |-> "idle"]
  /\ kind = [p \in Procs |-> "background"]
  /\ profile = [p \in Procs |-> SomeProfile]
  /\ waited = [p \in Procs |-> 0]
  /\ owed = [p \in Procs |-> Nothing]
  /\ outcome = [p \in Procs |-> "running"]
  /\ roots = [p \in Procs |-> {}]
  /\ at = [p \in Procs |-> NoRoot]
  /\ pending = [p \in Procs |-> {}]
  /\ cut = [p \in Procs |-> {}]
  /\ cur = [p \in Procs |-> NoFile]
  /\ stat = [p \in Procs |-> 0]
  /\ data = [p \in Procs |-> 0]
  /\ snap = [p \in Procs |-> Nothing]
  /\ launch = [p \in Procs |-> FALSE]
  /\ faults = 0
-----------------------------------------------------------------------------
(* The environment: agents write and prune transcripts, and time passes.   *)

\* A transcript is created, appended to or rewritten.
Write(f) ==
  /\ disk[f] < MaxVersion
  /\ disk' = [disk EXCEPT ![f] = @ + 1]
  /\ present' = [present EXCEPT ![f] = TRUE]
  /\ UNCHANGED <<dbVars, stateVars, lock, pc, callVars, waited, outcome,
                 walkVars, fileVars, readVars, faults>>

\* A transcript is removed: no running call owes it any more.
Delete(f) ==
  /\ present[f]
  /\ present' = [present EXCEPT ![f] = FALSE]
  /\ owed' = [p \in Procs |-> [owed[p] EXCEPT ![f] = 0]]
  /\ UNCHANGED <<disk, dbVars, stateVars, lock, pc, kind, profile, waited,
                 outcome, walkVars, fileVars, readVars, faults>>

\* Every age grows, and so does the wait of a caller in the retry loop.
Tick ==
  /\ attempt' = [pr \in Profiles |-> Older(attempt[pr])]
  /\ success' = [pr \in Profiles |-> Older(success[pr])]
  /\ sinceBg' = [pr \in Profiles |-> Older(sinceBg[pr])]
  /\ waited' = [p \in Procs |->
                  IF pc[p] = "lock" /\ waited[p] < LockTimeout
                  THEN waited[p] + 1 ELSE waited[p]]
  /\ UNCHANGED <<diskVars, dbVars, lock, pc, callVars, outcome, walkVars,
                 fileVars, readVars, faults>>

-----------------------------------------------------------------------------
(* Calls begin and end.                                                    *)

\* The local state of a process that is not in a call.
Forget(p) ==
  /\ kind' = [kind EXCEPT ![p] = "background"]
  /\ profile' = [profile EXCEPT ![p] = SomeProfile]
  /\ owed' = [owed EXCEPT ![p] = Nothing]
  /\ waited' = [waited EXCEPT ![p] = 0]
  /\ outcome' = [outcome EXCEPT ![p] = "running"]
  /\ roots' = [roots EXCEPT ![p] = {}]
  /\ at' = [at EXCEPT ![p] = NoRoot]
  /\ pending' = [pending EXCEPT ![p] = {}]
  /\ cut' = [cut EXCEPT ![p] = {}]
  /\ cur' = [cur EXCEPT ![p] = NoFile]
  /\ stat' = [stat EXCEPT ![p] = 0]
  /\ data' = [data EXCEPT ![p] = 0]
  /\ snap' = [snap EXCEPT ![p] = Nothing]
  /\ launch' = [launch EXCEPT ![p] = FALSE]

\* A caller begins: Refresh with Force, Open followed by Rebuild, or
\* OpenSnapshot, which tries OpenReader first unless it is forced.
Invoke(c, k, pr) ==
  /\ pc[c] = "idle"
  /\ pc' = [pc EXCEPT ![c] = IF k = "read" THEN "open" ELSE "lock"]
  /\ kind' = [kind EXCEPT ![c] = k]
  /\ profile' = [profile EXCEPT ![c] = pr]
  /\ owed' = [owed EXCEPT ![c] = Existing(pr)]
  /\ UNCHANGED <<diskVars, dbVars, stateVars, lock, waited, outcome, walkVars,
                 fileVars, readVars, faults>>

\* A background refresh is due: the snapshot is stale and none was tried lately.
DueUnlessTried(pr) == attempt[pr] = Never   \* mutant: tried at most once
Due(pr) == Stale(success[pr]) /\ ~Throttled(attempt[pr])

\* OpenReader and Freshness: pin the committed snapshot and read from it
\* whether a background refresh is due.
Pin(c) ==
  /\ snap' = [snap EXCEPT ![c] = content]
  /\ launch' = [launch EXCEPT ![c] = Due(profile[c])]
  /\ pc' = [pc EXCEPT ![c] = "serve"]

\* An established snapshot is served at once, however stale; a missing index
\* or a root set that was never refreshed waits for a forced refresh.
OpenEstablished(c) ==
  /\ pc[c] = "open"
  /\ \/ /\ success[profile[c]] # Never
        /\ Pin(c)
        /\ owed' = [owed EXCEPT ![c] = Nothing]
     \/ /\ success[profile[c]] = Never
        /\ pc' = [pc EXCEPT ![c] = "lock"]
        /\ UNCHANGED <<owed, readVars>>
  /\ UNCHANGED <<diskVars, dbVars, stateVars, lock, kind, profile, waited,
                 outcome, walkVars, fileVars, faults>>

OpenRefreshed(c) ==
  /\ pc[c] = "reopen"
  /\ Pin(c)
  /\ UNCHANGED <<diskVars, dbVars, stateVars, lock, callVars, waited, outcome,
                 walkVars, fileVars, faults>>

\* The result is read from the snapshot and the call returns.
Serve(c) ==
  /\ pc[c] = "serve"
  /\ ~launch[c]
  /\ pc' = [pc EXCEPT ![c] = "idle"]
  /\ Forget(c)
  /\ UNCHANGED <<diskVars, dbVars, stateVars, lock, faults>>

\* The stale read starts a detached `refresh --background` child.
Launch(c, w) ==
  /\ pc[c] = "serve"
  /\ launch[c]
  /\ launch' = [launch EXCEPT ![c] = FALSE]
  /\ pc[w] = "idle"
  /\ pc' = [pc EXCEPT ![w] = "lock"]
  /\ profile' = [profile EXCEPT ![w] = profile[c]]
  /\ owed' = [owed EXCEPT ![w] = Existing(profile[c])]
  /\ UNCHANGED <<diskVars, dbVars, stateVars, lock, kind, waited, outcome,
                 walkVars, fileVars, snap, faults>>

\* The child could not be started (or every worker of the bound is alive).
LaunchFails(c) ==
  /\ pc[c] = "serve"
  /\ launch[c]
  /\ launch' = [launch EXCEPT ![c] = FALSE]
  /\ \/ /\ faults < MaxFaults
        /\ faults' = faults + 1
     \/ /\ \A w \in Workers : pc[w] # "idle"
        /\ UNCHANGED faults
  /\ UNCHANGED <<diskVars, dbVars, stateVars, lock, pc, callVars, waited,
                 outcome, walkVars, fileVars, snap>>

-----------------------------------------------------------------------------
(* The lifecycle lock.                                                     *)

\* flock with LOCK_EX and LOCK_NB.
TryLockIgnored == TRUE   \* mutant: its result is ignored
TryLock == lock = Nobody

\* The lock is acquired.  Refresh goes on to its throttle, Rebuild to
\* its first root.
Acquire(p) ==
  /\ pc[p] = "lock"
  /\ TryLock
  /\ lock' = p
  /\ waited' = [waited EXCEPT ![p] = 0]
  /\ \/ /\ kind[p] = "rebuild"
        /\ pc' = [pc EXCEPT ![p] = "roots"]
        /\ roots' = [roots EXCEPT ![p] = RootsOf[profile[p]]]
     \/ /\ kind[p] # "rebuild"
        /\ pc' = [pc EXCEPT ![p] = "attempt"]
        /\ UNCHANGED roots
  /\ UNCHANGED <<diskVars, dbVars, stateVars, callVars, outcome, at, pending,
                 cut, fileVars, readVars, faults>>

\* The lock is busy: a background refresh returns at once, any other caller
\* retries until its deadline has passed and then returns an error.
Busy(p) ==
  /\ pc[p] = "lock"
  /\ lock # Nobody
  /\ kind[p] = "background" \/ waited[p] = LockTimeout
  /\ pc' = [pc EXCEPT ![p] = "idle"]
  /\ Forget(p)
  /\ UNCHANGED <<diskVars, dbVars, stateVars, lock, faults>>

\* A read that had to refresh goes on unless the refresh failed.
Reopens(p) == kind[p] \in {"read", "freshRead"} /\ outcome[p] # "failed"

\* The deferred Close: the writer part is over.
Release(p) ==
  /\ pc[p] = "unlock"
  /\ lock' = Nobody
  /\ \/ /\ Reopens(p)
        /\ pc' = [pc EXCEPT ![p] = "reopen"]
        /\ UNCHANGED <<callVars, waited, outcome, walkVars, fileVars, readVars>>
     \/ /\ ~Reopens(p)
        /\ pc' = [pc EXCEPT ![p] = "idle"]
        /\ Forget(p)
  /\ UNCHANGED <<diskVars, dbVars, stateVars, faults>>

-----------------------------------------------------------------------------
(* The writer, under the lock.                                             *)

\* refresh.go 89, under the lock.
SkipsAny(p) == Throttled(attempt[profile[p]])   \* mutant: forced ones too
SkipsBySuccess(p) ==   \* mutant: by the wrong timestamp
  kind[p] = "background" /\ Throttled(success[profile[p]])
Skips(p) == kind[p] = "background" /\ Throttled(attempt[profile[p]])

\* Re-check the throttle under the lock, so that children launched by several
\* stale reads coalesce; record the attempt before any transcript is read.
Attempt(p) ==
  /\ pc[p] = "attempt"
  /\ \/ /\ Skips(p)
        /\ pc' = [pc EXCEPT ![p] = "unlock"]
        /\ outcome' = [outcome EXCEPT ![p] = "skipped"]
        /\ owed' = IF kind[p] = "background" THEN [owed EXCEPT ![p] = Nothing] ELSE owed
        /\ UNCHANGED <<attempt, sinceBg, roots>>
     \/ /\ ~Skips(p)
        /\ pc' = [pc EXCEPT ![p] = "roots"]
        /\ roots' = [roots EXCEPT ![p] = RootsOf[profile[p]]]
        /\ attempt' = [attempt EXCEPT ![profile[p]] = 0]
        /\ sinceBg' = IF kind[p] = "background"
                      THEN [sinceBg EXCEPT ![profile[p]] = 0] ELSE sinceBg
        /\ UNCHANGED <<outcome, owed>>
  /\ UNCHANGED <<diskVars, dbVars, success, lock, kind, profile, waited, at,
                 pending, cut, fileVars, readVars, faults>>

\* WalkDir enters the next root and lists it; a file created later is not in
\* the listing.  A root that does not exist lists nothing.
Enter(p) ==
  /\ pc[p] = "roots"
  /\ \E r \in roots[p] :
       /\ at' = [at EXCEPT ![p] = r]
       /\ pending' = [pending EXCEPT ![p] =
                        {f \in Files : RootOf[f] = r /\ present[f]}]
  /\ pc' = [pc EXCEPT ![p] = "walk"]
  /\ UNCHANGED <<diskVars, dbVars, stateVars, lock, callVars, waited, outcome,
                 roots, cut, fileVars, readVars, faults>>

\* The walk of a root is over, in full or not: db.Sync returns.
LeaveRoot(p) ==
  /\ roots' = [roots EXCEPT ![p] = @ \ {at[p]}]
  /\ at' = [at EXCEPT ![p] = NoRoot]
  /\ pending' = [pending EXCEPT ![p] = {}]
  /\ cur' = [cur EXCEPT ![p] = NoFile]
  /\ stat' = [stat EXCEPT ![p] = 0]
  /\ data' = [data EXCEPT ![p] = 0]

\* index.go, changed: the stat is not the recorded one; a rebuild forces it.
ChangedOnce(p, f) == row[f] = 0 \/ kind[p] = "rebuild"   \* mutant: indexed once
Changed(p, f) == row[f] # disk[f] \/ kind[p] = "rebuild"

\* Visit a listed file: skip it when it vanished or when its stat is the one
\* the index recorded, unless a rebuild forces it; otherwise keep the stat.
Visit(p) ==
  /\ pc[p] = "walk"
  /\ \E f \in pending[p] :
       /\ pending' = [pending EXCEPT ![p] = @ \ {f}]
       /\ \/ /\ ~present[f] \/ ~Changed(p, f)
             /\ UNCHANGED <<pc, cur, stat>>
          \/ /\ present[f] /\ Changed(p, f)
             /\ cur' = [cur EXCEPT ![p] = f]
             /\ stat' = [stat EXCEPT ![p] = disk[f]]
             /\ pc' = [pc EXCEPT ![p] = "read"]
  /\ UNCHANGED <<diskVars, dbVars, stateVars, lock, callVars, waited, outcome,
                 roots, at, cut, data, readVars, faults>>

\* Open the transcript and parse it to its end, before the transaction.
Read(p) ==
  /\ pc[p] = "read"
  /\ present[cur[p]]
  /\ data' = [data EXCEPT ![p] = disk[cur[p]]]
  /\ pc' = [pc EXCEPT ![p] = "commit"]
  /\ UNCHANGED <<diskVars, dbVars, stateVars, lock, callVars, waited, outcome,
                 walkVars, cur, stat, readVars, faults>>

\* Mutant: the open is retried until the transcript is back.
ReadVanishedRetries(p) ==
  /\ pc[p] = "read"
  /\ ~present[cur[p]]
  /\ UNCHANGED vars

\* The transcript vanished after its stat: the open fails with fs.ErrNotExist,
\* which ends the walk of this root; Refresh and the API's rebuild take it for
\* a missing root and go on, the rebuild command returns it.
ReadVanished(p) ==
  /\ pc[p] = "read"
  /\ ~present[cur[p]]
  /\ cut' = [cut EXCEPT ![p] = @ \union {at[p]}]
  /\ LeaveRoot(p)
  /\ \/ /\ pc' = [pc EXCEPT ![p] = "roots"]
        /\ UNCHANGED outcome
     \/ /\ kind[p] = "rebuild"
        /\ pc' = [pc EXCEPT ![p] = "unlock"]
        /\ outcome' = [outcome EXCEPT ![p] = "failed"]
  /\ UNCHANGED <<diskVars, dbVars, stateVars, lock, callVars, waited,
                 readVars, faults>>

\* The stat that goes into table files: the one taken before the read.
RecordedLate(p) == disk[cur[p]]   \* mutant: one taken at the commit
Recorded(p) == stat[p]

\* The transaction of indexFile: the session's rows are replaced by what was
\* read, and the stat taken before the read is recorded with them.
Commit(p) ==
  /\ pc[p] = "commit"
  /\ content' = [content EXCEPT ![cur[p]] = data[p]]
  /\ row' = [row EXCEPT ![cur[p]] = Recorded(p)]
  /\ cur' = [cur EXCEPT ![p] = NoFile]
  /\ stat' = [stat EXCEPT ![p] = 0]
  /\ data' = [data EXCEPT ![p] = 0]
  /\ pc' = [pc EXCEPT ![p] = "walk"]
  /\ UNCHANGED <<diskVars, stateVars, lock, callVars, waited, outcome,
                 walkVars, readVars, faults>>

\* Every listed name has been visited.
Leave(p) ==
  /\ pc[p] = "walk"
  /\ pending[p] = {}
  /\ LeaveRoot(p)
  /\ pc' = [pc EXCEPT ![p] = "roots"]
  /\ UNCHANGED <<diskVars, dbVars, stateVars, lock, callVars, waited, outcome,
                 cut, readVars, faults>>

\* A failure of one root is remembered through the others.
ResultForgiving(p) == "ok"   \* mutant: it is forgotten
Result(p) == IF outcome[p] = "failed" THEN "failed" ELSE "ok"

\* Every root has been synchronized.  A rebuild is done; a refresh records its
\* success, or, when a root failed, its failure beside the old last_success.
Walked(p) ==
  /\ pc[p] = "roots"
  /\ roots[p] = {}
  /\ pc' = [pc EXCEPT ![p] = "unlock"]
  /\ outcome' = [outcome EXCEPT ![p] = Result(p)]
  /\ success' = IF kind[p] # "rebuild" /\ Result(p) = "ok"
                THEN [success EXCEPT ![profile[p]] = 0] ELSE success
  /\ UNCHANGED <<diskVars, dbVars, attempt, sinceBg, lock, callVars, waited,
                 walkVars, fileVars, readVars, faults>>

-----------------------------------------------------------------------------
(* What goes wrong.                                                        *)

\* Where the error of db.Sync is handled.
AfterErrorOn(p) == "walk"   \* mutant: the walk that ended is continued
AfterError(p) == IF kind[p] = "rebuild" THEN "unlock" ELSE "roots"

\* A step of the walk fails (directory, transcript or database error): the
\* transaction rolls back and db.Sync returns the error.  Refresh keeps it and
\* goes on with the next root; a rebuild returns it.
SyncFails(p) ==
  /\ pc[p] \in {"walk", "read", "commit"}
  /\ faults < MaxFaults
  /\ faults' = faults + 1
  /\ LeaveRoot(p)
  /\ outcome' = [outcome EXCEPT ![p] = "failed"]
  /\ pc' = [pc EXCEPT ![p] = AfterError(p)]
  /\ UNCHANGED <<diskVars, dbVars, stateVars, lock, callVars, waited, cut,
                 readVars>>

\* Opening the database or writing refresh_state fails: the call returns.
StateFails(p) ==
  /\ \/ pc[p] = "attempt"
     \/ pc[p] = "roots" /\ roots[p] = {}
  /\ faults < MaxFaults
  /\ faults' = faults + 1
  /\ outcome' = [outcome EXCEPT ![p] = "failed"]
  /\ pc' = [pc EXCEPT ![p] = "unlock"]
  /\ UNCHANGED <<diskVars, dbVars, stateVars, lock, callVars, waited,
                 walkVars, fileVars, readVars>>

\* The process dies.  The kernel drops its flock, SQLite its transaction;
\* what it committed, and the attempt it recorded, stay.
Crash(p) ==
  /\ pc[p] # "idle"
  /\ faults < MaxFaults
  /\ faults' = faults + 1
  /\ pc' = [pc EXCEPT ![p] = "idle"]
  /\ lock' = IF lock = p THEN Nobody ELSE lock
  /\ Forget(p)
  /\ UNCHANGED <<diskVars, dbVars, stateVars>>

-----------------------------------------------------------------------------
Step(p) ==
  \/ OpenEstablished(p) \/ OpenRefreshed(p) \/ Serve(p) \/ LaunchFails(p)
  \/ \E w \in Workers : Launch(p, w)
  \/ Acquire(p) \/ Busy(p) \/ Release(p)
  \/ Attempt(p) \/ Enter(p) \/ Visit(p) \/ Read(p) \/ ReadVanished(p)
  \/ Commit(p) \/ Leave(p) \/ Walked(p)

Fail(p) == SyncFails(p) \/ StateFails(p) \/ Crash(p)

Next ==
  \/ \E f \in Files : Write(f) \/ Delete(f)
  \/ Tick
  \/ \E c \in Clients, k \in Calls, pr \in Profiles : Invoke(c, k, pr)
  \/ \E p \in Procs : Step(p) \/ Fail(p)

Spec == Init /\ [][Next]_vars

\* A live process keeps taking its own steps and the clock advances; nobody
\* is obliged to call, to write, or to fail.
FairSpec == Spec /\ WF_vars(Tick) /\ \A p \in Procs : WF_vars(Step(p))

-----------------------------------------------------------------------------
(* Properties.                                                             *)

\* A file whose recorded stat matches the disk, and which every later sync
\* therefore skips (index.go, changed), has its current text indexed: the stat
\* is taken before the read, so an append between the two makes the next sync
\* read the file again.
SkippedFilesAreIndexed ==
  \A f \in Files : present[f] /\ row[f] = disk[f] => content[f] = disk[f]

\* Publications are never undone: no writer replaces the text of a file by an
\* older one, which two writers that read and commit in opposite orders would.
ContentNeverGoesBack ==
  [][\A f \in Files : content'[f] >= content[f]]_content

\* The strong freshness path: when a refresh or a rebuild is about to return
\* without error, each file that has existed since the call began is indexed
\* at the version it had then, or a later one, in every root that was walked
\* to its end.
WalkedRootsAreFresh ==
  \A p \in Procs : pc[p] = "unlock" /\ outcome[p] = "ok" =>
    \A f \in Files : RootOf[f] \notin cut[p] => content[f] >= owed[p][f]

\* A read that refreshed first (--refresh, refresh=true, or the bootstrap of a
\* new root set) is served from a snapshot pinned after its own refresh, so it
\* shows what existed when it was called, whoever wrote in between.
RefreshedReadsAreFresh ==
  \A c \in Clients : pc[c] = "serve" =>
    \A f \in Files : RootOf[f] \notin cut[c] => snap[c][f] >= owed[c][f]

\* What callers see of all this: published versions and kept promises.  A call
\* owes nothing on the roots whose walk a vanished entry cut short.
Promised(p) ==
  [f \in Files |-> IF RootOf[f] \in cut[p] THEN 0 ELSE owed[p][f]]

Phase(p) ==
  CASE pc[p] = "idle" -> "idle"
    [] pc[p] = "serve" -> "serving"
    [] pc[p] \in {"unlock", "reopen"} /\ outcome[p] = "ok" -> "done"
    [] OTHER -> "running"

Index == INSTANCE FreshIndex WITH
  promise <- [p \in Procs |-> Promised(p)],
  phase <- [p \in Procs |-> Phase(p)]

\* The protocol implements the promises of FreshIndex.
ImplementsFreshIndex == Index!Spec

\* docs/architecture.md 81-82, "Explicit refresh provides the strong freshness
\* path", without the exception for roots cut short by a vanished entry.
ExplicitRefreshIsFresh ==
  \A p \in Procs : pc[p] = "unlock" /\ outcome[p] = "ok" =>
    \A f \in Files : content[f] >= owed[p][f]

\* Background refreshes of one root set start at least an interval apart, even
\* when many stale reads launched one each, and even when the previous one
\* failed or was killed half way: there is no retry storm.
BackgroundAttemptsAreThrottled ==
  [][\A p \in Procs :
       kind[p] = "background" /\ pc[p] = "attempt" /\ pc'[p] = "roots"
         => sinceBg[profile[p]] >= RefreshInterval]_vars

\* Every call returns: the wait for the lock is bounded, a holder's walk ends.
CallsReturn == \A p \in Procs : pc[p] # "idle" ~> pc[p] = "idle"

Fresh == \A f \in Files : present[f] => content[f] = disk[f]
Served(c, pr) == pc[c] = "serve" /\ profile[c] = pr /\ kind[c] = "read"

\* As long as plain reads keep coming, their background refreshes alone bring
\* the index up to date once the transcripts stop changing: neither throttle,
\* nor skipping a busy lock, nor a crash or a cut walk starves it for ever.
ReadsBringIndexUpToDate ==
  (\A pr \in Profiles : []<>(\E c \in Clients : Served(c, pr))) => <>[]Fresh

-----------------------------------------------------------------------------
(* The inductive invariant behind the safety properties.                   *)

\* What is recorded trails what is indexed, which trails the disk.
VersionsOrdered == \A f \in Files : row[f] <= content[f] /\ content[f] <= disk[f]

\* Only the holder of the lifecycle lock is past it.
OneWriter == \A p \in Procs : pc[p] \in Writing => lock = p

\* The last attempt is at least as recent as the last background attempt.
AttemptsOrdered == \A pr \in Profiles : attempt[pr] <= sinceBg[pr]

\* A call owes only what is there.
OwedExists(p) ==
  \A f \in Files : owed[p][f] # 0 =>
    present[f] /\ owed[p][f] <= disk[f] /\ RootOf[f] \in RootsOf[profile[p]]

\* Files of the roots p has finished are as fresh as p owes them to be.
Paid(p, f) == content[f] >= owed[p][f]
DoneRootsPaid(p) ==
  \A f \in Files : RootOf[f] \notin roots[p] /\ RootOf[f] \notin cut[p] => Paid(p, f)

\* A file of the root being walked is yet to be visited, being indexed, or paid.
WalkInv(p) ==
  pc[p] \in {"walk", "read", "commit"} =>
    /\ at[p] \in roots[p]
    /\ \A f \in pending[p] : RootOf[f] = at[p]
    /\ \A f \in Files : RootOf[f] = at[p] =>
         f \in pending[p] \/ (pc[p] # "walk" /\ f = cur[p]) \/ Paid(p, f)

FileInv(p) ==
  /\ pc[p] \in {"read", "commit"} =>
       /\ RootOf[cur[p]] = at[p]
       /\ owed[p][cur[p]] <= stat[p]
       /\ stat[p] <= disk[cur[p]]
  /\ pc[p] = "commit" =>
       /\ stat[p] <= data[p]
       /\ data[p] <= disk[cur[p]]
       /\ content[cur[p]] <= data[p]

CallInv(p) ==
  /\ pc[p] \in {"idle", "open", "lock", "attempt"} => outcome[p] = "running" /\ cut[p] = {}
  /\ pc[p] = "idle" => owed[p] = Nothing
  /\ pc[p] # "serve" => snap[p] = Nothing
  /\ pc[p] \in {"roots", "walk", "read", "commit"} =>
       /\ outcome[p] \in {"running", "failed"}
       /\ outcome[p] = "running" => DoneRootsPaid(p)
  /\ pc[p] \in {"unlock", "reopen"} =>
       outcome[p] \in {"ok", "skipped", "failed"}
  /\ pc[p] \in {"unlock", "reopen"} /\ outcome[p] = "skipped" => owed[p] = Nothing
  /\ pc[p] = "reopen" => outcome[p] # "failed"
  /\ pc[p] \in {"unlock", "reopen"} /\ outcome[p] = "ok" =>
       \A f \in Files : RootOf[f] \notin cut[p] => Paid(p, f)
  /\ pc[p] = "serve" =>
       \A f \in Files : RootOf[f] \notin cut[p] => snap[p][f] >= owed[p][f]

ProcInv(p) == OwedExists(p) /\ WalkInv(p) /\ FileInv(p) /\ CallInv(p)

IInv ==
  /\ TypeOK
  /\ VersionsOrdered
  /\ OneWriter
  /\ AttemptsOrdered
  /\ \A p \in Procs : ProcInv(p)
=============================================================================
