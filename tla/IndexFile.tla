------------------------------ MODULE IndexFile ------------------------------
(***************************************************************************)
(* The life of the database file: creation, upgrade, recovery and discard  *)
(* by Open and openForRefresh (internal/index/index.go and refresh.go) and *)
(* the two migrations of projections.go, against readers that take no lock *)
(* (OpenReader, OpenSnapshot), crashes, and binaries of other versions.    *)
(*                                                                         *)
(* SQLite is external: a transaction or an autocommitted statement is one  *)
(* step; in WAL mode it changes what connections see (db) at once and the  *)
(* main file (main) at some later checkpoint; deleting the -wal file takes *)
(* what connections see back to the main file.                             *)
(***************************************************************************)
EXTENDS Naturals

CONSTANTS
  Procs,      \* processes that open the index
  Older,      \* a schema version before 7
  MaxFaults,  \* bound on crashes and damage
  Nobody

Current == 9   \* schemaVersion
Newer == 10    \* the schema of a newer binary

ASSUME FileConstants ==
  /\ Nobody \notin Procs
  /\ Older \in 1 .. 6
  /\ MaxFaults \in Nat

VARIABLES
  db,      \* what connections see: version, tables, rows, wal, damaged
  main,    \* the checkpointed main file
  lock,    \* holder of the lifecycle lock, or Nobody
  pc,      \* where each process is
  reads,   \* reads[p]: p's call is a read, which opens a snapshot
  seen,    \* seen[p]: version and emptiness as p read them
  second,  \* second[p]: p has discarded the file and opens it again
  hurt,    \* history: the file was damaged from outside
  faults

fileVars == <<db, main>>
localVars == <<reads, seen, second>>
vars == <<fileVars, lock, pc, localVars, hurt, faults>>

\* The statements of the schema constant, in three groups, in order.
Tables == {"messages", "projections", "commands"}
NextTable(T) ==
  IF "messages" \notin T THEN "messages"
  ELSE IF "projections" \notin T THEN "projections" ELSE "commands"

File(version, tables, rows) ==
  [version |-> version, tables |-> tables, rows |-> rows, wal |-> TRUE, damaged |-> FALSE]
Absent == [File(0, {}, FALSE) EXCEPT !.wal = FALSE]
IsEmpty(d) == d.tables = {}

\* What OpenReader accepts: the current version, whole, in WAL mode.
Established(d) ==
  d.version = Current /\ ~IsEmpty(d) /\ d.tables = Tables /\ d.wal

Unseen == [version |-> 0, empty |-> TRUE]

\* No file, one of each earlier schema, this one, a newer one, or what a crash
\* of an earlier run left.
Init ==
  /\ db \in {Absent, File(Older, {"messages"}, TRUE), File(7, {"messages"}, TRUE),
             File(8, {"messages", "projections"}, TRUE), File(Current, Tables, TRUE),
             File(Newer, Tables, TRUE)}
  /\ main = db
  /\ lock = Nobody
  /\ pc = [p \in Procs |-> "idle"]
  /\ reads = [p \in Procs |-> FALSE]
  /\ seen = [p \in Procs |-> Unseen]
  /\ second = [p \in Procs |-> FALSE]
  /\ hurt = FALSE
  /\ faults = 0

-----------------------------------------------------------------------------
(* Helpers of the steps.                                                   *)

Goto(p, label) == pc' = [pc EXCEPT ![p] = label]

\* A commit: visible at once, in the main file now unless in WAL mode.
Commit(new) ==
  /\ db' = new
  /\ main' = IF db.wal THEN main ELSE new

Forget(p) ==
  /\ reads' = [reads EXCEPT ![p] = FALSE]
  /\ seen' = [seen EXCEPT ![p] = Unseen]
  /\ second' = [second EXCEPT ![p] = FALSE]

-----------------------------------------------------------------------------
(* Readers.                                                                *)

\* A command or request: one that writes opens the index under the lock, and so
\* does a read that asks for a refresh; other reads try a snapshot first.
Call(p, read) ==
  /\ pc[p] = "idle"
  /\ reads' = [reads EXCEPT ![p] = read]
  /\ \/ read /\ Goto(p, "open")
     \/ Goto(p, "lock")
  /\ UNCHANGED <<fileVars, lock, seen, second, hurt, faults>>

\* OpenReader.  An index that is missing, empty, older or not in WAL mode
\* needs a refresh, which OpenSnapshot runs once, and so does one that was never
\* refreshed for the caller's roots (these are RefreshProtocol's); anything else
\* unusual is an error, and so is corruption where a read happens to meet it.
OpenReader(p) ==
  /\ pc[p] \in {"open", "reopen"}
  /\ \/ /\ Established(db)
        /\ Goto(p, "serve")
        /\ UNCHANGED localVars
     \/ /\ pc[p] = "open"
        /\ db.version < Current \/ IsEmpty(db) \/ (db.tables = Tables /\ ~db.wal) \/ Established(db)
        /\ Goto(p, "lock")
        /\ UNCHANGED localVars
     \/ /\ db.damaged \/ db.version > Current \/ (pc[p] = "reopen" /\ ~Established(db))
        /\ Goto(p, "idle")
        /\ Forget(p)
  /\ UNCHANGED <<fileVars, lock, hurt, faults>>

Serve(p) ==
  /\ pc[p] = "serve"
  /\ Goto(p, "idle")
  /\ Forget(p)
  /\ UNCHANGED <<fileVars, lock, hurt, faults>>

-----------------------------------------------------------------------------
(* Open, under the lifecycle lock.                                         *)

\* flock with LOCK_EX and LOCK_NB.
TryLock == lock = Nobody

Acquire(p) ==
  /\ pc[p] = "lock"
  /\ TryLock
  /\ lock' = p
  /\ Goto(p, "check")
  /\ UNCHANGED <<fileVars, localVars, hurt, faults>>

\* The caller's deadline passes while another process holds the lock.
Busy(p) ==
  /\ pc[p] = "lock"
  /\ lock # Nobody
  /\ Goto(p, "idle")
  /\ Forget(p)
  /\ UNCHANGED <<fileVars, lock, hurt, faults>>

\* index.go 280: the version is newer than this binary.
RefusesPartial(d) ==   \* mutant: or it was never set
  ~IsEmpty(d) /\ (d.version > Current \/ d.version = 0)
Refuses(d) == ~IsEmpty(d) /\ d.version > Current

\* shouldRebuild: SQLite meets corruption, or the schema is incompatible.
ShouldRebuildNewer(d) ==   \* mutant: a newer one, too
  d.damaged \/ (~IsEmpty(d) /\ d.version \notin {7, 8, Current})
ShouldRebuild(d) == d.damaged \/ (~IsEmpty(d) /\ d.version < 7)

\* The database is opened and its version and emptiness are read.  One that
\* SQLite finds corrupt, or of a version that cannot be upgraded, is discarded,
\* once; one of a newer version is an error.
Check(p) ==
  /\ pc[p] = "check"
  /\ \/ /\ IsEmpty(db) \/ db.version \in {7, 8, Current}
        /\ seen' = [seen EXCEPT ![p] = [version |-> db.version, empty |-> IsEmpty(db)]]
        /\ Goto(p, "wal")
     \/ /\ Refuses(db)
        /\ Goto(p, "failed")
        /\ UNCHANGED seen
     \/ /\ ShouldRebuild(db)
        /\ Goto(p, IF second[p] THEN "failed" ELSE "discard")
        /\ UNCHANGED seen
  /\ UNCHANGED <<fileVars, lock, reads, second, hurt, faults>>

\* Mutant: a new database keeps the rollback journal.
EnableWALUnlessEmpty(p) ==
  /\ pc[p] = "wal"
  /\ db' = [db EXCEPT !.wal = @ \/ ~IsEmpty(db)]
  /\ main' = [main EXCEPT !.wal = @ \/ ~IsEmpty(db)]
  /\ Goto(p, "seven")
  /\ UNCHANGED <<lock, localVars, hurt, faults>>

EnableWAL(p) ==
  /\ pc[p] = "wal"
  /\ db' = [db EXCEPT !.wal = TRUE]
  /\ main' = [main EXCEPT !.wal = TRUE]
  /\ Goto(p, "seven")
  /\ UNCHANGED <<lock, localVars, hurt, faults>>

\* migrateReadProjections: tables, backfill and version in one transaction.
MigrateReads(p) ==
  /\ pc[p] = "seven"
  /\ \/ /\ seen[p].version = 7 /\ ~seen[p].empty
        /\ \/ /\ db.version = 7
              /\ Commit([db EXCEPT !.version = 8, !.tables = @ \union {"projections"}])
           \/ /\ db.version \in {8, Current}
              /\ UNCHANGED fileVars
        /\ seen' = [seen EXCEPT ![p].version = 8]
        /\ Goto(p, "eight")
     \/ /\ seen[p].version = 7 /\ ~seen[p].empty
        /\ db.version \notin {7, 8, Current}
        /\ Goto(p, "failed")
        /\ UNCHANGED <<fileVars, seen>>
     \/ /\ seen[p].version # 7 \/ seen[p].empty
        /\ Goto(p, "eight")
        /\ UNCHANGED <<fileVars, seen>>
  /\ UNCHANGED <<lock, reads, second, hurt, faults>>

\* migrateCommandSearch, likewise.
MigrateCommands(p) ==
  /\ pc[p] = "eight"
  /\ \/ /\ seen[p].version = 8 /\ ~seen[p].empty
        /\ \/ /\ db.version = 8
              /\ Commit([db EXCEPT !.version = Current, !.tables = @ \union {"commands"}])
           \/ /\ db.version = Current
              /\ UNCHANGED fileVars
        /\ Goto(p, "sync")
     \/ /\ seen[p].version = 8 /\ ~seen[p].empty
        /\ db.version \notin {8, Current}
        /\ Goto(p, "failed")
        /\ UNCHANGED fileVars
     \/ /\ seen[p].version # 8 \/ seen[p].empty
        /\ Goto(p, IF seen[p].empty THEN "create" ELSE "sync")
        /\ UNCHANGED fileVars
  /\ UNCHANGED <<lock, localVars, hurt, faults>>

\* One statement of the schema constant: the next table.
WithTableStamped(d) ==   \* mutant: the version is set before the tables
  [d EXCEPT !.version = Current, !.tables = @ \union {NextTable(@)}]
WithTable(d) == [d EXCEPT !.tables = @ \union {NextTable(@)}]

\* An empty database gets the schema statement by statement, each committed on
\* its own, and its version after the last.
Create(p) ==
  /\ pc[p] = "create"
  /\ \/ /\ db.tables # Tables
        /\ Commit(WithTable(db))
        /\ UNCHANGED pc
     \/ /\ db.tables = Tables
        /\ Commit([db EXCEPT !.version = Current])
        /\ Goto(p, "sync")
  /\ UNCHANGED <<lock, localVars, hurt, faults>>

\* The caller's Sync or Rebuild; writing needs every table.  It fails there, where
\* it meets corruption and where a transcript cannot be read, before or after
\* others are committed.
Index(p) ==
  /\ pc[p] = "sync"
  /\ \/ /\ db.tables = Tables
        /\ Commit([db EXCEPT !.rows = TRUE])
        /\ \E end \in {"unlock", "failed"} : Goto(p, end)
     \/ /\ Goto(p, "failed")
        /\ UNCHANGED fileVars
  /\ UNCHANGED <<lock, localVars, hurt, faults>>

\* removeDatabaseFiles: the sidecars first, and the main file last.
RemoveSidecars(p) ==
  /\ pc[p] = "discard"
  /\ db' = main
  /\ Goto(p, "remove")
  /\ UNCHANGED <<main, lock, localVars, hurt, faults>>

RemoveMain(p) ==
  /\ pc[p] = "remove"
  /\ db' = Absent
  /\ main' = Absent
  /\ second' = [second EXCEPT ![p] = TRUE]
  /\ Goto(p, "check")
  /\ UNCHANGED <<lock, reads, seen, hurt, faults>>

\* The lock is released; a read that refreshed opens its snapshot now.
Unlock(p) ==
  /\ pc[p] \in {"unlock", "failed"}
  /\ lock' = Nobody
  /\ \/ /\ pc[p] = "unlock" /\ reads[p]
        /\ Goto(p, "reopen")
        /\ UNCHANGED localVars
     \/ /\ pc[p] = "failed" \/ ~reads[p]
        /\ Goto(p, "idle")
        /\ Forget(p)
  /\ UNCHANGED <<fileVars, hurt, faults>>

-----------------------------------------------------------------------------
(* The environment.                                                        *)

Crash(p) ==
  /\ pc[p] # "idle"
  /\ faults < MaxFaults
  /\ faults' = faults + 1
  /\ lock' = IF lock = p THEN Nobody ELSE lock
  /\ Goto(p, "idle")
  /\ Forget(p)
  /\ UNCHANGED <<fileVars, hurt>>

Checkpoint ==
  /\ db.wal
  /\ main # db
  /\ main' = db
  /\ UNCHANGED <<db, lock, pc, localVars, hurt, faults>>

\* The file is corrupted from outside.
Damage ==
  /\ faults < MaxFaults
  /\ faults' = faults + 1
  /\ ~IsEmpty(db)
  /\ db' = [db EXCEPT !.damaged = TRUE]
  /\ \E both \in BOOLEAN : main' = IF both THEN [main EXCEPT !.damaged = TRUE] ELSE main
  /\ hurt' = TRUE
  /\ UNCHANGED <<lock, pc, localVars>>

\* A newer binary, which honours the lifecycle lock, takes the index over.
NewerBinary ==
  /\ lock = Nobody
  /\ db.version < Newer
  /\ Commit([File(Newer, Tables, TRUE) EXCEPT !.damaged = db.damaged, !.wal = db.wal])
  /\ UNCHANGED <<lock, pc, localVars, hurt, faults>>

-----------------------------------------------------------------------------
Step(p) ==
  \/ OpenReader(p) \/ Serve(p) \/ Acquire(p) \/ Busy(p) \/ Check(p) \/ EnableWAL(p)
  \/ MigrateReads(p) \/ MigrateCommands(p) \/ Create(p) \/ Index(p)
  \/ RemoveSidecars(p) \/ RemoveMain(p) \/ Unlock(p)

Next ==
  \/ \E p \in Procs : Step(p) \/ Crash(p) \/ \E read \in BOOLEAN : Call(p, read)
  \/ Checkpoint \/ Damage \/ NewerBinary

Spec == Init /\ [][Next]_vars

\* A process that runs keeps running.
FairSpec == Spec /\ \A p \in Procs : WF_vars(Step(p))

-----------------------------------------------------------------------------
(* Properties.                                                             *)

\* An index that says it has the current version is whole: it has every table,
\* filled from its messages, whenever a crash interrupted its creation, its
\* migrations or its removal.  Open checks the version and nothing else, so a
\* partial index with that version would never be repaired.
CurrentIsWhole == db.version = Current => db.tables = Tables

\* Once a read has refreshed, it is served: no other process may take the
\* index below what readers accept before the snapshot is opened.
BootstrapServes ==
  \A p \in Procs : pc[p] = "reopen" => Established(db) \/ db.version = Newer \/ hurt

\* Neither an upgrade, nor a crash in one, nor a concurrent open loses what an
\* upgradable index holds, and nothing of this binary takes a newer index back.
IndexesAreKept ==
  [][db.version \in 7 .. Newer /\ ~hurt =>
       db'.version >= db.version /\ (db.rows => db'.rows)]_vars

\* Whatever version or partial file it starts from, and wherever openers died,
\* reads that keep coming end up with an established index.
ReadsEstablishIndex ==
  ([]<>\E p \in Procs : pc[p] = "open") =>
    <>hurt \/ <>[](Established(db) \/ db.version = Newer)
-----------------------------------------------------------------------------
(* The inductive invariant of IndexFile_proofs.                            *)

\* What a database file of each version holds.
Files == [version : 0 .. Newer, tables : SUBSET Tables, rows : BOOLEAN, wal : BOOLEAN,
          damaged : BOOLEAN]
Shaped(d) ==
  /\ d \in Files
  /\ IsEmpty(d) => d.version = 0
  /\ d.version \in {7, 8, Current} => "messages" \in d.tables
  /\ d.version \in {8, Current} => "projections" \in d.tables
  /\ d.version = Current => d.tables = Tables
  /\ d.damaged => hurt

TypeOK ==
  /\ Shaped(db) /\ Shaped(main)
  /\ lock \in Procs \union {Nobody}
  /\ pc \in [Procs -> {"idle", "open", "reopen", "serve", "lock", "check", "wal", "seven",
                       "eight", "create", "sync", "discard", "remove", "unlock", "failed"}]
  /\ reads \in [Procs -> BOOLEAN]
  /\ seen \in [Procs -> [version : 0 .. Newer, empty : BOOLEAN]]
  /\ second \in [Procs -> BOOLEAN]
  /\ hurt \in BOOLEAN
  /\ faults \in 0 .. MaxFaults

\* Places in which a process holds the lifecycle lock.
Locked == {"check", "wal", "seven", "eight", "create", "sync", "discard", "remove",
           "unlock", "failed"}
LockHeld == \A p \in Procs : pc[p] \in Locked => lock = p

\* Between Check and the end of the migrations what p read of the file is true of
\* it, and the version it is to have is the one its place is reached with.
SeesTrue(p) ==
  /\ pc[p] \in {"wal", "seven", "eight"} =>
       /\ seen[p] = [version |-> db.version, empty |-> IsEmpty(db)]
       /\ IsEmpty(db) \/ db.version \in {7, 8, Current}
  /\ pc[p] = "eight" => seen[p].version # 7
  /\ pc[p] = "create" => db.version = 0
  /\ pc[p] \in {"sync", "unlock"} => db.version = Current
  /\ pc[p] \in {"seven", "eight", "create", "sync", "unlock"} => db.wal
  /\ pc[p] \in {"discard", "remove"} => hurt \/ db.version < 7
SeenIsTrue == \A p \in Procs : SeesTrue(p)

\* A checkpoint that is not done can only lack an upgrade.
MainBehind == main.version <= db.version

IInv == TypeOK /\ LockHeld /\ SeenIsTrue /\ MainBehind /\ BootstrapServes
=============================================================================
