-------------------------- MODULE IndexFile_proofs --------------------------
(***************************************************************************)
(* Proofs about IndexFile, for any number of processes and faults.         *)
(***************************************************************************)
EXTENDS IndexFile, TLAPS

\* The fields of a file made by File.
LEMMA FileFields ==
  ASSUME NEW v \in 0 .. Newer, NEW T \in SUBSET Tables, NEW r \in BOOLEAN
  PROVE  /\ File(v, T, r) \in Files
         /\ File(v, T, r).version = v /\ File(v, T, r).tables = T /\ File(v, T, r).rows = r
         /\ File(v, T, r).wal = TRUE /\ File(v, T, r).damaged = FALSE
  BY DEF File, Files

\* And those of no file.
LEMMA AbsentFields ==
  /\ Absent \in Files
  /\ Absent.version = 0 /\ Absent.tables = {} /\ Absent.rows = FALSE
  /\ Absent.wal = FALSE /\ Absent.damaged = FALSE
<1>1. 0 \in 0 .. Newer /\ {} \in SUBSET Tables /\ FALSE \in BOOLEAN
  BY DEF Newer
<1>2. File(0, {}, FALSE) \in Files
  BY <1>1, FileFields
<1>3. Absent \in Files
  BY <1>2 DEF Files, Absent
<1> QED BY <1>3 DEF Absent, File

\* A file made by File is shaped as its version says if its tables are.
LEMMA FilesShaped ==
  ASSUME hurt \in BOOLEAN, NEW v \in 0 .. Newer, NEW T \in SUBSET Tables, NEW r \in BOOLEAN,
         "messages" \in T, v \in {8, Current} => "projections" \in T,
         v = Current => T = Tables
  PROVE  Shaped(File(v, T, r))
<1> DEFINE f == File(v, T, r)
<1>1. f \in Files /\ f.version = v /\ f.tables = T /\ f.damaged = FALSE
  BY DEF File, Files
<1> HIDE DEF f
<1>2. Shaped(f)
  BY <1>1 DEF Shaped, IsEmpty
<1> QED BY <1>2 DEF f

\* The initial files and processes satisfy the invariant.
LEMMA InitInv == Init => IInv
<1> SUFFICES ASSUME Init PROVE IInv
  OBVIOUS
<1>1. Shaped(db)
  <2>1. /\ Older \in 0 .. Newer /\ 7 \in 0 .. Newer /\ 8 \in 0 .. Newer
        /\ Current \in 0 .. Newer /\ Newer \in 0 .. Newer
        /\ Older \notin {8, Current} /\ 7 \notin {8, Current} /\ 8 # Current
        /\ Newer \notin {8, Current}
    BY FileConstants DEF Newer, Current
  <2>2. /\ {"messages"} \in SUBSET Tables /\ {"messages", "projections"} \in SUBSET Tables
        /\ Tables \in SUBSET Tables /\ "messages" \in Tables /\ "projections" \in Tables
    BY DEF Tables
  <2>3. hurt \in BOOLEAN /\ TRUE \in BOOLEAN
    BY DEF Init
  <2>4. Shaped(Absent)
    BY AbsentFields DEF Shaped, Current
  <2>5. Shaped(File(Older, {"messages"}, TRUE)) /\ Shaped(File(7, {"messages"}, TRUE))
    BY <2>1, <2>2, <2>3, FilesShaped
  <2>6. Shaped(File(8, {"messages", "projections"}, TRUE))
    BY <2>1, <2>2, <2>3, FilesShaped
  <2>7. Shaped(File(Current, Tables, TRUE)) /\ Shaped(File(Newer, Tables, TRUE))
    BY <2>1, <2>2, <2>3, FilesShaped
  <2> QED BY <2>4, <2>5, <2>6, <2>7 DEF Init
<1>2. TypeOK
  <2>1. Unseen \in [version : 0 .. Newer, empty : BOOLEAN]
    BY DEF Unseen, Newer
  <2>2. Shaped(main)
    BY <1>1 DEF Init
  <2>3. faults \in 0 .. MaxFaults
    BY FileConstants DEF Init
  <2>4. /\ seen \in [Procs -> [version : 0 .. Newer, empty : BOOLEAN]]
        /\ reads \in [Procs -> BOOLEAN] /\ second \in [Procs -> BOOLEAN]
    BY <2>1 DEF Init
  <2> QED BY <1>1, <2>2, <2>3, <2>4 DEF Init, TypeOK
<1>3. MainBehind
  BY <1>1 DEF Init, MainBehind, Shaped, Files
<1> QED BY <1>2, <1>3 DEF Init, IInv, LockHeld, SeenIsTrue, SeesTrue, BootstrapServes, Locked

\* Only the holder of the lock is in a locked place.
LEMMA HolderAlone ==
  ASSUME IInv, NEW p \in Procs, lock = p \/ lock = Nobody
  PROVE  \A q \in Procs \ {p} : pc[q] \notin Locked
  BY FileConstants DEF IInv, TypeOK, LockHeld

\* A step that leaves the file as it is keeps the invariant if what its process
\* knows in its new place is true.
LEMMA LocalStep ==
  ASSUME IInv, NEW p \in Procs, UNCHANGED <<db, main, hurt>>, faults' \in 0 .. MaxFaults,
         NEW l \in {"idle", "open", "reopen", "serve", "lock", "check", "wal", "eight",
                    "create", "sync", "discard", "unlock", "failed"},
         pc' = [pc EXCEPT ![p] = l],
         reads' \in [Procs -> BOOLEAN], second' \in [Procs -> BOOLEAN],
         seen' \in [Procs -> [version : 0 .. Newer, empty : BOOLEAN]],
         \A q \in Procs \ {p} : seen'[q] = seen[q],
         \/ l \in Locked /\ lock' = p /\ lock \in {p, Nobody}
         \/ l \notin Locked /\ lock' = Nobody /\ lock = p
         \/ l \notin Locked /\ pc[p] \notin Locked /\ lock' = lock,
         SeesTrue(p)',
         l = "reopen" => Established(db)
  PROVE  IInv'
<1>1. TypeOK'
  <2>1. Shaped(db)' /\ Shaped(main)'
    BY DEF IInv, TypeOK, Shaped, IsEmpty
  <2>2. /\ lock' \in Procs \union {Nobody} /\ hurt' \in BOOLEAN
        /\ pc' \in [Procs -> {"idle", "open", "reopen", "serve", "lock", "check", "wal", "seven",
                             "eight", "create", "sync", "discard", "remove", "unlock", "failed"}]
    BY DEF IInv, TypeOK
  <2> QED BY <2>1, <2>2 DEF TypeOK
<1>2. LockHeld'
  BY FileConstants DEF IInv, TypeOK, LockHeld
<1>3. \A q \in Procs \ {p} : SeesTrue(q)'
  BY DEF IInv, TypeOK, SeenIsTrue, SeesTrue, IsEmpty
<1>4. BootstrapServes'
  BY DEF IInv, TypeOK, BootstrapServes, Established, IsEmpty
<1> QED BY <1>1, <1>2, <1>3, <1>4 DEF IInv, MainBehind, SeenIsTrue

\* A step of the holder of the lock that changes the file keeps the invariant if
\* the new file is shaped as its version says, what the process knows is true,
\* and an index that readers accept stays one.
LEMMA FileStep ==
  ASSUME IInv, NEW p \in Procs, pc[p] \in Locked, UNCHANGED <<lock, reads, hurt, faults>>,
         NEW l \in Locked, pc' = [pc EXCEPT ![p] = l],
         second' \in [Procs -> BOOLEAN],
         seen' \in [Procs -> [version : 0 .. Newer, empty : BOOLEAN]],
         Shaped(db'), Shaped(main'), MainBehind', SeesTrue(p)',
         ~hurt /\ Established(db) => Established(db'),
         ~hurt => db.version # Newer
  PROVE  IInv'
<1>1. TypeOK'
  BY DEF IInv, TypeOK, Shaped, Locked
<1>2. LockHeld'
  BY DEF IInv, TypeOK, LockHeld
<1>3. \A q \in Procs \ {p} : pc'[q] \notin Locked
  BY HolderAlone DEF IInv, TypeOK, LockHeld
<1>4. \A q \in Procs \ {p} : SeesTrue(q)'
  BY <1>3 DEF SeesTrue, Locked
<1>5. BootstrapServes'
  BY DEF IInv, TypeOK, BootstrapServes, Locked
<1> QED BY <1>1, <1>2, <1>4, <1>5 DEF IInv, SeenIsTrue

\* The steps of a process without the lock, and of its environment, that leave
\* the file alone.
LEMMA LocalInv ==
  ASSUME IInv, NEW p \in Procs,
         \/ OpenReader(p) \/ Serve(p) \/ Acquire(p) \/ Busy(p) \/ Check(p) \/ Unlock(p)
         \/ Crash(p) \/ \E read \in BOOLEAN : Call(p, read)
  PROVE  IInv'
<1> USE DEF Goto
<1>0. /\ reads \in [Procs -> BOOLEAN] /\ second \in [Procs -> BOOLEAN] /\ faults \in 0 .. MaxFaults
      /\ seen \in [Procs -> [version : 0 .. Newer, empty : BOOLEAN]]
      /\ pc \in [Procs -> {"idle", "open", "reopen", "serve", "lock", "check", "wal", "seven",
                           "eight", "create", "sync", "discard", "remove", "unlock", "failed"}]
      /\ pc[p] \in Locked => lock = p
      /\ Shaped(db) /\ SeesTrue(p) /\ MaxFaults \in Nat /\ Nobody \notin Procs
  BY FileConstants DEF IInv, TypeOK, LockHeld, SeenIsTrue
<1>1. ASSUME Forget(p)
      PROVE  /\ reads' \in [Procs -> BOOLEAN] /\ second' \in [Procs -> BOOLEAN]
             /\ seen' \in [Procs -> [version : 0 .. Newer, empty : BOOLEAN]]
             /\ \A q \in Procs \ {p} : seen'[q] = seen[q]
  <2>1. Unseen \in [version : 0 .. Newer, empty : BOOLEAN]
    BY DEF Unseen, Newer
  <2> QED BY <1>0, <1>1, <2>1 DEF Forget
<1>2. ASSUME NEW l \in {"idle", "open", "reopen", "serve", "lock", "check", "failed"},
             pc' = [pc EXCEPT ![p] = l]
      PROVE  SeesTrue(p)'
  BY <1>0, <1>2 DEF SeesTrue
<1>3. CASE OpenReader(p)
  <2>1. PICK l \in {"idle", "serve", "lock"} : pc' = [pc EXCEPT ![p] = l]
    BY <1>3 DEF OpenReader
  <2>2. /\ reads' \in [Procs -> BOOLEAN] /\ second' \in [Procs -> BOOLEAN]
        /\ seen' \in [Procs -> [version : 0 .. Newer, empty : BOOLEAN]]
        /\ \A q \in Procs \ {p} : seen'[q] = seen[q]
    BY <1>0, <1>1, <1>3 DEF OpenReader, localVars
  <2>3. pc[p] \notin Locked /\ UNCHANGED <<db, main, lock, hurt, faults>>
    BY <1>3 DEF OpenReader, Locked, fileVars
  <2> QED BY <1>0, <1>2, <2>1, <2>2, <2>3, LocalStep DEF Locked
<1>4. CASE Serve(p) \/ Busy(p)
  <2>1. pc' = [pc EXCEPT ![p] = "idle"] /\ pc[p] \notin Locked
    BY <1>4 DEF Serve, Busy, Locked
  <2>2. Forget(p) /\ UNCHANGED <<db, main, lock, hurt, faults>>
    BY <1>4 DEF Serve, Busy, fileVars
  <2> QED BY <1>0, <1>1, <1>2, <2>1, <2>2, LocalStep DEF Locked
<1>5. CASE Acquire(p)
  <2>1. /\ pc' = [pc EXCEPT ![p] = "check"] /\ lock' = p /\ lock = Nobody
        /\ UNCHANGED <<db, main, hurt, faults, reads, seen, second>>
    BY <1>5 DEF Acquire, TryLock, fileVars, localVars
  <2> QED BY <1>0, <1>2, <2>1, LocalStep DEF Locked
<1>6. CASE Check(p)
  <2>0. /\ pc[p] = "check" /\ lock = p /\ UNCHANGED <<db, main, lock, reads, second, hurt, faults>>
    BY <1>0, <1>6 DEF Check, fileVars, Locked
  <2>1. CASE /\ IsEmpty(db) \/ db.version \in {7, 8, Current}
             /\ seen' = [seen EXCEPT ![p] = [version |-> db.version, empty |-> IsEmpty(db)]]
             /\ pc' = [pc EXCEPT ![p] = "wal"]
    <3>1. db.version \in 0 .. Newer /\ IsEmpty(db) \in BOOLEAN
      BY <1>0 DEF Shaped, Files, IsEmpty
    <3>2. [version |-> db.version, empty |-> IsEmpty(db)] \in [version : 0 .. Newer, empty : BOOLEAN]
      BY <3>1
    <3>3. /\ seen' \in [Procs -> [version : 0 .. Newer, empty : BOOLEAN]]
          /\ \A q \in Procs \ {p} : seen'[q] = seen[q]
          /\ seen'[p] = [version |-> db.version, empty |-> IsEmpty(db)]
      BY <1>0, <2>1, <3>2
    <3>4. SeesTrue(p)'
      BY <1>0, <2>0, <2>1, <3>3 DEF SeesTrue, IsEmpty
    <3> QED BY <1>0, <2>0, <2>1, <3>3, <3>4, LocalStep DEF Locked
  <2>2. CASE pc' = [pc EXCEPT ![p] = "failed"] /\ UNCHANGED seen
    BY <1>0, <1>2, <2>0, <2>2, LocalStep DEF Locked
  <2>3. CASE ShouldRebuild(db) /\ pc' = [pc EXCEPT ![p] = "discard"] /\ UNCHANGED seen
    <3>1. hurt \/ db.version < 7
      BY <1>0, <2>3 DEF ShouldRebuild, Shaped
    <3>2. SeesTrue(p)'
      BY <1>0, <2>0, <2>3, <3>1 DEF SeesTrue
    <3> QED BY <1>0, <2>0, <2>3, <3>2, LocalStep DEF Locked
  <2> QED BY <1>6, <2>1, <2>2, <2>3 DEF Check
<1>7. CASE Unlock(p)
  <2>0. /\ pc[p] \in {"unlock", "failed"} /\ lock = p /\ lock' = Nobody
        /\ UNCHANGED <<db, main, hurt, faults>>
    BY <1>0, <1>7 DEF Unlock, fileVars, Locked
  <2>1. CASE /\ pc[p] = "unlock" /\ pc' = [pc EXCEPT ![p] = "reopen"]
             /\ UNCHANGED <<reads, seen, second>>
    <3>1. db.version = Current /\ db.wal
      BY <1>0, <2>1 DEF SeesTrue
    <3>2. Established(db)
      BY <1>0, <3>1 DEF Shaped, Established, IsEmpty, Tables
    <3> QED BY <1>0, <1>2, <2>0, <2>1, <3>2, LocalStep DEF Locked
  <2>2. CASE Forget(p) /\ pc' = [pc EXCEPT ![p] = "idle"]
    BY <1>0, <1>1, <1>2, <2>0, <2>2, LocalStep DEF Locked
  <2> QED BY <1>7, <2>1, <2>2 DEF Unlock, localVars
<1>8. CASE Crash(p)
  <2>1. /\ pc' = [pc EXCEPT ![p] = "idle"] /\ Forget(p)
        /\ UNCHANGED <<db, main, hurt>>
        /\ lock' = IF lock = p THEN Nobody ELSE lock
    BY <1>8 DEF Crash, fileVars
  <2>2. faults' \in 0 .. MaxFaults
    BY <1>0, <1>8 DEF Crash
  <2> QED BY <1>0, <1>1, <1>2, <2>1, <2>2, LocalStep DEF Locked
<1>9. CASE \E read \in BOOLEAN : Call(p, read)
  <2>1. PICK read \in BOOLEAN : Call(p, read)
    BY <1>9
  <2>2. PICK l \in {"open", "lock"} : pc' = [pc EXCEPT ![p] = l]
    BY <2>1 DEF Call
  <2>3. /\ pc[p] \notin Locked /\ reads' = [reads EXCEPT ![p] = read]
        /\ UNCHANGED <<db, main, lock, hurt, faults, seen, second>>
    BY <2>1 DEF Call, Locked, fileVars
  <2>4. reads' \in [Procs -> BOOLEAN]
    BY <1>0, <2>3
  <2> QED BY <1>0, <1>2, <2>2, <2>3, <2>4, LocalStep DEF Locked
<1> QED BY <1>3, <1>4, <1>5, <1>6, <1>7, <1>8, <1>9

\* A commit keeps the invariant if the new file is shaped as its version says, is
\* no older, stays one that readers accept, and what the process knows is true.
LEMMA CommitInv ==
  ASSUME IInv, NEW p \in Procs, pc[p] \in Locked, UNCHANGED <<lock, reads, hurt, faults, second>>,
         NEW l \in Locked, pc' = [pc EXCEPT ![p] = l],
         seen' \in [Procs -> [version : 0 .. Newer, empty : BOOLEAN]],
         NEW new, Commit(new), Shaped(new), new.version >= db.version, SeesTrue(p)',
         ~hurt /\ Established(db) => Established(new),
         db.version # Newer
  PROVE  IInv'
<1>1. db' = new /\ (main' = main \/ main' = new)
  BY DEF Commit
<1>2. Shaped(db) /\ Shaped(main) /\ second \in [Procs -> BOOLEAN] /\ main.version <= db.version
  BY DEF IInv, TypeOK, MainBehind
<1>3. Shaped(db') /\ Shaped(main')
  BY <1>1, <1>2
<1>4. db.version \in Nat /\ main.version \in Nat /\ new.version \in Nat
  BY <1>2 DEF Shaped, Files
<1>5. MainBehind'
  BY <1>1, <1>2, <1>4 DEF MainBehind
<1> QED BY <1>1, <1>2, <1>3, <1>5, FileStep

\* The steps of the holder of the lock that change the file: the journal mode.
LEMMA WalInv ==
  ASSUME IInv, NEW p \in Procs, EnableWAL(p)
  PROVE  IInv'
<1>1. /\ db' = [db EXCEPT !.wal = TRUE] /\ main' = [main EXCEPT !.wal = TRUE]
      /\ pc[p] = "wal" /\ pc' = [pc EXCEPT ![p] = "seven"]
      /\ UNCHANGED <<lock, hurt, faults, reads, seen, second>>
  BY DEF EnableWAL, Goto, localVars
<1>2. /\ Shaped(db) /\ Shaped(main) /\ MainBehind /\ SeesTrue(p)
      /\ seen \in [Procs -> [version : 0 .. Newer, empty : BOOLEAN]]
      /\ second \in [Procs -> BOOLEAN] /\ pc[p] \in Locked
      /\ pc \in [Procs -> {"idle", "open", "reopen", "serve", "lock", "check", "wal", "seven",
                           "eight", "create", "sync", "discard", "remove", "unlock", "failed"}]
  BY <1>1 DEF IInv, TypeOK, SeenIsTrue, Locked
<1>3. ASSUME NEW d, Shaped(d)
      PROVE  LET u == [d EXCEPT !.wal = TRUE]
             IN  /\ u \in Files /\ u.version = d.version /\ u.tables = d.tables
                 /\ u.damaged = d.damaged /\ u.wal = TRUE
  BY <1>3 DEF Shaped, Files
<1>4. Shaped(db') /\ Shaped(main')
  BY <1>1, <1>2, <1>3 DEF Shaped, IsEmpty
<1>5. MainBehind'
  BY <1>1, <1>2, <1>3 DEF MainBehind
<1>6. SeesTrue(p)'
  BY <1>1, <1>2, <1>3 DEF SeesTrue, IsEmpty
<1>7. Established(db) => Established(db')
  BY <1>1, <1>2, <1>3 DEF Established, IsEmpty
<1>8. db.version # Newer
  BY <1>1, <1>2 DEF SeesTrue, Shaped, Current, Newer
<1> QED BY <1>1, <1>2, <1>4, <1>5, <1>6, <1>7, <1>8, FileStep DEF Locked

\* The two migrations.
LEMMA UpgradeInv ==
  ASSUME IInv, NEW p \in Procs, MigrateReads(p) \/ MigrateCommands(p)
  PROVE  IInv'
<1> USE DEF Goto
<1>1. /\ Shaped(db) /\ Shaped(main) /\ MainBehind /\ SeesTrue(p)
      /\ seen \in [Procs -> [version : 0 .. Newer, empty : BOOLEAN]]
      /\ reads \in [Procs -> BOOLEAN] /\ second \in [Procs -> BOOLEAN]
      /\ faults \in 0 .. MaxFaults
      /\ pc \in [Procs -> {"idle", "open", "reopen", "serve", "lock", "check", "wal", "seven",
                           "eight", "create", "sync", "discard", "remove", "unlock", "failed"}]
      /\ pc[p] \in Locked /\ lock = p
      /\ UNCHANGED <<lock, reads, second, hurt, faults>>
  BY DEF IInv, TypeOK, SeenIsTrue, LockHeld, Locked, MigrateReads, MigrateCommands, localVars
<1>2. /\ pc[p] \in {"seven", "eight"}
      /\ seen[p] = [version |-> db.version, empty |-> IsEmpty(db)]
      /\ seen[p].version = db.version /\ (seen[p].empty <=> IsEmpty(db))
      /\ IsEmpty(db) \/ db.version \in {7, 8, Current}
      /\ db.wal
  BY <1>1 DEF SeesTrue, MigrateReads, MigrateCommands
<1>3. /\ db \in Files /\ db.version \in 0 .. Newer /\ db.version # Newer
      /\ IsEmpty(db) => db.version = 0
  BY <1>1, <1>2 DEF Shaped, Files, Current, Newer
<1>4. CASE MigrateReads(p) /\ seen[p].version = 7 /\ ~seen[p].empty
  <2> DEFINE new == [db EXCEPT !.version = 8, !.tables = @ \union {"projections"}]
  <2>1. /\ pc[p] = "seven" /\ pc' = [pc EXCEPT ![p] = "eight"]
        /\ seen' = [seen EXCEPT ![p].version = 8] /\ Commit(new) /\ db' = new
        /\ db.version = 7
    BY <1>2, <1>4 DEF MigrateReads, Commit, Current
  <2>2. /\ new \in Files /\ new.version = 8 /\ new.tables = db.tables \union {"projections"}
        /\ new.wal = db.wal /\ new.damaged = db.damaged
    <3>1. 8 \in 0 .. Newer /\ {"projections"} \in SUBSET Tables
      BY DEF Newer, Tables, Current
    <3>2. new = [db EXCEPT !.version = 8, !.tables = @ \union {"projections"}]
      OBVIOUS
    <3> HIDE DEF new
    <3> QED BY <1>3, <3>1, <3>2 DEF Files
  <2>3. seen' \in [Procs -> [version : 0 .. Newer, empty : BOOLEAN]]
    BY <1>1, <2>1 DEF Newer
  <2>4. seen'[p] = [version |-> 8, empty |-> FALSE]
    BY <1>1, <1>2, <1>4, <2>1
  <2> HIDE DEF new
  <2>5. Shaped(new)
    BY <1>1, <1>2, <1>4, <2>1, <2>2 DEF Shaped, IsEmpty, Current
  <2>6. SeesTrue(p)'
    BY <1>1, <1>2, <2>1, <2>2, <2>4 DEF SeesTrue, IsEmpty
  <2>7. ~Established(db) /\ new.version >= db.version
    BY <2>1, <2>2 DEF Established, Current
  <2> QED BY <1>1, <1>3, <2>1, <2>2, <2>3, <2>5, <2>6, <2>7, CommitInv DEF Locked
<1>5. CASE MigrateReads(p) /\ (seen[p].version # 7 \/ seen[p].empty)
  <2>1. /\ pc' = [pc EXCEPT ![p] = "eight"] /\ UNCHANGED <<db, main, seen>> /\ pc[p] = "seven"
    BY <1>5 DEF MigrateReads, fileVars
  <2>2. SeesTrue(p)'
    BY <1>1, <1>2, <1>3, <1>5, <2>1 DEF SeesTrue, IsEmpty
  <2> QED BY <1>1, <2>1, <2>2, LocalStep DEF Locked
<1>6. CASE MigrateCommands(p) /\ seen[p].version = 8 /\ ~seen[p].empty
  <2> DEFINE new == [db EXCEPT !.version = Current, !.tables = @ \union {"commands"}]
  <2>1. /\ pc[p] = "eight" /\ pc' = [pc EXCEPT ![p] = "sync"] /\ UNCHANGED seen
        /\ Commit(new) /\ db' = new /\ db.version = 8
    BY <1>2, <1>6 DEF MigrateCommands, Commit, localVars, Current
  <2>2. /\ new \in Files /\ new.version = Current /\ new.tables = db.tables \union {"commands"}
        /\ new.wal = db.wal /\ new.damaged = db.damaged
    <3>1. Current \in 0 .. Newer /\ {"commands"} \in SUBSET Tables
      BY DEF Newer, Tables, Current
    <3>2. new = [db EXCEPT !.version = Current, !.tables = @ \union {"commands"}]
      OBVIOUS
    <3> HIDE DEF new
    <3> QED BY <1>3, <3>1, <3>2 DEF Files
  <2> HIDE DEF new
  <2>3. new.tables = Tables
    BY <1>1, <1>3, <2>1, <2>2 DEF Shaped, Tables, Files
  <2>4. Shaped(new)
    BY <1>1, <2>2, <2>3 DEF Shaped, IsEmpty, Tables
  <2>5. SeesTrue(p)'
    BY <1>1, <1>2, <2>1, <2>2 DEF SeesTrue
  <2>6. ~Established(db) /\ new.version >= db.version
    BY <2>1, <2>2 DEF Established, Current
  <2> QED BY <1>1, <1>3, <2>1, <2>4, <2>5, <2>6, CommitInv DEF Locked
<1>7. CASE MigrateCommands(p) /\ (seen[p].version # 8 \/ seen[p].empty)
  <2>1. /\ pc' = [pc EXCEPT ![p] = IF seen[p].empty THEN "create" ELSE "sync"]
        /\ UNCHANGED <<db, main, seen>> /\ pc[p] = "eight"
    BY <1>7 DEF MigrateCommands, fileVars, localVars
  <2>2. SeesTrue(p)'
    BY <1>1, <1>2, <1>3, <1>7, <2>1 DEF SeesTrue, IsEmpty
  <2>3. PICK l \in {"create", "sync"} : pc' = [pc EXCEPT ![p] = l]
    BY <2>1
  <2> QED BY <1>1, <2>1, <2>2, <2>3, LocalStep DEF Locked
<1> QED BY <1>2, <1>4, <1>5, <1>6, <1>7

\* The creation of a database, and the sync.
LEMMA FillInv ==
  ASSUME IInv, NEW p \in Procs, Create(p) \/ Index(p)
  PROVE  IInv'
<1> USE DEF Goto
<1>1. /\ Shaped(db) /\ SeesTrue(p)
      /\ seen \in [Procs -> [version : 0 .. Newer, empty : BOOLEAN]]
      /\ reads \in [Procs -> BOOLEAN] /\ second \in [Procs -> BOOLEAN]
      /\ faults \in 0 .. MaxFaults
      /\ pc \in [Procs -> {"idle", "open", "reopen", "serve", "lock", "check", "wal", "seven",
                           "eight", "create", "sync", "discard", "remove", "unlock", "failed"}]
      /\ pc[p] \in Locked /\ lock = p
      /\ UNCHANGED <<lock, reads, second, seen, hurt, faults>>
  BY DEF IInv, TypeOK, SeenIsTrue, LockHeld, Locked, Create, Index, localVars
<1>2. /\ pc[p] = "create" => db.version = 0 /\ db.wal
      /\ pc[p] = "sync" => db.version = Current /\ db.wal
      /\ db \in Files /\ db.version \in Nat
  BY <1>1 DEF SeesTrue, Shaped, Files
<1>3. CASE Create(p) /\ db.tables # Tables
  <2> DEFINE new == WithTable(db)
  <2>1. /\ pc[p] = "create" /\ pc' = [pc EXCEPT ![p] = "create"] /\ Commit(new) /\ db' = new
    BY <1>1, <1>3 DEF Create, Commit
  <2>2. /\ new \in Files /\ new.version = db.version /\ new.tables # {}
        /\ new.wal = db.wal /\ new.damaged = db.damaged
    <3>1. NextTable(db.tables) \in Tables
      BY DEF NextTable, Tables
    <3>2. new = [db EXCEPT !.tables = @ \union {NextTable(db.tables)}]
      BY DEF WithTable
    <3> HIDE DEF new
    <3> QED BY <1>2, <3>1, <3>2 DEF Files
  <2> HIDE DEF new
  <2>3. Shaped(new)
    BY <1>1, <1>2, <2>1, <2>2 DEF Shaped, IsEmpty, Current
  <2>4. SeesTrue(p)'
    BY <1>1, <1>2, <2>1, <2>2 DEF SeesTrue
  <2>5. ~Established(db) /\ new.version >= db.version /\ db.version # Newer
    BY <1>2, <2>1, <2>2 DEF Established, Current, Newer
  <2> QED BY <1>1, <2>1, <2>3, <2>4, <2>5, CommitInv DEF Locked
<1>4. CASE Create(p) /\ db.tables = Tables
  <2> DEFINE new == [db EXCEPT !.version = Current]
  <2>1. /\ pc[p] = "create" /\ pc' = [pc EXCEPT ![p] = "sync"] /\ Commit(new) /\ db' = new
    BY <1>4 DEF Create, Commit
  <2>2. /\ new \in Files /\ new.version = Current /\ new.tables = Tables
        /\ new.wal = db.wal /\ new.damaged = db.damaged
    <3>1. Current \in 0 .. Newer
      BY DEF Newer, Current
    <3> QED BY <1>2, <1>4, <3>1 DEF Files
  <2> HIDE DEF new
  <2>3. Shaped(new)
    BY <1>1, <2>2 DEF Shaped, IsEmpty, Tables
  <2>4. SeesTrue(p)'
    BY <1>1, <1>2, <2>1, <2>2 DEF SeesTrue
  <2>5. ~Established(db) /\ new.version >= db.version /\ db.version # Newer
    BY <1>2, <2>1, <2>2 DEF Established, Current, Newer
  <2> QED BY <1>1, <2>1, <2>3, <2>4, <2>5, CommitInv DEF Locked
<1>5. CASE Index(p) /\ db.tables = Tables /\ Commit([db EXCEPT !.rows = TRUE])
                   /\ \E end \in {"unlock", "failed"} : pc' = [pc EXCEPT ![p] = end]
  <2> DEFINE new == [db EXCEPT !.rows = TRUE]
  <2>1. pc[p] = "sync" /\ Commit(new) /\ db' = new
    BY <1>5 DEF Index, Commit
  <2>2. /\ new \in Files /\ new.version = db.version /\ new.tables = db.tables
        /\ new.wal = db.wal /\ new.damaged = db.damaged
    BY <1>2 DEF Files
  <2> HIDE DEF new
  <2>3. Shaped(new)
    BY <1>1, <2>2 DEF Shaped, IsEmpty
  <2>4. SeesTrue(p)'
    BY <1>1, <1>2, <1>5, <2>1, <2>2 DEF SeesTrue
  <2>5. /\ Established(db) => Established(new)
        /\ new.version >= db.version /\ db.version # Newer
    BY <1>2, <2>1, <2>2 DEF Established, IsEmpty, Current, Newer
  <2> QED BY <1>1, <1>5, <2>1, <2>3, <2>4, <2>5, CommitInv DEF Locked, Index
<1>6. CASE Index(p) /\ pc' = [pc EXCEPT ![p] = "failed"] /\ UNCHANGED <<db, main>>
  <2>1. SeesTrue(p)'
    BY <1>1, <1>6 DEF SeesTrue
  <2> QED BY <1>1, <1>6, <2>1, LocalStep DEF Locked, Index
<1> QED BY <1>3, <1>4, <1>5, <1>6 DEF Create, Index, fileVars

\* The removal of a file that is of an earlier schema or that was damaged.
LEMMA RemoveInv ==
  ASSUME IInv, NEW p \in Procs, RemoveSidecars(p) \/ RemoveMain(p)
  PROVE  IInv'
<1> USE DEF Goto
<1>1. /\ Shaped(db) /\ Shaped(main) /\ main.version <= db.version /\ SeesTrue(p)
      /\ seen \in [Procs -> [version : 0 .. Newer, empty : BOOLEAN]]
      /\ second \in [Procs -> BOOLEAN]
      /\ pc \in [Procs -> {"idle", "open", "reopen", "serve", "lock", "check", "wal", "seven",
                           "eight", "create", "sync", "discard", "remove", "unlock", "failed"}]
      /\ pc[p] \in Locked /\ UNCHANGED <<lock, reads, seen, hurt, faults>>
  BY DEF IInv, TypeOK, SeenIsTrue, MainBehind, Locked, RemoveSidecars, RemoveMain, localVars
<1>2. /\ db.version \in Nat /\ main.version \in Nat
      /\ hurt \/ db.version < 7
  BY <1>1 DEF Shaped, Files, SeesTrue, RemoveSidecars, RemoveMain
<1>3. ~hurt => db.version # Newer /\ ~Established(db)
  BY <1>2 DEF Established, Newer, Current
<1>4. CASE RemoveSidecars(p)
  <2>1. /\ db' = main /\ main' = main /\ pc' = [pc EXCEPT ![p] = "remove"] /\ second' = second
    BY <1>4 DEF RemoveSidecars, localVars
  <2>2. MainBehind'
    BY <1>2, <2>1 DEF MainBehind
  <2>3. SeesTrue(p)'
    BY <1>1, <1>2, <2>1 DEF SeesTrue
  <2> QED BY <1>1, <1>3, <2>1, <2>2, <2>3, FileStep DEF Locked
<1>5. CASE RemoveMain(p)
  <2>1. /\ db' = Absent /\ main' = Absent /\ pc' = [pc EXCEPT ![p] = "check"]
        /\ second' \in [Procs -> BOOLEAN]
    BY <1>1, <1>5 DEF RemoveMain
  <2>2. Shaped(Absent)
    BY AbsentFields DEF Shaped, Current
  <2>3. MainBehind'
    BY <2>1, AbsentFields DEF MainBehind
  <2>4. SeesTrue(p)'
    BY <1>1, <2>1 DEF SeesTrue
  <2> QED BY <1>1, <1>3, <2>1, <2>2, <2>3, <2>4, FileStep DEF Locked
<1> QED BY <1>4, <1>5

\* A checkpoint, damage from outside, and a newer binary that takes the index over
\* while nobody holds the lock.
LEMMA EnvironmentInv ==
  ASSUME IInv, Checkpoint \/ Damage \/ NewerBinary
  PROVE  IInv'
<1>1. /\ Shaped(db) /\ Shaped(main) /\ main.version <= db.version /\ faults \in 0 .. MaxFaults
      /\ db \in Files /\ main \in Files /\ db.version \in Nat /\ main.version \in Nat
      /\ MaxFaults \in Nat /\ hurt \in BOOLEAN /\ Nobody \notin Procs
      /\ \A p \in Procs : pc[p] \in Locked => lock = p
  BY FileConstants DEF IInv, TypeOK, MainBehind, Shaped, Files, LockHeld
<1>2. UNCHANGED <<lock, pc, reads, seen, second>>
  BY DEF Checkpoint, Damage, NewerBinary, localVars
<1>3. LockHeld'
  BY <1>2 DEF IInv, LockHeld
<1>4. ASSUME Shaped(db)', Shaped(main)', hurt' \in BOOLEAN, faults' \in 0 .. MaxFaults
      PROVE  TypeOK'
  BY <1>2, <1>4 DEF IInv, TypeOK
<1>5. CASE Checkpoint
  <2>1. main' = db /\ UNCHANGED <<db, hurt, faults>>
    BY <1>5 DEF Checkpoint, localVars
  <2>2. Shaped(db)' /\ Shaped(main)'
    BY <1>1, <2>1 DEF Shaped, IsEmpty
  <2>3. SeenIsTrue' /\ BootstrapServes'
    BY <1>2, <2>1 DEF IInv, SeenIsTrue, SeesTrue, BootstrapServes, Established, IsEmpty
  <2>4. MainBehind'
    BY <1>1, <2>1 DEF MainBehind
  <2> QED BY <1>1, <1>3, <1>4, <2>1, <2>2, <2>3, <2>4 DEF IInv
<1>6. CASE Damage
  <2>1. /\ db' = [db EXCEPT !.damaged = TRUE] /\ hurt' = TRUE
        /\ main' = main \/ main' = [main EXCEPT !.damaged = TRUE]
        /\ faults' = faults + 1 /\ faults < MaxFaults
    BY <1>6 DEF Damage
  <2>2. /\ db' \in Files /\ db'.version = db.version /\ db'.tables = db.tables /\ db'.wal = db.wal
        /\ main' \in Files /\ main'.version = main.version /\ main'.tables = main.tables
    BY <1>1, <2>1 DEF Files
  <2>3. Shaped(db)' /\ Shaped(main)'
    BY <1>1, <2>1, <2>2 DEF Shaped, IsEmpty
  <2>4. SeenIsTrue'
    BY <1>2, <2>1, <2>2 DEF IInv, SeenIsTrue, SeesTrue, IsEmpty
  <2>5. MainBehind' /\ BootstrapServes'
    BY <1>1, <2>1, <2>2 DEF MainBehind, BootstrapServes
  <2>6. faults' \in 0 .. MaxFaults
    BY <1>1, <2>1
  <2> QED BY <1>3, <1>4, <2>1, <2>3, <2>4, <2>5, <2>6 DEF IInv
<1>7. CASE NewerBinary
  <2> DEFINE new == [File(Newer, Tables, TRUE) EXCEPT !.damaged = db.damaged, !.wal = db.wal]
  <2>1. /\ lock = Nobody /\ db' = new /\ (main' = main \/ main' = new)
        /\ UNCHANGED <<hurt, faults>>
    BY <1>7 DEF NewerBinary, Commit, localVars
  <2>2. /\ new \in Files /\ new.version = Newer /\ new.tables = Tables
        /\ new.damaged = db.damaged
    <3>1. Newer \in 0 .. Newer /\ Tables \in SUBSET Tables
      BY DEF Newer
    <3>2. /\ File(Newer, Tables, TRUE) \in Files
          /\ File(Newer, Tables, TRUE).version = Newer
          /\ File(Newer, Tables, TRUE).tables = Tables
      BY <3>1 DEF File, Files
    <3>3. db.damaged \in BOOLEAN /\ db.wal \in BOOLEAN
      BY <1>1 DEF Files
    <3> QED BY <3>2, <3>3 DEF Files
  <2> HIDE DEF new
  <2>3. Shaped(new)
    BY <1>1, <2>2 DEF Shaped, IsEmpty, Tables, Newer, Current
  <2>4. Shaped(db)' /\ Shaped(main)'
    BY <1>1, <2>1, <2>3 DEF Shaped, IsEmpty
  <2>5. SeenIsTrue'
    BY <1>1, <1>2, <2>1 DEF SeenIsTrue, SeesTrue, Locked
  <2>6. BootstrapServes'
    BY <2>1, <2>2 DEF BootstrapServes
  <2>7. MainBehind'
    <3>1. main.version <= Newer /\ Newer <= Newer
      BY <1>1 DEF Files, Newer
    <3> QED BY <2>1, <2>2, <3>1 DEF MainBehind
  <2> QED BY <1>1, <1>3, <1>4, <2>1, <2>4, <2>5, <2>6, <2>7 DEF IInv
<1> QED BY <1>5, <1>6, <1>7

\* Every step keeps the invariant.
LEMMA NextInv == IInv /\ [Next]_vars => IInv'
<1> SUFFICES ASSUME IInv, [Next]_vars PROVE IInv'
  OBVIOUS
<1>1. CASE UNCHANGED vars
  BY <1>1 DEF vars, fileVars, localVars, IInv, TypeOK, Shaped, IsEmpty, LockHeld, SeenIsTrue,
              SeesTrue, MainBehind, BootstrapServes, Established
<1>2. ASSUME NEW p \in Procs, Step(p) \/ Crash(p) \/ \E read \in BOOLEAN : Call(p, read)
      PROVE  IInv'
  BY <1>2, LocalInv, WalInv, UpgradeInv, FillInv, RemoveInv DEF Step
<1>3. CASE Checkpoint \/ Damage \/ NewerBinary
  BY <1>3, EnvironmentInv
<1> QED BY <1>1, <1>2, <1>3 DEF Next

\* The invariant holds in every reachable state.
THEOREM Invariance == Spec => []IInv
  BY InitInv, NextInv, PTL DEF Spec

\* The index file is well shaped, and only the holder of the lifecycle lock is in
\* a place where the code holds it.
THEOREM TypeCorrect == Spec => []TypeOK
<1>1. IInv => TypeOK
  BY DEF IInv
<1> QED BY <1>1, Invariance, PTL

\* An index of the current version has every table, whichever openers and
\* binaries of other versions met over it and died in whatever step.
THEOREM CurrentIsWholeAlways == Spec => []CurrentIsWhole
<1>1. IInv => CurrentIsWhole
  BY DEF IInv, TypeOK, Shaped, CurrentIsWhole
<1> QED BY <1>1, Invariance, PTL

\* A read that has refreshed finds an index it accepts, unless a newer binary has
\* taken it or it was damaged.
THEOREM BootstrapServesAlways == Spec => []BootstrapServes
<1>1. IInv => BootstrapServes
  BY DEF IInv
<1> QED BY <1>1, Invariance, PTL

\* No step takes an index that can be upgraded back to an earlier version, or its
\* rows away, unless it was damaged.
LEMMA KeepingStep ==
  ASSUME IInv, [Next]_vars, db.version \in 7 .. Newer, ~hurt
  PROVE  db'.version >= db.version /\ (db.rows => db'.rows)
<1>0. db \in Files /\ db.version \in Nat /\ main.version <= db.version
  BY DEF IInv, TypeOK, MainBehind, Shaped, Files
<1>1. CASE UNCHANGED db
  BY <1>0, <1>1
<1>2. ASSUME NEW p \in Procs, EnableWAL(p) \/ Create(p) \/ Index(p)
      PROVE  db'.version >= db.version /\ (db.rows => db'.rows)
  <2>1. SeesTrue(p)
    BY DEF IInv, SeenIsTrue
  <2>2. pc[p] = "create" => db.version = 0
    BY <2>1 DEF SeesTrue
  <2>3. CASE EnableWAL(p)
    BY <1>0, <2>3 DEF EnableWAL, Files
  <2>4. CASE Create(p)
    BY <2>2, <2>4 DEF Create
  <2>5. CASE Index(p)
    BY <1>0, <2>5 DEF Index, Commit, Files, fileVars
  <2> QED BY <1>2, <2>3, <2>4, <2>5
<1>3. ASSUME NEW p \in Procs, MigrateReads(p) \/ MigrateCommands(p)
      PROVE  db'.version >= db.version /\ (db.rows => db'.rows)
  <2>1. CASE UNCHANGED db
    BY <1>0, <2>1
  <2>2. CASE db.version = 7 /\ Commit([db EXCEPT !.version = 8, !.tables = @ \union {"projections"}])
    BY <1>0, <2>2 DEF Commit, Files
  <2>3. CASE db.version = 8 /\ Commit([db EXCEPT !.version = Current, !.tables = @ \union {"commands"}])
    BY <1>0, <2>3 DEF Commit, Files, Current
  <2> QED BY <1>3, <2>1, <2>2, <2>3 DEF MigrateReads, MigrateCommands, fileVars
<1>4. ASSUME NEW p \in Procs, RemoveSidecars(p) \/ RemoveMain(p)
      PROVE  FALSE
  <2>1. SeesTrue(p)
    BY DEF IInv, SeenIsTrue
  <2> QED BY <1>4, <2>1 DEF SeesTrue, RemoveSidecars, RemoveMain
<1>5. CASE NewerBinary
  <2>1. db' = [File(Newer, Tables, TRUE) EXCEPT !.damaged = db.damaged, !.wal = db.wal]
    BY <1>5 DEF NewerBinary, Commit
  <2>2. db'.version = Newer /\ db'.rows = TRUE
    BY <2>1 DEF File
  <2>3. Newer >= db.version
    BY <1>0 DEF Newer
  <2> QED BY <2>2, <2>3
<1>6. CASE Damage
  BY <1>0, <1>6 DEF Damage, Files
<1>7. ASSUME NEW p \in Procs,
             \/ OpenReader(p) \/ Serve(p) \/ Acquire(p) \/ Busy(p) \/ Check(p) \/ Unlock(p)
             \/ Crash(p) \/ \E read \in BOOLEAN : Call(p, read)
      PROVE  UNCHANGED db
  BY <1>7 DEF OpenReader, Serve, Acquire, Busy, Check, Unlock, Crash, Call, fileVars
<1> QED BY <1>1, <1>2, <1>3, <1>4, <1>5, <1>6, <1>7 DEF Next, Step, Checkpoint, vars, fileVars

\* Neither an upgrade nor a crash in one loses an index, and a newer one is never
\* taken back.
THEOREM IndexesAreKeptAlways == Spec => IndexesAreKept
<1>1. IInv /\ [Next]_vars =>
        [db.version \in 7 .. Newer /\ ~hurt =>
           db'.version >= db.version /\ (db.rows => db'.rows)]_vars
  BY KeepingStep
<1> QED BY <1>1, Invariance, PTL DEF Spec, IndexesAreKept
=============================================================================
