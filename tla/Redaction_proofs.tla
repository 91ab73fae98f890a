-------------------------- MODULE Redaction_proofs --------------------------
(***************************************************************************)
(* Proofs about Redaction, for any transcripts, kinds of records, and      *)
(* numbers of runs, records, removals, faults and replaced indexes.        *)
(***************************************************************************)
EXTENDS Redaction, SequenceTheorems, TLAPS

-----------------------------------------------------------------------------
(* What the operators of the module do to records.                         *)

\* The records of a transcript are records.
LEMMA SetOfRecords ==
  ASSUME NEW s \in Seq(Records)
  PROVE  ToSet(s) \subseteq Records /\ Rows(s) \subseteq ToSet(s) /\ Rows(s) \in SUBSET Records
<1>1. \A i \in DOMAIN s : s[i] \in Records
  BY ElementOfSeq, LenProperties
<1> QED BY <1>1 DEF ToSet, Rows

\* An appended record is added to the set.
LEMMA AppendedSet ==
  ASSUME NEW s \in Seq(Records), NEW r \in Records
  PROVE  Append(s, r) \in Seq(Records) /\ ToSet(Append(s, r)) = ToSet(s) \union {r}
<1> DEFINE a == Append(s, r)
<1>1. /\ a \in Seq(Records) /\ DOMAIN a = 1 .. Len(s) + 1 /\ a[Len(s) + 1] = r
      /\ \A i \in 1 .. Len(s) : a[i] = s[i]
  BY AppendProperties, LenProperties
<1>2. DOMAIN s = 1 .. Len(s) /\ Len(s) \in Nat
  BY LenProperties
<1> HIDE DEF a
<1>3. ToSet(a) = ToSet(s) \union {r}
  BY <1>1, <1>2 DEF ToSet
<1> QED BY <1>1, <1>3 DEF a

\* Redaction keeps the number and the place of each record, and what is legible
\* afterwards is as it was.
LEMMA ScrubbedRecords ==
  ASSUME NEW s \in Seq(Records)
  PROVE  /\ Scrubbed(s) \in Seq(Records) /\ DOMAIN Scrubbed(s) = DOMAIN s
         /\ \A i \in DOMAIN s : /\ Scrubbed(s)[i].n = s[i].n
                                /\ Scrubbed(s)[i].raw => Scrubbed(s)[i] = s[i]
                                /\ \/ Scrubbed(s)[i] = s[i]
                                   \/ s[i].age = "recent" /\ Matches(s[i]) /\ Scrubbed(s)[i] = Redacted(s[i])
<1>1. \A i \in DOMAIN s : s[i] \in Records
  BY ElementOfSeq, LenProperties
<1>2. \A r \in Records : Redacted(r) \in Records /\ Redacted(r).n = r.n /\ Redacted(r).raw = FALSE
  BY DEF Redacted, Records
<1>3. \A i \in DOMAIN s : Scrubbed(s)[i] = s[i] \/
        (s[i].age = "recent" /\ Matches(s[i]) /\ Scrubbed(s)[i] = Redacted(s[i]))
  BY DEF Scrubbed, InWindow
<1>4. DOMAIN Scrubbed(s) = DOMAIN s
  BY DEF Scrubbed
<1>5. DOMAIN s = 1 .. Len(s) /\ Len(s) \in Nat
  BY LenProperties
<1>6. \A i \in 1 .. Len(s) : Scrubbed(s)[i] \in Records
  BY <1>1, <1>2, <1>3, <1>5
<1>7. Scrubbed(s) = [i \in 1 .. Len(s) |-> Scrubbed(s)[i]]
  BY <1>5 DEF Scrubbed
<1>8. Scrubbed(s) \in Seq(Records)
  BY <1>5, <1>6, <1>7, IsASeq
<1> QED BY <1>1, <1>2, <1>3, <1>4, <1>8

\* A sync stores the rows of one transcript in one index file.
LEMMA Stored ==
  ASSUME TypeOK, NEW i \in 1 .. Current, NEW p \in Paths, NEW s \in Seq(Records), Store(i, p, s)
  PROVE  /\ index' \in Seq([Paths -> {Gone} \union SUBSET Records]) /\ index' # <<>>
         /\ Current' = Current /\ index'[i][p] = Rows(s)
         /\ \A j \in 1 .. Current, q \in Paths : j # i \/ q # p => index'[j][q] = index[j][q]
<1> DEFINE F == [Paths -> {Gone} \union SUBSET Records]
<1>1. index \in Seq(F) /\ Len(index) \in Nat /\ DOMAIN index = 1 .. Len(index) /\ i \in 1 .. Len(index)
  BY LenProperties DEF TypeOK, FilesOK, Current
<1>2. \A j \in 1 .. Len(index) : index[j] \in F
  BY <1>1, ElementOfSeq
<1>3. Rows(s) \in SUBSET Records
  BY SetOfRecords
<1> DEFINE e == [index[i] EXCEPT ![p] = Rows(s)]
<1>4. e \in F /\ e[p] = Rows(s) /\ \A q \in Paths \ {p} : e[q] = index[i][q]
  BY <1>1, <1>2, <1>3
<1>5. index' = [index EXCEPT ![i] = e]
  BY DEF Store
<1> HIDE DEF e, F
<1>6. index' \in Seq(F) /\ Len(index') = Len(index) /\ index'[i] = e
      /\ \A j \in 1 .. Len(index) : j # i => index'[j] = index[j]
  BY <1>1, <1>4, <1>5, ExceptSeq
<1>7. index' # <<>>
  BY <1>1, <1>6, EmptySeq
<1> QED BY <1>1, <1>4, <1>6, <1>7 DEF Current, F

\* The current index file is one of them, and each transcript's rows are records.
LEMMA IndexFiles ==
  ASSUME TypeOK
  PROVE  /\ Current \in Nat \ {0} /\ Current \in 1 .. Current
         /\ \A i \in 1 .. Current, p \in Paths : index[i][p] # Gone => index[i][p] \subseteq Records
<1>1. Current \in Nat \ {0}
  BY EmptySeq DEF TypeOK, FilesOK, Current
<1>2. \A i \in 1 .. Current : index[i] \in [Paths -> {Gone} \union SUBSET Records]
  BY ElementOfSeq DEF TypeOK, FilesOK, Current
<1> QED BY <1>1, <1>2

-----------------------------------------------------------------------------
(* Types.                                                                  *)

\* The initial states are well typed.
LEMMA InitType == Init => TypeOK
<1> SUFFICES ASSUME Init PROVE TypeOK
  OBVIOUS
<1> DEFINE F == [Paths -> {Gone} \union SUBSET Records]
<1>1. [p \in Paths |-> Gone] \in F
  OBVIOUS
<1> HIDE DEF F
<1>2. index \in Seq(F) /\ index # <<>> /\ Len(index) = 1
  BY <1>1 DEF Init
<1>3. index \in Seq([Paths -> {Gone} \union SUBSET Records]) /\ Current = 1
  BY <1>2 DEF F, Current
<1>4. FilesOK
  BY <1>2, <1>3 DEF Init, FilesOK
<1>5. CommandOK
  <2>1. <<>> \in Seq(Paths) /\ <<>> \in Seq(Records)
    BY EmptySeq
  <2>2. handle \in 0 .. Current /\ seen \in 0 .. written
    BY <1>3 DEF Init
  <2> QED BY <2>1, <2>2 DEF Init, CommandOK
<1>6. WriterOK
  BY DEF Init, WriterOK
<1> QED BY <1>4, <1>5, <1>6 DEF TypeOK

\* A step that leaves the files keeps their types.
LEMMA FilesFrame ==
  ASSUME FilesOK, UNCHANGED <<disk, mtime, stat, index, written>>
  PROVE  FilesOK' /\ Current' = Current
  BY DEF FilesOK, Current

\* The head and the rest of the findings.
LEMMA Findings ==
  ASSUME TypeOK, findings # <<>>
  PROVE  Head(findings) \in Paths /\ Tail(findings) \in Seq(Paths)
  BY HeadTailProperties DEF TypeOK, CommandOK

\* A sync of one file keeps the types of the files.
LEMMA SyncType ==
  ASSUME TypeOK, NEW p \in Paths, NEW i \in 1 .. Current, NEW s \in Seq(Records), Store(i, p, s),
         stat' = stat \/ \E v \in Nat : stat' = [stat EXCEPT ![p] = v],
         UNCHANGED <<disk, mtime, written>>
  PROVE  FilesOK' /\ Current' = Current
<1>1. stat' \in [Paths -> Nat]
  BY DEF TypeOK, FilesOK
<1> QED BY <1>1, Stored DEF TypeOK, FilesOK

\* The steps of the command keep the types.
LEMMA CommandType ==
  ASSUME TypeOK,
         \/ Start \/ OpenVisits \/ Opened \/ BeginScan \/ Inspect \/ Scanned \/ CopyFile
         \/ ReplaceFile \/ Rebuild \/ BeginVerify \/ Count \/ Abort
  PROVE  TypeOK'
<1> USE DEF Free, BeginOpen, TakeLock, NewStat, Verified, redactor, writer, counters
<1>0. /\ Listed \subseteq Paths /\ Current \in Nat \ {0} /\ FilesOK /\ CommandOK
      /\ Current \in 0 .. Current /\ Current \in 1 .. Current
  BY IndexFiles DEF Listed, TypeOK
<1>1. WriterOK'
  BY DEF Start, OpenVisits, Opened, BeginScan, Inspect, Scanned, CopyFile, ReplaceFile, Rebuild,
         BeginVerify, Count, Abort, TypeOK, WriterOK
<1>2. CASE Start
  <2>1. /\ UNCHANGED <<disk, mtime, index, stat, copy, handle, written>>
        /\ lock' \in {lock, Redactor} /\ phase' \in {"open", "scan"} /\ todo' = Listed
        /\ apply' \in BOOLEAN /\ findings' = <<>> /\ found' = FALSE /\ clean' = FALSE
        /\ seen' = written /\ (phase' = "scan" => ~apply')
    BY <1>2 DEF Start
  <2>2. FilesOK' /\ Current' = Current
    BY <1>0, <2>1, FilesFrame
  <2>3. written \in 0 .. written /\ <<>> \in Seq(Paths)
    BY <1>0, EmptySeq DEF FilesOK
  <2>4. CommandOK'
    BY <1>0, <2>1, <2>2, <2>3 DEF CommandOK
  <2> QED BY <1>1, <2>2, <2>4 DEF TypeOK
<1>3. CASE OpenVisits
  <2>1. PICK p \in todo : SyncFile(p) /\ todo' = todo \ {p}
    BY <1>3 DEF OpenVisits
  <2>2. p \in Paths /\ (disk[p] # Gone => disk[p] \in Seq(Records)) /\ mtime[p] \in Nat
    BY <1>0, <2>1 DEF FilesOK, CommandOK
  <2>3. UNCHANGED <<disk, mtime, written>>
    BY <1>3 DEF OpenVisits
  <2>4. FilesOK' /\ Current' = Current
    <3>1. CASE UNCHANGED <<index, stat>>
      BY <1>0, <2>3, <3>1, FilesFrame
    <3>2. CASE /\ disk[p] # Gone /\ Store(Current, p, disk[p])
               /\ stat' = [stat EXCEPT ![p] = mtime[p]]
      BY <1>0, <2>2, <2>3, <3>2, SyncType
    <3> QED BY <2>1, <3>1, <3>2 DEF SyncFile
  <2>5. CommandOK'
    BY <1>0, <1>3, <2>1, <2>4 DEF CommandOK, OpenVisits
  <2> QED BY <1>1, <2>4, <2>5 DEF TypeOK
<1>4. CASE Opened \/ BeginScan \/ Scanned \/ BeginVerify \/ Count \/ Abort
  <2>1. UNCHANGED <<disk, mtime, index, stat, apply, written>>
    BY <1>4 DEF Opened, BeginScan, Scanned, BeginVerify, Count, Abort
  <2>2. FilesOK' /\ Current' = Current
    BY <1>0, <2>1, FilesFrame
  <2>3. written \in 0 .. written /\ <<>> \in Seq(Paths) /\ <<>> \in Seq(Records)
    BY <1>0, EmptySeq DEF FilesOK
  <2>4. Opened => CommandOK'
    BY <1>0, <2>1, <2>2 DEF Opened, CommandOK
  <2>5. BeginScan => CommandOK'
    BY <1>0, <2>1, <2>2 DEF BeginScan, CommandOK
  <2>6. Scanned => CommandOK'
    BY <1>0, <2>1, <2>2 DEF Scanned, CommandOK
  <2>7. BeginVerify => CommandOK'
    BY <1>0, <2>1, <2>2, <2>3 DEF BeginVerify, CommandOK
  <2>8. Count => CommandOK'
    BY <1>0, <2>1, <2>2 DEF Count, CommandOK
  <2>9. Abort => CommandOK'
    <3> SUFFICES ASSUME Abort PROVE CommandOK'
      OBVIOUS
    <3>1. /\ phase' = "idle" /\ lock' \in {lock, Nobody} /\ todo' = {} /\ findings' = <<>>
          /\ copy' = <<>> /\ handle' = 0 /\ found' = FALSE /\ UNCHANGED <<apply, clean, seen>>
      BY DEF Abort
    <3>2. 0 \in 0 .. Current'
      BY <1>0, <2>2
    <3> QED BY <1>0, <2>1, <2>3, <3>1, <3>2 DEF CommandOK
  <2> QED BY <1>1, <1>4, <2>2, <2>4, <2>5, <2>6, <2>7, <2>8, <2>9 DEF TypeOK
<1>5. CASE Inspect
  <2>1. PICK p \in todo :
           /\ todo' = todo \ {p} /\ found' \in BOOLEAN
           /\ findings' = findings \/ findings' = Append(findings, p)
    BY <1>5 DEF Inspect
  <2>2. findings' \in Seq(Paths)
    BY <1>0, <2>1, AppendProperties DEF CommandOK
  <2>3. FilesOK' /\ Current' = Current
    BY <1>0, <1>5, FilesFrame DEF Inspect
  <2>4. CommandOK'
    BY <1>0, <1>5, <2>1, <2>2, <2>3 DEF Inspect, CommandOK
  <2> QED BY <1>1, <2>3, <2>4 DEF TypeOK
<1>6. CASE CopyFile
  <2>1. Head(findings) \in Paths /\ Tail(findings) \in Seq(Paths)
    BY <1>6, Findings DEF CopyFile
  <2>2. disk[Head(findings)] \in Seq(Records)
    BY <1>0, <1>6, <2>1 DEF CopyFile, FilesOK
  <2>3. FilesOK' /\ Current' = Current
    BY <1>0, <1>6, FilesFrame DEF CopyFile
  <2>4. CommandOK'
    BY <1>0, <1>6, <2>1, <2>2, <2>3 DEF CopyFile, CommandOK
  <2> QED BY <1>1, <2>3, <2>4 DEF TypeOK
<1>7. CASE ReplaceFile
  <2>1. Head(findings) \in Paths /\ Scrubbed(copy) \in Seq(Records)
    BY <1>0, <1>7, Findings, ScrubbedRecords DEF ReplaceFile, CommandOK
  <2>2. FilesOK' /\ Current' = Current
    BY <1>0, <1>7, <2>1 DEF ReplaceFile, FilesOK, Current
  <2>3. CommandOK'
    BY <1>0, <1>7, <2>2 DEF ReplaceFile, CommandOK
  <2> QED BY <1>1, <2>2, <2>3 DEF TypeOK
<1>8. CASE Rebuild
  <2> DEFINE p == Head(findings)
  <2>1. /\ p \in Paths /\ Tail(findings) \in Seq(Paths) /\ handle \in 1 .. Current
        /\ <<>> \in Seq(Records)
    BY <1>0, <1>8, Findings, EmptySeq DEF Rebuild, CommandOK
  <2>2. (disk[p] # Gone => disk[p] \in Seq(Records)) /\ mtime[p] \in Nat
    BY <1>0, <2>1 DEF FilesOK
  <2>3. UNCHANGED <<disk, mtime, written>>
    BY <1>8 DEF Rebuild
  <2>4. \/ UNCHANGED <<index, stat>>
        \/ /\ disk[p] # Gone /\ Store(handle, p, disk[p])
           /\ stat' = stat \/ stat' = [stat EXCEPT ![p] = mtime[p]]
    BY <1>8 DEF Rebuild
  <2> HIDE DEF p
  <2>5. FilesOK' /\ Current' = Current
    BY <1>0, <2>1, <2>2, <2>3, <2>4, FilesFrame, SyncType
  <2>6. CommandOK'
    BY <1>0, <1>8, <2>1, <2>5 DEF Rebuild, CommandOK
  <2> QED BY <1>1, <2>5, <2>6 DEF TypeOK
<1> QED BY <1>2, <1>3, <1>4, <1>5, <1>6, <1>7, <1>8

\* So do those of the others.
LEMMA OthersType ==
  ASSUME TypeOK, AgentAppends \/ Delete \/ WriterReads \/ WriterCommits \/ Discard
  PROVE  TypeOK'
<1> USE DEF redactor, writer, counters
<1>0. /\ Current \in Nat \ {0} /\ Current \in 1 .. Current /\ FilesOK /\ CommandOK /\ WriterOK
      /\ Listed \subseteq Paths
  BY IndexFiles DEF TypeOK, Listed
<1>1. CASE AgentAppends
  <2>1. PICK p \in Paths, k \in Kinds :
          LET r == [n |-> written + 1, age |-> k[1], kind |-> k[2], raw |-> k[2] # "plain"]
          IN  /\ disk' = [disk EXCEPT ![p] = IF @ = Gone THEN <<r>> ELSE Append(@, r)]
              /\ mtime' = [mtime EXCEPT ![p] = @ + 1]
    BY <1>1 DEF AgentAppends
  <2> DEFINE r == [n |-> written + 1, age |-> k[1], kind |-> k[2], raw |-> k[2] # "plain"]
  <2>2. r \in Records
    <3>1. k[1] \in Ages /\ k[2] \in Texts
      BY RedactionConstants
    <3> QED BY <1>0, <3>1 DEF Records, FilesOK
  <2>3. disk' = [disk EXCEPT ![p] = IF @ = Gone THEN <<r>> ELSE Append(@, r)]
    BY <2>1
  <2> HIDE DEF r
  <2>4. /\ <<r>> \in Seq(Records)
        /\ disk[p] # Gone => Append(disk[p], r) \in Seq(Records)
    BY <1>0, <2>2, AppendedSet DEF FilesOK
  <2>5. FilesOK' /\ Current' = Current
    <3>1. PICK t \in Seq(Records) : disk' = [disk EXCEPT ![p] = t]
      BY <2>3, <2>4
    <3>2. disk' \in [Paths -> {Gone} \union Seq(Records)]
      BY <1>0, <3>1 DEF FilesOK
    <3>3. mtime' \in [Paths -> Nat]
      BY <1>0, <2>1 DEF FilesOK
    <3> QED BY <1>0, <1>1, <3>2, <3>3 DEF FilesOK, Current, AgentAppends
  <2>6. CommandOK'
    BY <1>0, <1>1, <2>5 DEF AgentAppends, CommandOK, FilesOK
  <2> QED BY <1>0, <1>1, <2>5, <2>6 DEF AgentAppends, TypeOK, WriterOK
<1>2. CASE Delete
  <2>1. FilesOK' /\ Current' = Current
    BY <1>0, <1>2 DEF Delete, FilesOK, Current
  <2> QED BY <1>0, <1>2, <2>1 DEF Delete, TypeOK, CommandOK, WriterOK
<1>3. CASE WriterReads
  <2>1. FilesOK' /\ Current' = Current
    BY <1>0, <1>3, FilesFrame DEF WriterReads
  <2>2. PICK p \in Listed : writing' = p /\ read' = <<disk[p], mtime[p]>>
    BY <1>3 DEF WriterReads
  <2>3. disk[p] \in Seq(Records) /\ mtime[p] \in Nat /\ p \in Paths
    BY <1>0, <2>2 DEF Listed, FilesOK
  <2>4. WriterOK'
    BY <2>2, <2>3 DEF WriterOK
  <2> QED BY <1>0, <1>3, <2>1, <2>4 DEF WriterReads, TypeOK, CommandOK
<1>4. CASE WriterCommits
  <2>1. writing \in Paths /\ read[1] \in Seq(Records) /\ read[2] \in Nat
    BY <1>0, <1>4 DEF WriterCommits, WriterOK
  <2>2. FilesOK' /\ Current' = Current
    BY <1>0, <1>4, <2>1, SyncType DEF WriterCommits
  <2> QED BY <1>0, <1>4, <2>2 DEF WriterCommits, TypeOK, CommandOK, WriterOK
<1>5. CASE Discard
  <2> DEFINE F == [Paths -> {Gone} \union SUBSET Records]
  <2> DEFINE e == [p \in Paths |-> Gone]
  <2>1. e \in F /\ index \in Seq(F) /\ index' = Append(index, e)
    BY <1>0, <1>5 DEF Discard, FilesOK
  <2> HIDE DEF e, F
  <2>2. index' \in Seq(F) /\ Len(index') = Len(index) + 1 /\ index' # <<>>
    BY <2>1, AppendProperties, EmptySeq
  <2>3. FilesOK'
    BY <1>0, <1>5, <2>2 DEF Discard, FilesOK, F
  <2>4. handle' \in 0 .. Current'
    BY <1>0, <1>5, <2>2 DEF Discard, CommandOK, Current
  <2>5. CommandOK'
    BY <1>0, <1>5, <2>4 DEF Discard, CommandOK
  <2> QED BY <1>0, <1>5, <2>3, <2>5 DEF Discard, TypeOK, WriterOK
<1> QED BY <1>1, <1>2, <1>3, <1>4, <1>5

-----------------------------------------------------------------------------
(* The lock, and the stats.                                                *)

\* Every step keeps the types and the owner of the lock.
LEMMA LockStep ==
  ASSUME TypeOK, LockHeld, [Next]_vars
  PROVE  TypeOK' /\ LockHeld'
<1>1. TypeOK'
  <2>1. CASE UNCHANGED vars
    BY <2>1 DEF vars, redactor, writer, counters, TypeOK, FilesOK, CommandOK, WriterOK, Current
  <2> QED BY <2>1, CommandType, OthersType DEF Next
<1>2. LockHeld'
  <2> USE RedactionConstants DEF LockHeld, Free, BeginOpen, TakeLock, redactor, writer, counters
  <2>1. CASE Start \/ OpenVisits \/ Opened \/ BeginScan \/ Inspect
    BY <2>1 DEF Start, OpenVisits, Opened, BeginScan, Inspect
  <2>2. CASE Scanned \/ CopyFile \/ ReplaceFile \/ Rebuild \/ BeginVerify
    BY <2>2 DEF Scanned, CopyFile, ReplaceFile, Rebuild, BeginVerify
  <2>3. CASE Count
    BY <2>3 DEF Count
  <2>4. CASE Abort
    <3>1. phase' = "idle" /\ lock' = (IF lock = Redactor THEN Nobody ELSE lock) /\ writing' = writing
      BY <2>4 DEF Abort
    <3> QED BY <3>1
  <2>5. CASE AgentAppends \/ Delete \/ Discard
    BY <2>5 DEF AgentAppends, Delete, Discard
  <2>6. CASE WriterReads \/ WriterCommits
    BY <2>6 DEF WriterReads, WriterCommits
  <2>7. CASE UNCHANGED vars
    BY <2>7 DEF vars
  <2> QED BY <2>1, <2>2, <2>3, <2>4, <2>5, <2>6, <2>7 DEF Next
<1> QED BY <1>1, <1>2

\* The steps that leave the transcripts, the index and the writer alone.
Quiet == UNCHANGED <<disk, mtime, index, stat, writing, read, written, purged>>

\* Scanning, copying, counting and giving up change none of them.
LEMMA QuietSteps ==
  ASSUME \/ Start \/ Opened \/ BeginScan \/ Inspect \/ Scanned \/ CopyFile \/ BeginVerify
         \/ Count \/ Abort \/ UNCHANGED vars
  PROVE  Quiet
  BY DEF Quiet, Start, Opened, BeginScan, Inspect, Scanned, CopyFile, BeginVerify, Count, Abort,
         vars, redactor, writer, counters

\* A sync of a file at the stat it has on disk, or at an earlier one.
LEMMA SyncStat ==
  ASSUME TypeOK, StatInv, NEW p \in Paths, NEW s \in Seq(Records), NEW v \in Nat,
         Store(Current, p, s), stat' = [stat EXCEPT ![p] = v],
         v <= mtime[p], disk[p] # Gone /\ v = mtime[p] => s = disk[p],
         UNCHANGED <<disk, mtime>>, writing' = Gone \/ UNCHANGED <<writing, read>>
  PROVE  StatInv'
<1>1. Current \in 1 .. Current
  BY IndexFiles
<1>2. /\ Current' = Current /\ index'[Current][p] = Rows(s)
      /\ \A q \in Paths \ {p} : index'[Current][q] = index[Current][q]
  BY <1>1, Stored
<1>3. stat'[p] = v /\ \A q \in Paths \ {p} : stat'[q] = stat[q]
  BY DEF TypeOK, FilesOK
<1> QED BY <1>2, <1>3, RedactionConstants DEF StatInv

\* A change of a file changes its stat.
LEMMA ChangedStat ==
  ASSUME TypeOK, StatInv, NEW p \in Paths, NEW s, disk' = [disk EXCEPT ![p] = s],
         mtime' = [mtime EXCEPT ![p] = @ + 1], UNCHANGED <<index, stat, writing, read>>
  PROVE  StatInv'
<1>1. /\ disk \in [Paths -> {Gone} \union Seq(Records)] /\ mtime \in [Paths -> Nat]
      /\ stat \in [Paths -> Nat]
  BY DEF TypeOK, FilesOK
<1>2. \A q \in Paths \ {p} : disk'[q] = disk[q] /\ mtime'[q] = mtime[q]
  BY <1>1
<1>3. mtime'[p] = mtime[p] + 1 /\ mtime[p] \in Nat /\ stat[p] \in Nat /\ stat[p] <= mtime[p]
  BY <1>1 DEF StatInv
<1>4. writing = p => read[2] \in Nat /\ read[2] <= mtime[p]
  BY RedactionConstants DEF TypeOK, WriterOK, StatInv
<1>5. stat[p] <= mtime'[p] /\ mtime'[p] # 0 /\ stat[p] # mtime'[p]
  BY <1>3
<1>6. writing = p => read[2] <= mtime'[p] /\ read[2] # mtime'[p]
  BY <1>3, <1>4
<1> QED BY <1>2, <1>5, <1>6 DEF StatInv, Current

\* Every step keeps what stats say.
LEMMA StatStep ==
  ASSUME TypeOK, LockHeld, StatInv, [Next]_vars
  PROVE  StatInv'
<1> USE DEF redactor, writer, counters
<1>0. /\ Current \in Nat \ {0} /\ Current \in 1 .. Current /\ FilesOK /\ CommandOK /\ WriterOK
      /\ \A p \in Paths : stat[p] \in Nat /\ mtime[p] \in Nat
  BY IndexFiles DEF TypeOK, FilesOK
<1>1. CASE Quiet
  BY <1>1 DEF Quiet, StatInv, Current
<1>2. CASE OpenVisits
  <2>1. PICK p \in Paths : SyncFile(p)
    BY <1>0, <1>2 DEF OpenVisits, CommandOK
  <2>2. UNCHANGED <<disk, mtime, writing, read>>
    BY <1>2 DEF OpenVisits
  <2>3. CASE UNCHANGED <<index, stat>>
    BY <2>2, <2>3 DEF StatInv, Current
  <2>4. CASE /\ disk[p] # Gone /\ Store(Current, p, disk[p])
             /\ stat' = [stat EXCEPT ![p] = mtime[p]]
    <3>1. disk[p] \in Seq(Records) /\ mtime[p] \in Nat /\ mtime[p] <= mtime[p]
      BY <1>0, <2>4 DEF FilesOK
    <3> QED BY <2>2, <2>4, <3>1, SyncStat
  <2> QED BY <2>1, <2>3, <2>4 DEF SyncFile
<1>3. CASE Rebuild
  <2> DEFINE p == Head(findings)
  <2>1. p \in Paths /\ handle \in 1 .. Current /\ UNCHANGED <<disk, mtime, writing, read>>
    BY <1>0, <1>3, Findings DEF Rebuild, CommandOK
  <2>2. CASE UNCHANGED <<index, stat>>
    BY <2>1, <2>2 DEF StatInv, Current
  <2>3. CASE /\ disk[p] # Gone /\ Store(handle, p, disk[p]) /\ handle = Current
             /\ stat' = [stat EXCEPT ![p] = mtime[p]]
    <3>1. disk[p] \in Seq(Records) /\ mtime[p] \in Nat /\ mtime[p] <= mtime[p]
      BY <1>0, <2>1, <2>3 DEF FilesOK
    <3> QED BY <2>1, <2>3, <3>1, SyncStat
  <2>4. CASE disk[p] # Gone /\ Store(handle, p, disk[p]) /\ handle # Current /\ stat' = stat
    <3>1. disk[p] \in Seq(Records)
      BY <1>0, <2>1, <2>4 DEF FilesOK
    <3>2. Current' = Current /\ \A q \in Paths : index'[Current][q] = index[Current][q]
      BY <1>0, <2>1, <2>4, <3>1, Stored
    <3> QED BY <2>1, <2>4, <3>2 DEF StatInv
  <2> QED BY <1>3, <2>2, <2>3, <2>4 DEF Rebuild
<1>4. CASE ReplaceFile
  <2>1. PICK p \in Paths : /\ \E s : disk' = [disk EXCEPT ![p] = s]
                           /\ mtime' = [mtime EXCEPT ![p] = @ + 1]
    BY <1>0, <1>4, Findings DEF ReplaceFile, NewStat, CommandOK
  <2>2. UNCHANGED <<index, stat, writing, read>>
    BY <1>4 DEF ReplaceFile
  <2> QED BY <2>1, <2>2, ChangedStat
<1>5. CASE AgentAppends \/ Delete
  <2>1. PICK p \in Paths : /\ \E s : disk' = [disk EXCEPT ![p] = s]
                           /\ mtime' = [mtime EXCEPT ![p] = @ + 1]
    <3>1. AgentAppends => \E p \in Paths : /\ \E s : disk' = [disk EXCEPT ![p] = s]
                                           /\ mtime' = [mtime EXCEPT ![p] = @ + 1]
      BY DEF AgentAppends
    <3>2. Delete => \E p \in Paths : /\ \E s : disk' = [disk EXCEPT ![p] = s]
                                     /\ mtime' = [mtime EXCEPT ![p] = @ + 1]
      BY DEF Delete, Listed
    <3> QED BY <1>5, <3>1, <3>2
  <2>2. UNCHANGED <<index, stat, writing, read>>
    BY <1>5 DEF AgentAppends, Delete
  <2> QED BY <2>1, <2>2, ChangedStat
<1>6. CASE WriterReads
  <2>1. PICK p \in Listed : writing' = p /\ read' = <<disk[p], mtime[p]>>
    BY <1>6 DEF WriterReads
  <2>2. UNCHANGED <<disk, mtime, index, stat>>
    BY <1>6 DEF WriterReads
  <2> QED BY <1>0, <2>1, <2>2 DEF StatInv, Current
<1>7. CASE WriterCommits
  <2>1. writing \in Paths /\ read[1] \in Seq(Records) /\ read[2] \in Nat
    BY <1>0, <1>7 DEF WriterCommits, WriterOK
  <2>2. /\ read[2] <= mtime[writing]
        /\ disk[writing] # Gone /\ read[2] = mtime[writing] => read[1] = disk[writing]
    BY <2>1 DEF StatInv
  <2> QED BY <1>7, <2>1, <2>2, SyncStat DEF WriterCommits
<1>8. CASE Discard
  <2>1. /\ \A p \in Paths : stat'[p] = 0
        /\ UNCHANGED <<disk, mtime, writing, read>>
    BY <1>8 DEF Discard
  <2> QED BY <1>0, <2>1 DEF StatInv
<1> QED BY <1>1, <1>2, <1>3, <1>4, <1>5, <1>6, <1>7, <1>8, QuietSteps DEF Next

-----------------------------------------------------------------------------
(* The records.                                                            *)

\* What is live of a transcript are records.
LEMMA LiveRecords ==
  ASSUME TypeOK
  PROVE  /\ \A p \in Paths : Live(p) \subseteq Records
         /\ \A p \in Paths : disk[p] # Gone => ToSet(disk[p]) \subseteq Live(p)
         /\ \A p \in Paths : writing = p => ToSet(read[1]) \subseteq Live(p)
         /\ phase \in {"replace", "rebuild"} => ToSet(copy) \subseteq Live(Head(findings))
<1>0. phase \in {"replace", "rebuild"} => ToSet(copy) \subseteq Live(Head(findings))
  BY DEF Live
<1> SUFFICES ASSUME NEW p \in Paths
             PROVE  /\ Live(p) \subseteq Records
                    /\ disk[p] # Gone => ToSet(disk[p]) \subseteq Live(p)
                    /\ writing = p => ToSet(read[1]) \subseteq Live(p)
  BY <1>0
<1>1. disk[p] # Gone => ToSet(disk[p]) \subseteq Records
  BY SetOfRecords DEF TypeOK, FilesOK
<1>2. index[Current][p] # Gone => index[Current][p] \subseteq Records
  BY IndexFiles
<1>3. ToSet(copy) \subseteq Records
  BY SetOfRecords DEF TypeOK, CommandOK
<1>4. writing = p => ToSet(read[1]) \subseteq Records
  <2>1. writing = p => read[1] \in Seq(Records)
    BY RedactionConstants DEF TypeOK, WriterOK
  <2> QED BY <2>1, SetOfRecords
<1> QED BY <1>1, <1>2, <1>3, <1>4 DEF Live

\* A step that writes no record and removes no secret from the index keeps what is
\* said of live records, if each was live before, perhaps with its secret.
LEMMA LiveKept ==
  ASSUME LiveInv, UNCHANGED <<written, purged>>,
         \A p \in Paths : \A r \in Live(p)' : \E x \in Live(p) : x.n = r.n /\ (r.raw => x = r)
  PROVE  LiveInv'
<1>1. \A p \in Paths : \A r \in Live(p)' :
        r.n \in 1 .. written /\ (r.raw => r.kind # "plain" /\ r.n \notin purged)
  BY DEF LiveInv
<1>2. \A p, q \in Paths : \A r \in Live(p)', s \in Live(q)' : r.n = s.n => p = q
  <2> SUFFICES ASSUME NEW p \in Paths, NEW q \in Paths, NEW r \in Live(p)', NEW s \in Live(q)',
                      r.n = s.n
               PROVE  p = q
    OBVIOUS
  <2>1. PICK x \in Live(p) : x.n = r.n
    OBVIOUS
  <2>2. PICK y \in Live(q) : y.n = s.n
    OBVIOUS
  <2> QED BY <2>1, <2>2 DEF LiveInv
<1> QED BY <1>1, <1>2 DEF LiveInv

\* In particular if nothing becomes live.
LEMMA LiveFewer ==
  ASSUME LiveInv, UNCHANGED <<written, purged>>, \A p \in Paths : Live(p)' \subseteq Live(p)
  PROVE  LiveInv'
<1>1. \A p \in Paths : \A r \in Live(p)' : \E x \in Live(p) : x.n = r.n /\ (r.raw => x = r)
  OBVIOUS
<1> QED BY <1>1, LiveKept

\* A rebuild removes secrets of records that are nowhere legible any more.
LEMMA RebuildLive ==
  ASSUME TypeOK, LockHeld, LiveInv, DistinctInv, Rebuild
  PROVE  LiveInv'
<1>1. PICK p \in Paths :
        /\ p = Head(findings)
        /\ handle \in 1 .. Current /\ writing = Gone /\ Gone \notin Paths
        /\ Current \in 1 .. Current
  BY Findings, IndexFiles, RedactionConstants DEF Rebuild, TypeOK, CommandOK, LockHeld
<1>2. /\ UNCHANGED <<disk, written, writing, read>> /\ phase = "rebuild" /\ phase' = "redact"
  BY DEF Rebuild, writer, counters
<1>3. CASE disk[p] = Gone
  <2>1. UNCHANGED <<index, purged>>
    BY <1>1, <1>3 DEF Rebuild
  <2>2. \A q \in Paths : Live(q)' \subseteq Live(q)
    BY <1>2, <2>1 DEF Live, Current
  <2> QED BY <1>2, <2>1, <2>2, LiveFewer
<1>4. CASE disk[p] # Gone
  <2>1. disk[p] \in Seq(Records)
    BY <1>1, <1>4 DEF TypeOK, FilesOK
  <2>2. /\ Current' = Current /\ index'[handle][p] = Rows(disk[p])
        /\ \A j \in 1 .. Current, q \in Paths : j # handle \/ q # p => index'[j][q] = index[j][q]
    <3>1. Store(handle, p, disk[p])
      BY <1>1, <1>4 DEF Rebuild
    <3> QED BY <1>1, <2>1, <3>1, Stored
  <2>3. Rows(disk[p]) \subseteq ToSet(disk[p])
    BY <2>1, SetOfRecords
  <2>4. \A q \in Paths : Live(q)' \subseteq Live(q)
    <3> SUFFICES ASSUME NEW q \in Paths PROVE Live(q)' \subseteq Live(q)
      OBVIOUS
    <3>1. CASE q # p
      BY <1>1, <1>2, <2>2, <3>1 DEF Live
    <3>2. CASE q = p /\ handle # Current
      BY <1>1, <1>2, <2>2, <3>2 DEF Live
    <3>3. CASE q = p /\ handle = Current
      BY <1>1, <1>2, <1>4, <2>2, <2>3, <3>3 DEF Live
    <3> QED BY <3>1, <3>2, <3>3
  <2>5. CASE purged' = purged
    BY <1>2, <2>4, <2>5, LiveFewer
  <2>6. CASE handle = Current
    <3> DEFINE lost == {x \in ToSet(copy) : x.raw /\ Redacted(x) \in ToSet(disk[p])}
    <3>1. purged' = purged \union {r.n : r \in lost}
      BY <1>1, <1>4, <2>6 DEF Rebuild
    <3>2. ToSet(copy) \subseteq Live(p) /\ ToSet(copy) \subseteq Records
      BY <1>1, <1>2, LiveRecords, SetOfRecords DEF TypeOK, CommandOK
    <3>3. purged' \subseteq 1 .. written'
      <4>1. \A x \in lost : x.n \in 1 .. written
        BY <1>1, <3>2 DEF LiveInv
      <4>2. purged \subseteq 1 .. written
        BY DEF LiveInv
      <4> HIDE DEF lost
      <4> QED BY <1>2, <3>1, <4>1, <4>2
    <3>4. Live(p)' \subseteq ToSet(disk[p])
      BY <1>1, <1>2, <1>4, <2>2, <2>3, <2>6 DEF Live
    <3>5. ASSUME NEW q \in Paths, NEW r \in Live(q)', r.raw, NEW x \in lost, r.n = x.n
          PROVE  FALSE
      <4>1. q = p
        BY <1>1, <2>4, <3>2, <3>5 DEF LiveInv
      <4>2. r \in ToSet(disk[p]) /\ Redacted(x) \in ToSet(disk[p])
        BY <3>4, <4>1
      <4>3. Redacted(x).n = x.n /\ Redacted(x).raw = FALSE
        BY <3>2 DEF Redacted, Records
      <4>4. r = Redacted(x)
        BY <1>1, <1>4, <3>5, <4>2, <4>3 DEF DistinctInv, Distinct, ToSet
      <4> QED BY <3>5, <4>3, <4>4
    <3> HIDE DEF lost
    <3>6. \A q \in Paths : \A r \in Live(q)' :
            r.n \in 1 .. written' /\ (r.raw => r.kind # "plain" /\ r.n \notin purged')
      BY <1>2, <2>4, <3>1, <3>5 DEF LiveInv
    <3>7. \A q, t \in Paths : \A r \in Live(q)', s \in Live(t)' : r.n = s.n => q = t
      BY <2>4 DEF LiveInv
    <3> QED BY <3>3, <3>6, <3>7 DEF LiveInv
  <2> QED BY <1>1, <1>4, <2>5, <2>6 DEF Rebuild
<1> QED BY <1>3, <1>4

\* A new record has a number of its own.
LEMMA AppendLive ==
  ASSUME TypeOK, LiveInv, DistinctInv, AgentAppends
  PROVE  /\ LiveInv' /\ DistinctInv'
         /\ \E p \in Paths, r \in Records :
              /\ r.n = written + 1 /\ written \in Nat
              /\ disk' = [disk EXCEPT ![p] = IF @ = Gone THEN <<r>> ELSE Append(@, r)]
<1>1. PICK p \in Paths, k \in Kinds :
        LET r == [n |-> written + 1, age |-> k[1], kind |-> k[2], raw |-> k[2] # "plain"]
        IN  disk' = [disk EXCEPT ![p] = IF @ = Gone THEN <<r>> ELSE Append(@, r)]
  BY DEF AgentAppends
<1> DEFINE r == [n |-> written + 1, age |-> k[1], kind |-> k[2], raw |-> k[2] # "plain"]
<1>2. /\ r \in Records /\ r.n = written + 1 /\ (r.raw => r.kind # "plain") /\ written \in Nat
  <2>1. k[1] \in Ages /\ k[2] \in Texts
    BY RedactionConstants
  <2>2. written \in Nat
    BY DEF TypeOK, FilesOK
  <2>3. r \in Records
    BY <2>1, <2>2 DEF Records
  <2> QED BY <2>2, <2>3
<1>3. disk' = [disk EXCEPT ![p] = IF @ = Gone THEN <<r>> ELSE Append(@, r)]
  BY <1>1
<1> HIDE DEF r
<1>4. /\ disk \in [Paths -> {Gone} \union Seq(Records)] /\ written' = written + 1
      /\ UNCHANGED <<index, phase, findings, copy, writing, read, purged>>
  BY DEF AgentAppends, TypeOK, FilesOK, redactor, writer
<1>5. /\ \A q \in Paths \ {p} : disk'[q] = disk[q]
      /\ disk[p] = Gone => disk'[p] = <<r>>
      /\ disk[p] # Gone => disk[p] \in Seq(Records) /\ disk'[p] = Append(disk[p], r)
  BY <1>3, <1>4
<1>6. disk[p] # Gone => ToSet(disk'[p]) = ToSet(disk[p]) \union {r}
  BY <1>2, <1>5, AppendedSet
<1>7. disk[p] = Gone => ToSet(disk'[p]) = {r}
  BY <1>5 DEF ToSet
<1>8. /\ Live(p)' \subseteq Live(p) \union {r}
      /\ \A q \in Paths \ {p} : Live(q)' \subseteq Live(q)
  BY <1>4, <1>5, <1>6, <1>7 DEF Live, Current
<1>9. \A q \in Paths : \A s \in Live(q) : s.n \in Nat /\ s.n <= written
  BY <1>2 DEF LiveInv
<1>10. LiveInv'
  <2>1. purged' \subseteq 1 .. written' /\ r.n \notin purged
    BY <1>2, <1>4 DEF LiveInv
  <2>2. \A q \in Paths : \A s \in Live(q)' :
          s.n \in 1 .. written' /\ (s.raw => s.kind # "plain" /\ s.n \notin purged')
    BY <1>2, <1>4, <1>8, <2>1 DEF LiveInv
  <2>3. \A q, t \in Paths : \A s \in Live(q)', u \in Live(t)' : s.n = u.n => q = t
    <3> SUFFICES ASSUME NEW q \in Paths, NEW t \in Paths, NEW s \in Live(q)', NEW u \in Live(t)',
                        s.n = u.n
                 PROVE  q = t
      OBVIOUS
    <3>1. s \in Live(q) \/ (q = p /\ s = r)
      BY <1>8
    <3>2. u \in Live(t) \/ (t = p /\ u = r)
      BY <1>8
    <3>3. (s \in Live(q) => s.n # r.n) /\ (u \in Live(t) => u.n # r.n)
      BY <1>2, <1>9
    <3> QED BY <3>1, <3>2, <3>3 DEF LiveInv
  <2> QED BY <2>1, <2>2, <2>3 DEF LiveInv
<1>11. DistinctInv'
  <2>1. disk[p] = Gone => Distinct(disk'[p])
    BY <1>5 DEF Distinct
  <2>2. ASSUME disk[p] # Gone PROVE Distinct(disk'[p])
    <3> DEFINE d == disk[p]
    <3> DEFINE a == Append(d, r)
    <3>1. /\ DOMAIN a = 1 .. Len(d) + 1 /\ a[Len(d) + 1] = r /\ Len(d) \in Nat
          /\ \A i \in 1 .. Len(d) : a[i] = d[i]
          /\ DOMAIN d = 1 .. Len(d)
      BY <1>2, <1>5, <2>2, AppendProperties, LenProperties
    <3>2. \A i \in 1 .. Len(d) : d[i].n # r.n
      <4>1. ToSet(d) \subseteq Live(p)
        BY <2>2, LiveRecords
      <4> QED BY <1>2, <1>9, <3>1, <4>1 DEF ToSet
    <3>3. Distinct(d)
      BY <2>2 DEF DistinctInv
    <3>4. a = disk'[p]
      BY <1>5, <2>2
    <3> HIDE DEF a, d
    <3>5. Distinct(a)
      BY <3>1, <3>2, <3>3 DEF Distinct
    <3> QED BY <3>4, <3>5
  <2> QED BY <1>4, <1>5, <2>1, <2>2 DEF DistinctInv, Distinct
<1> QED BY <1>2, <1>3, <1>10, <1>11

\* A sync makes nothing live that was not.
LEMMA SyncLive ==
  ASSUME TypeOK, LiveInv, NEW p \in Paths, NEW s \in Seq(Records), ToSet(s) \subseteq Live(p),
         Store(Current, p, s), UNCHANGED <<disk, written, purged>>,
         phase' \notin {"replace", "rebuild"} \/ UNCHANGED <<phase, findings, copy>>,
         writing' = Gone \/ UNCHANGED <<writing, read>>
  PROVE  LiveInv'
<1>1. /\ Current' = Current /\ index'[Current][p] = Rows(s)
      /\ \A q \in Paths : q # p => index'[Current][q] = index[Current][q]
  BY IndexFiles, Stored
<1>2. Rows(s) \subseteq Live(p)
  BY SetOfRecords
<1>3. \A q \in Paths : Live(q)' \subseteq Live(q)
  <2> SUFFICES ASSUME NEW q \in Paths PROVE Live(q)' \subseteq Live(q)
    OBVIOUS
  <2>1. q # p => index'[Current'][q] = index[Current][q]
    BY <1>1
  <2>2. q = p => index'[Current'][q] \subseteq Live(q)
    BY <1>1, <1>2
  <2> QED BY <2>1, <2>2, RedactionConstants DEF Live
<1> QED BY <1>3, LiveFewer

\* Every step keeps what is said of live records, and that numbers are distinct.
LEMMA LiveStep ==
  ASSUME TypeOK, LockHeld, LiveInv, DistinctInv, [Next]_vars
  PROVE  LiveInv' /\ DistinctInv'
<1> USE DEF redactor, writer, counters
<1>0. /\ Current \in Nat \ {0} /\ Current \in 1 .. Current /\ FilesOK /\ CommandOK /\ WriterOK
      /\ Gone \notin Paths
  BY IndexFiles, RedactionConstants DEF TypeOK
<1>1. ASSUME Start \/ Opened \/ BeginScan \/ Inspect \/ Scanned \/ BeginVerify \/ Count \/ Abort
      PROVE  LiveInv' /\ DistinctInv'
  <2>1. phase' \notin {"replace", "rebuild"} /\ copy' \in {copy, <<>>}
    BY <1>1 DEF Start, Opened, BeginScan, Inspect, Scanned, BeginVerify, Count, Abort, BeginOpen
  <2>2. Quiet
    BY <1>1, QuietSteps
  <2>3. \A p \in Paths : Live(p)' \subseteq Live(p)
    BY <2>1, <2>2 DEF Live, Quiet, Current
  <2>4. DistinctInv'
    BY <2>1, <2>2 DEF DistinctInv, Distinct, Quiet
  <2> QED BY <2>2, <2>3, <2>4, LiveFewer DEF Quiet
<1>2. CASE UNCHANGED vars
  BY <1>2 DEF vars, LiveInv, Live, DistinctInv, Distinct, Current
<1>3. CASE OpenVisits
  <2>1. PICK p \in Paths : SyncFile(p)
    BY <1>0, <1>3 DEF OpenVisits, CommandOK
  <2>2. UNCHANGED <<disk, written, purged, writing, read, phase, findings, copy>>
    BY <1>3 DEF OpenVisits
  <2>3. CASE UNCHANGED index
    <3>1. \A q \in Paths : Live(q)' = Live(q)
      BY <2>2, <2>3 DEF Live, Current
    <3> QED BY <2>2, <3>1, LiveFewer DEF DistinctInv, Distinct
  <2>4. CASE disk[p] # Gone /\ Store(Current, p, disk[p])
    <3>1. disk[p] \in Seq(Records) /\ ToSet(disk[p]) \subseteq Live(p)
      BY <1>0, <2>4, LiveRecords DEF FilesOK
    <3> QED BY <2>2, <2>4, <3>1, SyncLive DEF DistinctInv, Distinct
  <2> QED BY <2>1, <2>3, <2>4 DEF SyncFile
<1>4. CASE CopyFile
  <2>1. PICK p \in Paths : p = Head(findings)
    BY <1>4, Findings DEF CopyFile
  <2>2. Quiet /\ disk[p] # Gone /\ phase = "redact"
    BY <1>4, <2>1, QuietSteps DEF CopyFile
  <2>3. CASE phase' = "redact" /\ copy' = copy
    <3>1. \A q \in Paths : Live(q)' \subseteq Live(q)
      BY <2>2, <2>3 DEF Live, Quiet, Current
    <3> QED BY <2>2, <2>3, <3>1, LiveFewer DEF Quiet, DistinctInv, Distinct
  <2>4. CASE copy' = disk[p] /\ UNCHANGED findings
    <3>1. \A q \in Paths : Live(q)' \subseteq Live(q)
      BY <2>1, <2>2, <2>4 DEF Live, Quiet, Current
    <3> QED BY <2>2, <2>4, <3>1, LiveFewer DEF Quiet, DistinctInv, Distinct
  <2> QED BY <1>4, <2>1, <2>2, <2>3, <2>4 DEF CopyFile
<1>5. CASE ReplaceFile
  <2>1. PICK p \in Paths : p = Head(findings)
    BY <1>0, <1>5, Findings DEF ReplaceFile, CommandOK
  <2>2. /\ disk' = [disk EXCEPT ![p] = Scrubbed(copy)] /\ phase = "replace" /\ phase' = "rebuild"
        /\ UNCHANGED <<index, findings, copy, writing, read, written, purged>>
    BY <1>5, <2>1 DEF ReplaceFile
  <2>3. disk'[p] = Scrubbed(copy) /\ \A q \in Paths \ {p} : disk'[q] = disk[q]
    BY <1>0, <2>2 DEF FilesOK
  <2>4. /\ DOMAIN Scrubbed(copy) = DOMAIN copy
        /\ \A i \in DOMAIN copy : /\ Scrubbed(copy)[i].n = copy[i].n
                                  /\ Scrubbed(copy)[i].raw => Scrubbed(copy)[i] = copy[i]
    BY <1>0, ScrubbedRecords DEF CommandOK
  <2>5. ToSet(copy) \subseteq Live(p)
    BY <2>1, <2>2, LiveRecords
  <2>6. ASSUME NEW q \in Paths, NEW r \in Live(q)'
        PROVE  \E x \in Live(q) : x.n = r.n /\ (r.raw => x = r)
    <3>1. r \in Live(q) \/ (q = p /\ r \in ToSet(Scrubbed(copy)))
      BY <2>1, <2>2, <2>3 DEF Live, Current
    <3>2. ASSUME q = p, r \in ToSet(Scrubbed(copy))
          PROVE  \E x \in Live(q) : x.n = r.n /\ (r.raw => x = r)
      <4>1. PICK i \in DOMAIN copy : r = Scrubbed(copy)[i]
        BY <2>4, <3>2 DEF ToSet
      <4>2. copy[i] \in Live(q)
        BY <2>5, <3>2 DEF ToSet
      <4> QED BY <2>4, <4>1, <4>2
    <3> QED BY <3>1, <3>2
  <2>7. LiveInv'
    BY <2>2, <2>6, LiveKept
  <2>8. Distinct(Scrubbed(copy))
    BY <2>4 DEF DistinctInv, Distinct
  <2> QED BY <2>2, <2>3, <2>7, <2>8 DEF DistinctInv, Distinct
<1>6. CASE Rebuild
  <2>1. DistinctInv'
    BY <1>6 DEF Rebuild, DistinctInv, Distinct
  <2> QED BY <1>6, <2>1, RebuildLive
<1>7. CASE Delete
  <2>1. PICK p \in Paths : disk' = [disk EXCEPT ![p] = Gone]
    BY <1>7 DEF Delete, Listed
  <2>2. UNCHANGED <<index, phase, findings, copy, writing, read, written, purged>>
    BY <1>7 DEF Delete
  <2>3. \A q \in Paths : disk'[q] = disk[q] \/ disk'[q] = Gone
    BY <1>0, <2>1 DEF FilesOK
  <2>4. \A q \in Paths : Live(q)' \subseteq Live(q)
    BY <2>2, <2>3 DEF Live, Current
  <2>5. DistinctInv'
    BY <2>2, <2>3 DEF DistinctInv, Distinct
  <2> QED BY <2>2, <2>4, <2>5, LiveFewer
<1>8. CASE WriterReads
  <2>1. PICK p \in Listed : writing' = p /\ read' = <<disk[p], mtime[p]>>
    BY <1>8 DEF WriterReads
  <2>2. UNCHANGED <<disk, index, phase, findings, copy, written, purged>>
    BY <1>8 DEF WriterReads
  <2>3. \A q \in Paths : Live(q)' \subseteq Live(q)
    BY <2>1, <2>2 DEF Live, Listed, Current
  <2> QED BY <2>2, <2>3, LiveFewer DEF DistinctInv, Distinct
<1>9. CASE WriterCommits
  <2>1. /\ writing \in Paths /\ read[1] \in Seq(Records)
        /\ UNCHANGED <<disk, written, purged, phase, findings, copy>> /\ writing' = Gone
    BY <1>0, <1>9 DEF WriterCommits, WriterOK
  <2>2. ToSet(read[1]) \subseteq Live(writing)
    BY <2>1, LiveRecords
  <2>3. Store(Current, writing, read[1])
    BY <1>9 DEF WriterCommits
  <2>4. LiveInv'
    BY <2>1, <2>2, <2>3, SyncLive
  <2> QED BY <2>1, <2>4 DEF DistinctInv, Distinct
<1>10. CASE Discard
  <2> DEFINE e == [p \in Paths |-> Gone]
  <2>1. /\ index' = Append(index, e)
        /\ UNCHANGED <<disk, phase, findings, copy, writing, read, written, purged>>
    BY <1>10 DEF Discard
  <2>2. index'[Current'] = e
    BY <1>0, <2>1, AppendProperties DEF FilesOK, Current
  <2>3. \A q \in Paths : Live(q)' \subseteq Live(q)
    BY <2>1, <2>2 DEF Live
  <2> QED BY <2>1, <2>3, LiveFewer DEF DistinctInv, Distinct
<1> QED BY <1>1, <1>2, <1>3, <1>4, <1>5, <1>6, <1>7, <1>8, <1>9, <1>10, AppendLive DEF Next

-----------------------------------------------------------------------------
(* The rows, the scan and the report.                                      *)

\* What a sync stores of a transcript.
LEMMA SyncRows ==
  ASSUME TypeOK, LiveInv, RowsInv, NEW i \in 1 .. Current, NEW p \in Paths, NEW s \in Seq(Records),
         ToSet(s) \subseteq Live(p), Store(i, p, s)
  PROVE  RowsInv'
<1>1. /\ Current' = Current /\ index'[i][p] = Rows(s)
      /\ \A j \in 1 .. Current, q \in Paths : j # i \/ q # p => index'[j][q] = index[j][q]
  BY Stored
<1>2. \A r \in Rows(s) : r.kind # "malformed" /\ (r.raw => r.kind # "plain")
  BY DEF Rows, LiveInv
<1>3. \A j \in 1 .. Current, q \in Paths : (j = i /\ q = p) \/ index'[j][q] = index[j][q]
  BY <1>1
<1> QED BY <1>1, <1>2, <1>3 DEF RowsInv

\* Every step keeps what is said of rows.
LEMMA RowsStep ==
  ASSUME TypeOK, LiveInv, RowsInv, [Next]_vars
  PROVE  RowsInv'
<1>0. /\ Current \in Nat \ {0} /\ Current \in 1 .. Current /\ FilesOK /\ CommandOK /\ WriterOK
      /\ Gone \notin Paths
  BY IndexFiles, RedactionConstants DEF TypeOK
<1>1. CASE UNCHANGED index
  BY <1>1 DEF RowsInv, Current
<1>2. CASE OpenVisits
  <2>1. PICK p \in Paths : SyncFile(p)
    BY <1>0, <1>2 DEF OpenVisits, CommandOK
  <2>2. CASE disk[p] # Gone /\ Store(Current, p, disk[p])
    <3>1. disk[p] \in Seq(Records) /\ ToSet(disk[p]) \subseteq Live(p)
      BY <1>0, <2>2, LiveRecords DEF FilesOK
    <3> QED BY <1>0, <2>2, <3>1, SyncRows
  <2> QED BY <1>1, <2>1, <2>2 DEF SyncFile
<1>3. CASE Rebuild
  <2>1. PICK p \in Paths : p = Head(findings) /\ handle \in 1 .. Current
    BY <1>0, <1>3, Findings DEF Rebuild, CommandOK
  <2>2. CASE disk[p] # Gone /\ Store(handle, p, disk[p])
    <3>1. disk[p] \in Seq(Records) /\ ToSet(disk[p]) \subseteq Live(p)
      BY <1>0, <2>2, LiveRecords DEF FilesOK
    <3> QED BY <2>1, <2>2, <3>1, SyncRows
  <2> QED BY <1>1, <1>3, <2>1, <2>2 DEF Rebuild
<1>4. CASE WriterCommits
  <2>1. writing \in Paths /\ read[1] \in Seq(Records) /\ Store(Current, writing, read[1])
    BY <1>0, <1>4 DEF WriterCommits, WriterOK
  <2>2. ToSet(read[1]) \subseteq Live(writing)
    BY <2>1, LiveRecords
  <2> QED BY <1>0, <2>1, <2>2, SyncRows
<1>5. CASE Discard
  <2> DEFINE e == [p \in Paths |-> Gone]
  <2>1. index' = Append(index, e) /\ Len(index) \in Nat
    BY <1>0, <1>5, LenProperties DEF Discard, FilesOK
  <2>2. Current' = Current + 1 /\ index'[Current + 1] = e
        /\ \A i \in 1 .. Current : index'[i] = index[i]
    BY <1>0, <2>1, AppendProperties DEF FilesOK, Current
  <2>3. \A i \in 1 .. Current' : i \in 1 .. Current \/ i = Current + 1
    BY <1>0, <2>2
  <2> QED BY <2>2, <2>3 DEF RowsInv
<1>6. ASSUME Next PROVE OpenVisits \/ Rebuild \/ WriterCommits \/ Discard \/ UNCHANGED index
  BY <1>6 DEF Next, Start, Opened, BeginScan, Inspect, Scanned, CopyFile, ReplaceFile, BeginVerify,
              Count, Abort, AgentAppends, Delete, WriterReads
<1> QED BY <1>1, <1>2, <1>3, <1>4, <1>5, <1>6 DEF vars

\* A transcript without a hit has no legible secret of the window, but in lines
\* that are not read.
LEMMA NoHitIsHarmless ==
  ASSUME TypeOK, LiveInv, NEW p \in Paths, disk[p] # Gone, Hits(disk[p]) = {}
  PROVE  \A r \in ToSet(disk[p]) : Harmless(r, {"malformed"})
<1> SUFFICES ASSUME NEW r \in ToSet(disk[p]), r.age = "recent", r.raw PROVE r.kind = "malformed"
  BY DEF Harmless
<1>1. r \in Live(p) /\ r \in Records
  BY LiveRecords
<1>2. r.kind # "plain" /\ r.kind \in Texts
  BY <1>1 DEF LiveInv, Records
<1>3. ~Matches(r)
  BY DEF Hits, InWindow
<1> QED BY <1>2, <1>3 DEF Matches, Texts

\* Every step keeps what scans have found.
LEMMA ScanStep ==
  ASSUME TypeOK, LockHeld, LiveInv, DistinctInv, ScanInv, [Next]_vars
  PROVE  ScanInv'
<1> USE DEF redactor, writer, counters, Scanning, Visited
<1>0. /\ FilesOK /\ CommandOK /\ WriterOK /\ Gone \notin Paths
      /\ phase \in {"open", "verify"} => writing = Gone
      /\ phase \in {"scan", "count"} /\ apply => writing = Gone
  BY RedactionConstants DEF TypeOK, LockHeld
<1>1. CASE Start \/ BeginScan \/ BeginVerify
  <2>1. /\ phase' \in {"scan", "verify"} => todo' = {p \in Paths : disk[p] # Gone}
        /\ phase' = "open" => apply'
        /\ phase' \in {"scan", "verify", "open"} /\ disk' = disk
    BY <1>1 DEF Start, BeginScan, BeginVerify, BeginOpen, Listed, Verified
  <2> QED BY <2>1 DEF ScanInv
<1>2. CASE CopyFile \/ ReplaceFile \/ Rebuild \/ Abort
  <2>1. phase' \in {"redact", "replace", "rebuild", "idle"}
    BY <1>2 DEF CopyFile, ReplaceFile, Rebuild, Abort
  <2> QED BY <2>1 DEF ScanInv
<1>3. CASE OpenVisits
  <2>1. /\ phase = "open" /\ UNCHANGED <<disk, phase, apply, found, seen>>
    BY <1>3 DEF OpenVisits
  <2> QED BY <2>1 DEF ScanInv, Harmless
<1>4. CASE Opened
  <2>1. /\ phase = "open" /\ UNCHANGED <<disk, writing, found, seen>>
        /\ phase' = IF apply THEN "opened" ELSE "count"
    BY <1>4 DEF Opened
  <2> QED BY <1>0, <2>1 DEF ScanInv, Harmless
<1>5. CASE Inspect
  <2>1. PICK p \in todo :
          /\ disk[p] # Gone /\ todo' = todo \ {p} /\ found' = (found \/ Hits(disk[p]) # {})
    BY <1>5 DEF Inspect
  <2>2. phase \in {"scan", "verify"} /\ UNCHANGED <<disk, phase, seen>> /\ p \in Paths
    BY <1>0, <1>5, <2>1 DEF Inspect, CommandOK
  <2>3. ~found' => \A r \in ToSet(disk[p]) : Harmless(r, {"malformed"})
    BY <2>1, <2>2, NoHitIsHarmless
  <2> QED BY <2>1, <2>2, <2>3 DEF ScanInv, Harmless
<1>6. CASE Scanned
  <2>1. /\ phase \in {"scan", "verify"} /\ todo = {} /\ UNCHANGED <<disk, writing, found, seen, apply>>
        /\ phase = "scan" => phase' = IF apply THEN "redact" ELSE "open"
        /\ phase = "verify" => phase' = "count"
    BY <1>6 DEF Scanned, BeginOpen
  <2> QED BY <1>0, <2>1 DEF ScanInv, Harmless
<1>7. CASE Count
  <2>1. /\ phase = "count" /\ phase' = "done" /\ UNCHANGED <<disk, writing, read, found, seen>>
    BY <1>7 DEF Count
  <2> QED BY <2>1 DEF ScanInv, Harmless
<1>8. CASE AgentAppends
  <2>1. PICK p \in Paths, r \in Records :
          /\ r.n = written + 1 /\ written \in Nat
          /\ disk' = [disk EXCEPT ![p] = IF @ = Gone THEN <<r>> ELSE Append(@, r)]
    BY <1>8, AppendLive
  <2>2. UNCHANGED <<phase, todo, apply, found, seen, writing, read>>
    BY <1>8 DEF AgentAppends
  <2>3. Harmless(r, {"malformed"})
    <3>1. seen \in 0 .. written
      BY <1>0 DEF CommandOK
    <3> QED BY <2>1, <3>1 DEF Harmless
  <2>4. /\ \A q \in Paths \ {p} : disk'[q] = disk[q]
        /\ disk[p] = Gone => ToSet(disk'[p]) = {r}
        /\ disk[p] # Gone => ToSet(disk'[p]) = ToSet(disk[p]) \union {r}
    <3>1. /\ \A q \in Paths \ {p} : disk'[q] = disk[q]
          /\ disk[p] = Gone => disk'[p] = <<r>>
          /\ disk[p] # Gone => disk'[p] = Append(disk[p], r) /\ disk[p] \in Seq(Records)
      BY <1>0, <2>1 DEF FilesOK
    <3>2. ToSet(<<r>>) = {r}
      BY DEF ToSet
    <3> QED BY <3>1, <3>2, AppendedSet
  <2> QED BY <2>2, <2>3, <2>4 DEF ScanInv, Harmless
<1>9. CASE Delete
  <2>1. PICK p \in Paths : disk' = [disk EXCEPT ![p] = Gone]
    BY <1>9 DEF Delete, Listed
  <2>2. UNCHANGED <<phase, todo, apply, found, seen, writing, read>>
    BY <1>9 DEF Delete
  <2>3. \A q \in Paths : disk'[q] = disk[q] \/ disk'[q] = Gone
    BY <1>0, <2>1 DEF FilesOK
  <2> QED BY <2>2, <2>3 DEF ScanInv, Harmless
<1>10. CASE WriterReads
  <2>1. PICK p \in Listed : writing' = p /\ read' = <<disk[p], mtime[p]>>
    BY <1>10 DEF WriterReads
  <2>2. UNCHANGED <<disk, phase, todo, apply, found, seen>> /\ read'[1] = disk[p]
    BY <1>10, <2>1 DEF WriterReads
  <2> QED BY <2>1, <2>2 DEF ScanInv, Harmless, Listed
<1>11. CASE WriterCommits \/ Discard
  <2>1. /\ UNCHANGED <<disk, phase, todo, apply, found, seen>>
        /\ writing' = Gone \/ UNCHANGED <<writing, read>>
    BY <1>11 DEF WriterCommits, Discard
  <2> QED BY <2>1 DEF ScanInv, Harmless
<1>12. CASE UNCHANGED vars
  BY <1>12 DEF vars, ScanInv, Harmless
<1> QED BY <1>1, <1>2, <1>3, <1>4, <1>5, <1>6, <1>7, <1>8, <1>9, <1>10, <1>11, <1>12 DEF Next

\* A sync stores what is on disk, or what was read of it: the rows stay sourced.
LEMMA SyncSourced ==
  ASSUME TypeOK, NEW p \in Paths, NEW q \in Paths, NEW i \in 1 .. Current, NEW j \in 1 .. Current,
         NEW s \in Seq(Records), Store(i, q, s), disk' = disk, disk[q] # Gone,
         ToSet(s) \subseteq ToSet(disk[q])
  PROVE  /\ (i = j /\ p = q) \/ Sourced(j, p) => Sourced(j, p)'
         /\ (disk[p] = Gone => \A k \in 1 .. Current : index[k][p] = Gone)
              => (disk[p] = Gone => \A k \in 1 .. Current : index[k][p] = Gone)'
<1>1. /\ Current' = Current /\ index'[i][q] = Rows(s) /\ Rows(s) \subseteq ToSet(s)
      /\ \A k \in 1 .. Current, t \in Paths : k # i \/ t # q => index'[k][t] = index[k][t]
  BY Stored, SetOfRecords
<1>2. CASE i = j /\ p = q
  BY <1>1, <1>2 DEF Sourced
<1>3. CASE ~(i = j /\ p = q)
  <2>1. index'[j][p] = index[j][p]
    BY <1>1, <1>3
  <2>2. Sourced(j, p) => Sourced(j, p)'
    BY <2>1 DEF Sourced
  <2>3. disk[p] = Gone => \A k \in 1 .. Current : index'[k][p] = index[k][p]
    BY <1>1
  <2> QED BY <1>1, <1>3, <2>2, <2>3
<1> QED BY <1>2, <1>3

\* Every step keeps the index to what transcripts hold, while none is removed.
LEMMA SourceStep ==
  ASSUME TypeOK, LockHeld, StatInv, LiveInv, DistinctInv, SourceInv, [Next]_vars
  PROVE  SourceInv'
<1> USE DEF redactor, writer, counters, Holding
<1>0. /\ FilesOK /\ CommandOK /\ WriterOK /\ Gone \notin Paths /\ Current \in Nat \ {0}
      /\ Current \in 1 .. Current /\ disk \in [Paths -> {Gone} \union Seq(Records)]
  BY IndexFiles, RedactionConstants DEF TypeOK, FilesOK
<1>1. deletes' \in Nat /\ (deletes' = 0 => deletes = 0 /\ ~Delete)
  <2>1. deletes \in Nat
    BY DEF SourceInv
  <2>2. CASE Delete
    BY <2>1, <2>2 DEF Delete
  <2>3. CASE ~Delete
    <3>1. deletes' = deletes
      BY <2>3 DEF Next, Start, OpenVisits, Opened, BeginScan, Inspect, Scanned, CopyFile, ReplaceFile,
                  Rebuild, BeginVerify, Count, Abort, AgentAppends, WriterReads, WriterCommits,
                  Discard, vars
    <3> QED BY <2>1, <2>3, <3>1
  <2> QED BY <2>2, <2>3
<1>2. SUFFICES ASSUME deletes = 0, ~Delete, NEW p \in Paths
               PROVE  /\ (disk[p] = Gone => \A i \in 1 .. Current : index[i][p] = Gone)'
                      /\ (writing = p => disk[p] # Gone /\ ToSet(read[1]) \subseteq ToSet(disk[p]))'
                      /\ (phase = "open" /\ p \notin todo => Sourced(Current, p))'
                      /\ (Holding => Sourced(handle, p) \/ (phase = "rebuild" /\ p = Head(findings)))'
  BY <1>1 DEF SourceInv
<1>3. /\ disk[p] = Gone => \A i \in 1 .. Current : index[i][p] = Gone
      /\ writing = p => disk[p] # Gone /\ ToSet(read[1]) \subseteq ToSet(disk[p])
      /\ phase = "open" /\ p \notin todo => Sourced(Current, p)
      /\ Holding => Sourced(handle, p) \/ (phase = "rebuild" /\ p = Head(findings))
  BY <1>2 DEF SourceInv
<1>4. /\ Holding => handle \in 1 .. Current
      /\ phase \in {"open", "redact", "replace", "rebuild", "verify"} => writing = Gone
  BY <1>0, RedactionConstants DEF CommandOK, LockHeld
<1>5. CASE BeginScan \/ Inspect \/ CopyFile \/ BeginVerify \/ Count \/ Abort \/ UNCHANGED vars
  <2>1. UNCHANGED <<disk, index, writing, read>>
    BY <1>5, QuietSteps DEF Quiet
  <2>2. /\ Holding' => Holding /\ handle' = handle
        /\ phase = "rebuild" /\ Holding' => phase' = "rebuild" /\ findings' = findings
        /\ phase' = "open" => phase = "open" /\ todo' = todo
    BY <1>5 DEF BeginScan, Inspect, CopyFile, BeginVerify, Count, Abort, vars
  <2> QED BY <1>3, <2>1, <2>2 DEF Sourced, Current
<1>6. CASE Start \/ Scanned
  <2>1. UNCHANGED <<disk, index, writing, read>>
    BY <1>6, QuietSteps DEF Quiet
  <2>2. /\ Holding' => Holding /\ handle' = handle /\ phase # "rebuild"
        /\ phase' = "open" => todo' = Listed
    BY <1>6 DEF Start, Scanned, BeginOpen
  <2> QED BY <1>0, <1>3, <2>1, <2>2 DEF Sourced, Current, Listed
<1>7. CASE Opened
  <2>1. UNCHANGED <<disk, index, writing, read>>
    BY <1>7, QuietSteps DEF Quiet
  <2>2. phase = "open" /\ todo = {} /\ handle' = Current /\ phase' # "open"
    BY <1>7 DEF Opened
  <2>3. Sourced(handle, p)'
    BY <1>3, <2>1, <2>2 DEF Sourced
  <2> QED BY <1>3, <2>1, <2>2, <2>3 DEF Current
<1>8. CASE OpenVisits
  <2>1. PICK q \in todo : SyncFile(q) /\ todo' = todo \ {q}
    BY <1>8 DEF OpenVisits
  <2>2. /\ phase = "open" /\ q \in Paths /\ UNCHANGED <<disk, phase, writing, read>>
    BY <1>0, <1>8 DEF OpenVisits, CommandOK
  <2>3. CASE stat[q] = mtime[q] \/ disk[q] = Gone
    <3>1. index' = index
      BY <2>1, <2>3 DEF SyncFile
    <3>2. p = q => Sourced(Current, p)
      <4>1. CASE disk[q] = Gone
        BY <1>0, <1>3, <4>1 DEF Sourced
      <4>2. CASE disk[q] # Gone
        <5>1. index[Current][q] = Rows(disk[q]) /\ disk[q] \in Seq(Records)
          BY <1>0, <2>2, <2>3, <4>2 DEF StatInv
        <5> QED BY <4>2, <5>1, SetOfRecords DEF Sourced
      <4> QED BY <4>1, <4>2
    <3> QED BY <1>3, <2>1, <2>2, <3>1, <3>2 DEF Sourced, Current
  <2>4. CASE disk[q] # Gone /\ Store(Current, q, disk[q])
    <3>1. disk[q] \in Seq(Records)
      BY <1>0, <2>2, <2>4
    <3>2. /\ Current' = Current
          /\ (Current = Current /\ p = q) \/ Sourced(Current, p) => Sourced(Current, p)'
          /\ (disk[p] = Gone => \A k \in 1 .. Current : index[k][p] = Gone)'
      BY <1>0, <1>3, <2>2, <2>4, <3>1, SyncSourced, Stored
    <3> QED BY <1>3, <2>1, <2>2, <3>2
  <2> QED BY <2>1, <2>3, <2>4 DEF SyncFile
<1>9. CASE ReplaceFile
  <2>1. PICK q \in Paths : q = Head(findings)
    BY <1>9, Findings DEF ReplaceFile, TypeOK, CommandOK
  <2>2. /\ disk' = [disk EXCEPT ![q] = Scrubbed(copy)] /\ phase = "replace" /\ phase' = "rebuild"
        /\ UNCHANGED <<index, writing, read, findings, handle>>
    BY <1>9, <2>1 DEF ReplaceFile
  <2>3. Scrubbed(copy) # Gone
    <3>1. Scrubbed(copy) \in Seq(Records)
      BY <1>0, ScrubbedRecords DEF CommandOK
    <3> QED BY <3>1, RedactionConstants
  <2>4. CASE p = q
    <3>1. disk'[p] # Gone
      BY <1>0, <2>2, <2>3, <2>4
    <3> QED BY <1>0, <1>4, <2>1, <2>2, <2>4, <3>1
  <2>5. CASE p # q
    <3>1. disk'[p] = disk[p]
      BY <1>0, <2>2, <2>5
    <3> QED BY <1>3, <2>1, <2>2, <2>5, <3>1 DEF Sourced, Current
  <2> QED BY <2>4, <2>5
<1>10. CASE Rebuild
  <2>1. PICK q \in Paths : q = Head(findings)
    BY <1>10, Findings DEF Rebuild, TypeOK, CommandOK
  <2>2. /\ phase = "rebuild" /\ phase' = "redact" /\ UNCHANGED <<disk, writing, read, handle>>
        /\ IF disk[q] = Gone THEN index' = index ELSE Store(handle, q, disk[q])
    BY <1>10, <2>1 DEF Rebuild
  <2>3. handle \in 1 .. Current
    BY <1>4, <2>2
  <2>4. CASE disk[q] = Gone
    <3>1. p = q => Sourced(handle, p)
      BY <1>3, <2>3, <2>4 DEF Sourced
    <3> QED BY <1>3, <2>1, <2>2, <2>4, <3>1 DEF Sourced, Current
  <2>5. CASE disk[q] # Gone
    <3>1. disk[q] \in Seq(Records) /\ Store(handle, q, disk[q])
      BY <1>0, <2>2, <2>5
    <3>2. /\ Current' = Current
          /\ (handle = handle /\ p = q) \/ Sourced(handle, p) => Sourced(handle, p)'
          /\ (disk[p] = Gone => \A k \in 1 .. Current : index[k][p] = Gone)'
      BY <1>0, <1>3, <2>2, <2>3, <2>5, <3>1, SyncSourced, Stored
    <3> QED BY <1>3, <1>4, <2>1, <2>2, <3>2 DEF Sourced
  <2> QED BY <2>4, <2>5
<1>11. CASE AgentAppends
  <2>1. PICK q \in Paths, r \in Records :
          disk' = [disk EXCEPT ![q] = IF @ = Gone THEN <<r>> ELSE Append(@, r)]
    BY <1>11, AppendLive DEF TypeOK
  <2>2. UNCHANGED <<index, phase, todo, apply, handle, findings, writing, read>>
    BY <1>11 DEF AgentAppends
  <2>3. disk[p] # Gone => disk'[p] # Gone /\ ToSet(disk[p]) \subseteq ToSet(disk'[p])
    <3>1. disk'[p] = disk[p] \/ disk[p] = Gone \/ disk'[p] = Append(disk[p], r)
      BY <1>0, <2>1
    <3>2. disk[p] # Gone => /\ Append(disk[p], r) \in Seq(Records)
                            /\ ToSet(disk[p]) \subseteq ToSet(Append(disk[p], r))
      BY <1>0, AppendedSet
    <3> QED BY <3>1, <3>2, RedactionConstants
  <2>4. disk'[p] = Gone => disk[p] = Gone
    BY <2>3
  <2> QED BY <1>3, <2>2, <2>3, <2>4 DEF Sourced, Current
<1>12. CASE WriterReads
  <2>1. PICK q \in Listed : writing' = q /\ read' = <<disk[q], mtime[q]>>
    BY <1>12 DEF WriterReads
  <2>2. UNCHANGED <<disk, index, phase, todo, apply, handle, findings>>
    BY <1>12 DEF WriterReads
  <2>3. writing' = p => disk[p] # Gone /\ read'[1] = disk[p]
    BY <2>1 DEF Listed
  <2> QED BY <1>3, <2>2, <2>3 DEF Sourced, Current
<1>13. CASE WriterCommits
  <2>1. PICK q \in Paths : q = writing /\ read[1] \in Seq(Records) /\ Store(Current, q, read[1])
    BY <1>0, <1>13 DEF WriterCommits, WriterOK
  <2>2. writing' = Gone /\ UNCHANGED <<disk, phase, todo, apply, handle, findings>>
    BY <1>13 DEF WriterCommits
  <2>3. disk[q] # Gone /\ ToSet(read[1]) \subseteq ToSet(disk[q])
    BY <1>2, <2>1 DEF SourceInv
  <2>4. /\ Current' = Current
        /\ \A j \in 1 .. Current : Sourced(j, p) => Sourced(j, p)'
        /\ (disk[p] = Gone => \A k \in 1 .. Current : index[k][p] = Gone)'
    BY <1>0, <1>3, <2>1, <2>2, <2>3, SyncSourced, Stored
  <2> QED BY <1>0, <1>3, <1>4, <2>2, <2>4
<1>14. CASE Discard
  <2> DEFINE e == [q \in Paths |-> Gone]
  <2>1. /\ UNCHANGED <<disk, phase, todo, apply, handle, findings, writing, read>>
        /\ index' = Append(index, e) /\ phase # "open"
    BY <1>14, RedactionConstants DEF Discard, Free, LockHeld
  <2>2. Current' = Current + 1 /\ index'[Current + 1] = e
        /\ \A i \in 1 .. Current : index'[i] = index[i]
    BY <1>0, <2>1, AppendProperties DEF FilesOK, Current
  <2>3. \A i \in 1 .. Current' : i \in 1 .. Current \/ i = Current + 1
    BY <1>0, <2>2
  <2>4. e[p] = Gone
    OBVIOUS
  <2> HIDE DEF e
  <2> QED BY <1>3, <1>4, <2>1, <2>2, <2>3, <2>4 DEF Sourced
<1> QED BY <1>2, <1>5, <1>6, <1>7, <1>8, <1>9, <1>10, <1>11, <1>12, <1>13, <1>14 DEF Next

\* Every step keeps the report right.
LEMMA ReportStep ==
  ASSUME IInv, [Next]_vars, TypeOK', RowsInv', ScanInv', SourceInv'
  PROVE  ReportInv' /\ CleanReportIsClean'
<1> USE DEF redactor, writer, counters
<1>0. /\ FilesOK /\ CommandOK /\ WriterOK /\ Gone \notin Paths /\ Current \in Nat \ {0}
      /\ Current \in 1 .. Current
  BY IndexFiles, RedactionConstants DEF IInv, TypeOK
<1>1. ReportInv'
  <2>1. CASE Count
    BY <2>1 DEF Count, ReportInv
  <2>2. CASE UNCHANGED <<phase, clean, found>>
    BY <2>2 DEF IInv, ReportInv
  <2>3. CASE phase' # "done"
    BY <2>3 DEF ReportInv
  <2>4. Next => Count \/ UNCHANGED <<phase, clean, found>> \/ phase' # "done"
    BY DEF Next, Start, BeginOpen, OpenVisits, Opened, BeginScan, Inspect, Scanned, CopyFile,
           ReplaceFile, Rebuild, BeginVerify, Abort, AgentAppends, Delete, WriterReads,
           WriterCommits, Discard
  <2> QED BY <2>1, <2>2, <2>3, <2>4 DEF vars
<1>2. SUFFICES ASSUME phase' = "done", clean', NEW p \in Paths
               PROVE  index'[handle'][p] # Gone =>
                        \A r \in index'[handle'][p] : Harmless(r, Uncounted)'
  <2>1. phase' = "done" /\ clean' => \A p \in Paths :
          disk'[p] # Gone => \A r \in ToSet(disk'[p]) : Harmless(r, {"malformed"})'
    BY <1>1 DEF ReportInv, ScanInv, Visited
  <2>2. phase' = "done" /\ clean' => \A p \in Paths : index'[handle'][p] # Gone =>
          \A r \in index'[handle'][p] : Harmless(r, Uncounted)'
    BY <1>2
  <2>3. ASSUME phase' = "done", clean', NEW q \in Paths, index'[handle'][q] # Gone,
               NEW r \in index'[handle'][q], r.n <= seen', r.age = "recent", r.raw
        PROVE  deletes' > 0
    <3>1. SUFFICES ASSUME deletes' = 0 PROVE FALSE
      BY DEF SourceInv
    <3>2. Sourced(handle, q)'
      BY <2>3, <3>1 DEF SourceInv, Holding
    <3>3. disk'[q] # Gone /\ r \in ToSet(disk'[q])
      BY <2>3, <3>2 DEF Sourced
    <3>4. r.kind = "malformed"
      BY <2>1, <2>3, <3>3 DEF Harmless
    <3>5. handle' \in 1 .. Current'
      BY <2>3, IndexFiles DEF TypeOK, CommandOK
    <3> QED BY <2>3, <3>4, <3>5 DEF RowsInv
  <2>4. CleanReportIsClean'
    BY <2>1, <2>2, <2>3 DEF CleanReportIsClean, Harmless
  <2> QED BY <1>1, <2>4
<1>3. CASE Count
  <2>0. clean' = (~found /\ \A q \in Paths :
                    index[handle][q] # Gone => IndexHits(index[handle][q]) = {})
    BY <1>3 DEF Count
  <2>1. /\ ~found /\ (index[handle][p] # Gone => IndexHits(index[handle][p]) = {})
        /\ UNCHANGED <<index, handle, seen>> /\ handle \in 1 .. Current
    <3>1. UNCHANGED <<index, handle, seen>> /\ phase = "count"
      BY <1>3 DEF Count
    <3>2. handle # 0 /\ handle \in 0 .. Current
      BY <1>0, <3>1 DEF CommandOK
    <3>3. ~found /\ (index[handle][p] # Gone => IndexHits(index[handle][p]) = {})
      BY <1>2, <2>0
    <3>4. handle \in 1 .. Current
      BY <1>0, <3>2
    <3> QED BY <3>1, <3>3, <3>4
  <2>2. ASSUME index[handle][p] # Gone, NEW r \in index[handle][p], r.age = "recent", r.raw
        PROVE  r.kind \in Uncounted
    <3>1. r.kind # "malformed" /\ r.kind # "plain"
      BY <2>1, <2>2 DEF IInv, RowsInv
    <3>2. r.kind \in Texts
      BY <2>1, <2>2, IndexFiles DEF IInv, Records
    <3>3. ~(Matches(r) /\ r.kind \notin Uncounted)
      BY <2>1, <2>2 DEF IndexHits
    <3> QED BY <2>2, <3>1, <3>2, <3>3 DEF Matches, Texts, Uncounted
  <2> QED BY <2>1, <2>2 DEF Harmless
<1>4. ASSUME phase = "done", clean, index[handle][p] # Gone
      PROVE  \A r \in index[handle][p] : Harmless(r, Uncounted)
  BY <1>4 DEF IInv, CleanReportIsClean, Harmless
<1>5. CASE AgentAppends \/ Delete \/ WriterReads \/ UNCHANGED vars
  <2>1. UNCHANGED <<phase, clean, handle, seen, index>>
    BY <1>5 DEF AgentAppends, Delete, WriterReads, vars
  <2> QED BY <1>2, <1>4, <2>1 DEF Harmless
<1>6. CASE WriterCommits
  <2>1. UNCHANGED <<phase, clean, handle, seen>>
    BY <1>6 DEF WriterCommits
  <2>2. writing \in Paths /\ read[1] \in Seq(Records) /\ Store(Current, writing, read[1])
    BY <1>0, <1>6 DEF WriterCommits, WriterOK
  <2>3. handle \in 1 .. Current
    BY <1>0, <1>2, <2>1 DEF CommandOK
  <2>4. CASE handle = Current /\ writing = p
    <3>1. index'[handle][p] = Rows(read[1])
      BY <1>0, <2>2, <2>4, Stored DEF IInv
    <3>2. \A r \in ToSet(read[1]) : Harmless(r, {"malformed"})
      BY <1>2, <2>1, <2>2, <1>0 DEF IInv, ReportInv, ScanInv
    <3> QED BY <2>1, <3>1, <3>2 DEF Rows, Harmless
  <2>5. CASE ~(handle = Current /\ writing = p)
    <3>1. index'[handle][p] = index[handle][p]
      BY <1>0, <2>2, <2>3, <2>5, Stored DEF IInv
    <3> QED BY <1>2, <1>4, <2>1, <3>1 DEF Harmless
  <2> QED BY <2>4, <2>5
<1>7. CASE Discard
  <2> DEFINE e == [q \in Paths |-> Gone]
  <2>1. /\ UNCHANGED <<phase, clean, handle, seen>> /\ index' = Append(index, e)
    BY <1>7 DEF Discard
  <2>2. handle \in 1 .. Current
    BY <1>0, <1>2, <2>1 DEF CommandOK
  <2>3. index'[handle] = index[handle]
    BY <1>0, <2>1, <2>2, AppendProperties DEF FilesOK, Current
  <2> QED BY <1>2, <1>4, <2>1, <2>3 DEF Harmless
<1>8. Next => Count \/ AgentAppends \/ Delete \/ WriterReads \/ WriterCommits \/ Discard
  BY <1>2 DEF Next, Start, BeginOpen, OpenVisits, Opened, BeginScan, Inspect, Scanned, CopyFile,
              ReplaceFile, Rebuild, BeginVerify, Abort
<1> QED BY <1>3, <1>5, <1>6, <1>7, <1>8

-----------------------------------------------------------------------------
(* The theorems.                                                           *)

\* The initial states satisfy the invariant.
LEMMA InitInv == Init => IInv
<1> SUFFICES ASSUME Init PROVE IInv
  OBVIOUS
<1>1. TypeOK /\ Current = 1 /\ Gone \notin Paths
  <2>1. index = <<[p \in Paths |-> Gone]>>
    BY DEF Init
  <2>2. Len(index) = 1
    BY <2>1
  <2> QED BY <2>2, InitType, RedactionConstants DEF Current
<1>2. \A p \in Paths : disk[p] = Gone /\ index[1][p] = Gone /\ Live(p) = {}
  BY <1>1 DEF Init, Live
<1>3. LockHeld /\ ReportInv /\ CleanReportIsClean /\ ScanInv /\ SourceInv
  BY <1>1, <1>2 DEF Init, LockHeld, ReportInv, CleanReportIsClean, ScanInv, Visited, Scanning,
                    SourceInv, Holding
<1>4. StatInv
  BY <1>1, <1>2 DEF Init, StatInv
<1>5. LiveInv /\ DistinctInv /\ RowsInv
  BY <1>1, <1>2 DEF Init, LiveInv, DistinctInv, Distinct, RowsInv
<1> QED BY <1>1, <1>3, <1>4, <1>5 DEF IInv

\* Every step keeps it.
LEMMA NextInv == IInv /\ [Next]_vars => IInv'
<1> SUFFICES ASSUME IInv, [Next]_vars PROVE IInv'
  OBVIOUS
<1>1. TypeOK /\ LockHeld /\ StatInv /\ LiveInv /\ DistinctInv /\ RowsInv /\ ScanInv
      /\ SourceInv
  BY DEF IInv
<1> QED BY <1>1, LockStep, StatStep, LiveStep, RowsStep, ScanStep, SourceStep, ReportStep DEF IInv

\* The invariant holds in every reachable state.
THEOREM Invariance == Spec => []IInv
  BY InitInv, NextInv, PTL DEF Spec

\* A report without matches is right, for any transcripts and any interference.
THEOREM CleanReportIsCleanAlways == Spec => []CleanReportIsClean
<1>1. IInv => CleanReportIsClean
  BY DEF IInv
<1> QED BY <1>1, Invariance, PTL

\* What redaction removed from the index does not come back.
THEOREM PurgedSecretsStayOutAlways == Spec => []PurgedSecretsStayOut
<1>1. IInv => PurgedSecretsStayOut
  BY DEF IInv, LiveInv, Live, PurgedSecretsStayOut
<1> QED BY <1>1, Invariance, PTL

\* A transcript that syncs skip is indexed as it is, whenever a redaction died.
THEOREM ReplacedFilesAreVisitedAlways == Spec => []ReplacedFilesAreVisited
<1>1. IInv => ReplacedFilesAreVisited
  BY DEF IInv, StatInv, ReplacedFilesAreVisited, Listed
<1> QED BY <1>1, Invariance, PTL

\* What a step may do to the records of a transcript.
LEMMA RecordsKept ==
  ASSUME IInv, [Next]_vars, NEW p \in Paths, disk[p] # Gone, disk'[p] # Gone, NEW r \in ToSet(disk[p])
  PROVE  \/ r \in ToSet(disk'[p])
         \/ r.age = "recent" /\ Matches(r) /\ Redacted(r) \in ToSet(disk'[p])
         \/ phase = "replace" /\ Head(findings) = p /\ r \notin ToSet(copy)
<1>1. disk \in [Paths -> {Gone} \union Seq(Records)] /\ disk[p] \in Seq(Records) /\ copy \in Seq(Records)
  BY DEF IInv, TypeOK, FilesOK, CommandOK
<1>2. CASE UNCHANGED disk
  BY <1>2
<1>3. CASE ReplaceFile
  <2>1. disk' = [disk EXCEPT ![Head(findings)] = Scrubbed(copy)] /\ phase = "replace"
    BY <1>3 DEF ReplaceFile
  <2>2. CASE Head(findings) # p
    BY <1>1, <2>1, <2>2
  <2>3. CASE Head(findings) = p /\ r \in ToSet(copy)
    <3>1. disk'[p] = Scrubbed(copy)
      BY <1>1, <2>1, <2>3
    <3>2. PICK i \in DOMAIN copy : r = copy[i]
      BY <2>3 DEF ToSet
    <3>3. Scrubbed(copy)[i] \in ToSet(disk'[p])
      BY <1>1, <3>1, <3>2, ScrubbedRecords DEF ToSet
    <3> QED BY <1>1, <3>2, <3>3, ScrubbedRecords
  <2> QED BY <2>1, <2>2, <2>3
<1>4. CASE AgentAppends
  <2>1. PICK q \in Paths, s \in Records :
          disk' = [disk EXCEPT ![q] = IF @ = Gone THEN <<s>> ELSE Append(@, s)]
    BY <1>4, AppendLive DEF IInv
  <2>2. disk'[p] = disk[p] \/ disk'[p] = Append(disk[p], s)
    BY <1>1, <2>1
  <2> QED BY <1>1, <2>2, AppendedSet
<1>5. CASE Delete
  <2>1. PICK q \in Paths : disk' = [disk EXCEPT ![q] = Gone]
    BY <1>5 DEF Delete, Listed
  <2> QED BY <1>1, <2>1
<1>6. Next => ReplaceFile \/ AgentAppends \/ Delete \/ UNCHANGED disk
  BY DEF Next, Start, OpenVisits, Opened, BeginScan, Inspect, Scanned, CopyFile, Rebuild,
         BeginVerify, Count, Abort, WriterReads, WriterCommits, Discard
<1> QED BY <1>2, <1>3, <1>4, <1>5, <1>6 DEF vars

\* Redaction changes nothing but secrets of the window, and drops only what was
\* appended after its copy.
THEOREM OnlySecretsChangeAlways == Spec => OnlySecretsChange
<1>1. IInv /\ [Next]_vars =>
        [\A p \in Paths : disk[p] # Gone /\ disk'[p] # Gone =>
           \A r \in ToSet(disk[p]) :
             \/ r \in ToSet(disk'[p])
             \/ r.age = "recent" /\ Matches(r) /\ Redacted(r) \in ToSet(disk'[p])
             \/ phase = "replace" /\ Head(findings) = p /\ r \notin ToSet(copy)]_vars
  BY RecordsKept
<1> QED BY <1>1, Invariance, PTL DEF Spec, OnlySecretsChange
=============================================================================
