------------------------ MODULE TranscriptStore_proofs ------------------------
(***************************************************************************)
(* Proofs about TranscriptStore, for any transcripts, representations and  *)
(* changes.                                                                *)
(***************************************************************************)
EXTENDS TranscriptStore, FunctionTheorems, FiniteSetTheorems, TLAPS

\* To be a representation of the same transcript is mutual.
LEMMA SiblingsMutual ==
  ASSUME NEW p \in Paths, NEW q \in Siblings(p)
  PROVE  q \in Paths /\ p \in Siblings(q) /\ p \in Siblings(p)
  BY DEF Siblings

\* Of the representations of a transcript sync takes one.
LEMMA PreferredAlone ==
  ASSUME NEW p \in Preferred, NEW q \in Preferred, q \in Siblings(p)
  PROVE  q = p
  BY StoreConstants DEF Preferred, Shadowed, Siblings

\* The elements of a sequence are of the set it is over.
LEMMA Elements ==
  ASSUME NEW S, NEW q \in Seq(S)
  PROVE  \A i \in DOMAIN q : q[i] \in S
  OBVIOUS

\* A content is not the absence of one.
LEMMA ContentIsSome == \A c \in Contents : c # NoContent
  BY StoreConstants

\* The initial state satisfies the invariant.
LEMMA InitInv == Init => IInv
<1> SUFFICES ASSUME Init PROVE IInv OBVIOUS
<1> USE DEF Init
<1>1. Tabled
  <2>1. 0 \in 0 .. MaxChanges BY StoreConstants
  <2>2. [p \in Paths |-> NoContent] \in [Paths -> Contents \union {NoContent}] OBVIOUS
  <2> QED BY <2>1, <2>2 DEF Tabled
<1>2. SourcesInv /\ RowsInv /\ KeyInv /\ NamesInv /\ WalkInv
  BY DEF SourcesInv, RowsInv, RowsOf, KeyInv, NamesInv, WalkInv
<1>3. OneRepresentation /\ OneActivityPerChild /\ AttachedSessionsAreLinked
  BY DEF OneRepresentation, OneActivityPerChild, AttachedSessionsAreLinked, Synced
<1> QED BY <1>1, <1>2, <1>3 DEF IInv

\* The tables as they were: so is what is said of them.
LEMMA TablesKept ==
  ASSUME IInv, UNCHANGED tables
  PROVE  /\ UNCHANGED <<messages, sessions, activities, files>>
         /\ SourcesInv' /\ RowsInv' /\ KeyInv' /\ OneRepresentation' /\ OneActivityPerChild'
         /\ \A p : Taken(p)' = Taken(p)
<1>1. UNCHANGED <<messages, sessions, activities, files>> BY DEF tables
<1>2. SourcesInv' /\ KeyInv' /\ OneRepresentation' /\ OneActivityPerChild'
  BY <1>1 DEF IInv, SourcesInv, KeyInv, OneRepresentation, OneActivityPerChild
<1>3. RowsInv' BY <1>1 DEF IInv, RowsInv, RowsOf
<1>4. \A p : Taken(p)' = Taken(p) BY <1>1 DEF Taken
<1> QED BY <1>1, <1>2, <1>3, <1>4

\* Changes of the disk leave the tables alone, and no sync is quiet any more.
LEMMA ChangeStep ==
  ASSUME IInv, NEW d \in [Paths -> Contents \union {NoContent}], Change(d)
  PROVE  IInv'
<1>1. /\ UNCHANGED tables /\ UNCHANGED <<pending, walking, force, current, parsed, ids>>
      /\ disk' = d /\ quiet' = FALSE /\ changes < MaxChanges /\ changes' = changes + 1
  BY DEF Change, work
<1>2. Tabled'
  <2>1. changes' \in 0 .. MaxChanges BY <1>1, StoreConstants DEF IInv, Tabled
  <2> QED BY <1>1, <2>1, TablesKept DEF IInv, Tabled
<1>3. NamesInv'
  BY <1>1, TablesKept DEF IInv, NamesInv
<1>4. WalkInv' /\ AttachedSessionsAreLinked'
  BY <1>1 DEF IInv, WalkInv, AttachedSessionsAreLinked, Synced
<1> QED BY <1>1, <1>2, <1>3, <1>4, TablesKept DEF IInv

\* A walk lists every file it is asked for; it is quiet when these are all, or when
\* the index was up to date.
LEMMA BeginStep ==
  ASSUME IInv, NEW asked \in SUBSET Paths, NEW forced \in BOOLEAN, Walk(asked, forced)
  PROVE  IInv'
<1>1. /\ UNCHANGED tables /\ UNCHANGED <<disk, current, parsed, ids, changes>>
      /\ ~walking /\ walking' = TRUE /\ force' = forced /\ quiet' = (quiet \/ asked = Paths)
      /\ pending' = Listed \intersect asked
  BY DEF Walk
<1>2. Tabled'
  <2>1. quiet' \in BOOLEAN /\ pending' \subseteq Paths
    BY <1>1
  <2> QED BY <1>1, <2>1, TablesKept DEF IInv, Tabled
<1>3. NamesInv'
  BY <1>1 DEF IInv, NamesInv
<1>4. WalkInv'
  <2>1. Preferred' = Preferred /\ Preferred \subseteq Listed
    BY <1>1 DEF Preferred, Shadowed, Listed
  <2>2. ASSUME quiet', NEW p \in Preferred PROVE p \in pending' \/ files'[p] = disk'[p]
    <3>1. CASE asked = Paths
      BY <1>1, <2>1, <3>1 DEF Listed
    <3>2. CASE quiet
      BY <1>1, <3>2, TablesKept DEF IInv, WalkInv
    <3> QED BY <1>1, <2>2, <3>1, <3>2
  <2> QED BY <1>1, <2>1, <2>2 DEF WalkInv
<1>5. AttachedSessionsAreLinked'
  BY <1>1 DEF AttachedSessionsAreLinked, Synced
<1> QED BY <1>1, <1>2, <1>3, <1>4, <1>5, TablesKept DEF IInv

\* What is skipped needs no indexing.
LEMMA SkipStep ==
  ASSUME IInv, Skip
  PROVE  IInv'
<1>1. PICK p \in Paths : /\ walking /\ current = NoPath
                         /\ p \notin Preferred \/ (files[p] = disk[p] /\ ~force)
                         /\ pending' = pending \ {p}
  BY DEF Skip, NextListed
<1>2. UNCHANGED tables /\ UNCHANGED <<disk, walking, force, current, parsed, ids, quiet, changes>>
  BY DEF Skip
<1>3. Tabled'
  BY <1>1, <1>2, TablesKept DEF IInv, Tabled
<1>4. NamesInv'
  BY <1>1, <1>2 DEF IInv, NamesInv
<1>5. WalkInv'
  BY <1>1, <1>2, TablesKept DEF IInv, WalkInv, Preferred, Shadowed
<1>6. AttachedSessionsAreLinked'
  BY <1>1, <1>2 DEF AttachedSessionsAreLinked, Synced
<1> QED BY <1>2, <1>3, <1>4, <1>5, <1>6, TablesKept DEF IInv

\* A transcript is read as the disk has it.
LEMMA ParseStep ==
  ASSUME IInv, Parse
  PROVE  IInv'
<1>1. PICK p \in Paths : /\ walking /\ p \in pending /\ p \in Preferred
                         /\ current' = p /\ parsed' = disk[p] /\ ids' = <<>>
  BY DEF Parse, NextListed
<1>2. UNCHANGED tables /\ UNCHANGED <<disk, pending, walking, force, quiet, changes>>
  BY DEF Parse
<1>3. disk[p] \in Contents
  BY <1>1 DEF IInv, Tabled, Preferred
<1>4. Tabled'
  BY <1>2, TablesKept DEF IInv, Tabled
<1>5. Preferred' = Preferred
  BY <1>2 DEF Preferred, Shadowed
<1>6. NamesInv'
  <2>1. parsed'.records \in Seq(STRING)
    BY <1>1, <1>3, StoreConstants
  <2>2. Len(parsed'.records) \in Nat
    BY <2>1
  <2>3. /\ ids' \in Seq(STRING \X (Paths \union {NoPath}) \X Nat)
        /\ Len(ids') <= Len(parsed'.records) /\ DOMAIN ids' = {}
    BY <1>1, <2>2
  <2>4. current' # NoPath
    BY <1>1, StoreConstants
  <2> QED BY <1>1, <1>2, <1>3, <1>5, <2>3, <2>4 DEF NamesInv
<1>7. WalkInv'
  BY <1>2, <1>5, TablesKept DEF IInv, WalkInv
<1>8. AttachedSessionsAreLinked'
  BY <1>1, <1>2 DEF AttachedSessionsAreLinked, Synced
<1> QED BY <1>2, <1>4, <1>6, <1>7, <1>8, TablesKept DEF IInv

\* The name a record gets is free, and has the type of names.
LEMMA NameStep ==
  ASSUME IInv, Name
  PROVE  IInv'
<1> DEFINE IdType == STRING \X (Paths \union {NoPath}) \X Nat
<1>1. PICK n \in 0 .. Len(ids) + 1 :
        /\ Candidate(parsed.records[Len(ids) + 1], current, n) \notin NotFree(current)
        /\ ids' = Append(ids, Candidate(parsed.records[Len(ids) + 1], current, n))
  BY DEF Name
<1>2. /\ current # NoPath /\ Len(ids) < Len(parsed.records)
      /\ UNCHANGED tables /\ UNCHANGED <<disk, pending, walking, force, current, parsed, quiet, changes>>
  BY DEF Name
<1>3. PICK x : x = Candidate(parsed.records[Len(ids) + 1], current, n)
  OBVIOUS
<1>4. /\ walking /\ current \in pending /\ current \in Paths /\ parsed \in Contents
      /\ quiet => current \in Preferred /\ parsed = disk[current]
      /\ ids \in Seq(IdType)
      /\ \A i \in DOMAIN ids : ids[i] \notin Taken(current)
      /\ \A i, j \in DOMAIN ids : ids[i] = ids[j] => i = j
  BY <1>2 DEF IInv, NamesInv, Tabled
<1>5. parsed.records \in Seq(STRING)
  BY <1>4, StoreConstants
<1>6. Len(ids) \in Nat /\ Len(parsed.records) \in Nat
  BY <1>4, <1>5
<1>7. x \in IdType
  <2>1. parsed.records[Len(ids) + 1] \in STRING
    BY <1>2, <1>5, <1>6
  <2>2. n \in Nat
    BY <1>6
  <2>3. (IF n = 0 THEN NoPath ELSE current) \in Paths \union {NoPath}
    BY <1>4
  <2>4. (IF n < 2 THEN 0 ELSE n) \in Nat
    BY <2>2
  <2> QED BY <1>3, <2>1, <2>3, <2>4 DEF Candidate
<1>8. x \notin Taken(current) /\ \A i \in DOMAIN ids : ids[i] # x
  BY <1>1, <1>3 DEF NotFree, ToSet
<1> HIDE DEF IdType
<1>9. /\ ids' = Append(ids, x) /\ ids' \in Seq(IdType) /\ Len(ids') = Len(ids) + 1
      /\ DOMAIN ids' = 1 .. Len(ids) + 1
      /\ \A i \in DOMAIN ids : ids'[i] = ids[i]
      /\ ids'[Len(ids) + 1] = x /\ DOMAIN ids = 1 .. Len(ids)
  BY <1>1, <1>3, <1>4, <1>7
<1>10. \A i \in DOMAIN ids' : i \in DOMAIN ids \/ i = Len(ids) + 1
  BY <1>6, <1>9
<1>11. \A i \in DOMAIN ids' : ids'[i] \notin Taken(current)
  BY <1>4, <1>8, <1>9, <1>10
<1>12. \A i, j \in DOMAIN ids' : ids'[i] = ids'[j] => i = j
  BY <1>4, <1>8, <1>9, <1>10
<1>13. Preferred' = Preferred /\ Taken(current)' = Taken(current)
  BY <1>2, TablesKept DEF Preferred, Shadowed, Taken
<1>14. NamesInv'
  <2>1. Len(ids') <= Len(parsed'.records)
    BY <1>2, <1>6, <1>9
  <2> QED BY <1>2, <1>4, <1>9, <1>11, <1>12, <1>13, <2>1 DEF NamesInv, IdType
<1>15. Tabled' /\ WalkInv'
  BY <1>2, <1>13, TablesKept DEF IInv, Tabled, WalkInv
<1>16. AttachedSessionsAreLinked'
  BY <1>2, <1>4 DEF AttachedSessionsAreLinked, Synced
<1> QED BY <1>2, <1>14, <1>15, <1>16, TablesKept DEF IInv

\* A sync that fails leaves the tables as they are.
LEMMA FailStep ==
  ASSUME IInv, Fail
  PROVE  IInv'
<1>1. /\ walking' = FALSE /\ force' = FALSE /\ quiet' = FALSE /\ pending' = {}
      /\ current' = NoPath /\ parsed' = NoContent /\ ids' = <<>>
      /\ UNCHANGED tables /\ UNCHANGED <<disk, changes>>
  BY DEF Fail
<1>2. Tabled' /\ NamesInv' /\ WalkInv' /\ AttachedSessionsAreLinked'
  BY <1>1, TablesKept DEF IInv, Tabled, NamesInv, WalkInv, AttachedSessionsAreLinked, Synced
<1> QED BY <1>1, <1>2, TablesKept DEF IInv

\* Of what indexFile is about to replace.
LEMMA Replacing ==
  ASSUME IInv, current # NoPath
  PROVE  /\ current \in Paths /\ current \in pending /\ walking
         /\ parsed \in Contents /\ parsed # NoContent
         /\ parsed.records \in Seq(STRING) /\ ids \in Seq(STRING \X (Paths \union {NoPath}) \X Nat)
         /\ Replaced(current) = Siblings(current) /\ current \in Siblings(current)
<1>1. current \in pending /\ walking /\ parsed \in Contents
      /\ ids \in Seq(STRING \X (Paths \union {NoPath}) \X Nat)
  BY DEF IInv, NamesInv
<1>2. current \in Paths
  BY <1>1 DEF IInv, Tabled
<1>3. Replaced(current) = Siblings(current) /\ current \in Siblings(current)
  BY DEF Replaced, Siblings
<1> QED BY <1>1, <1>2, <1>3, StoreConstants, ContentIsSome

\* The messages of a transcript after its transaction are those of its records,
\* those of its other representations are gone, those of others are as they were.
LEMMA CommittedRows ==
  ASSUME IInv, IndexFile, NEW p, p = current
  PROVE  /\ RowsOf(p)' = MessageRows
         /\ \A q \in Siblings(p) : q # p => RowsOf(q)' = {}
         /\ \A q \in Paths \ Siblings(p) : RowsOf(q)' = RowsOf(q)
<1>1. \A m \in MessageRows : m.source = p
  BY DEF MessageRows
<1>2. p \in Replaced(p) /\ Replaced(p) = Siblings(p)
  BY Replacing DEF IndexFile
<1>3. messages' = {m \in messages : m.source \notin Replaced(p)} \union MessageRows
  BY DEF IndexFile, StoredRows
<1> QED BY <1>1, <1>2, <1>3 DEF RowsOf

\* The names that were given are free, so the primary key refuses none.
LEMMA NamesKeep ==
  ASSUME IInv PROVE NamesAreFree
<1> SUFFICES ASSUME current # NoPath, NEW m \in StoredRows, NEW n \in StoredRows, m.id = n.id
             PROVE  m = n
  BY DEF NamesAreFree
<1> DEFINE kept == {k \in messages : k.source \notin Replaced(current)}
<1>1. \A k \in kept : k.id \in Taken(current)
  BY Replacing DEF Taken
<1>2. /\ \A i \in DOMAIN ids : ids[i] \notin Taken(current)
      /\ \A i, j \in DOMAIN ids : ids[i] = ids[j] => i = j
  BY DEF IInv, NamesInv
<1>3. CASE m \in kept /\ n \in kept
  BY <1>3 DEF IInv, KeyInv
<1>4. ASSUME m \in MessageRows, n \in kept PROVE FALSE
  <2>1. PICK i \in DOMAIN ids : m.id = ids[i]
    BY <1>4 DEF MessageRows
  <2> QED BY <1>1, <1>2, <1>4, <2>1
<1>5. ASSUME n \in MessageRows, m \in kept PROVE FALSE
  <2>1. PICK i \in DOMAIN ids : n.id = ids[i]
    BY <1>5 DEF MessageRows
  <2> QED BY <1>1, <1>2, <1>5, <2>1
<1>6. CASE m \in MessageRows /\ n \in MessageRows
  <2>1. PICK i \in DOMAIN ids :
          m = [id |-> ids[i], source |-> current, place |-> i, record |-> parsed.records[i]]
    BY <1>6 DEF MessageRows
  <2>2. PICK j \in DOMAIN ids :
          n = [id |-> ids[j], source |-> current, place |-> j, record |-> parsed.records[j]]
    BY <1>6 DEF MessageRows
  <2>3. i = j
    BY <1>2, <2>1, <2>2
  <2> QED BY <2>1, <2>2, <2>3
<1> QED BY <1>3, <1>4, <1>5, <1>6 DEF StoredRows

\* Among the activities that a transcript leaves, no two are of one child.
LEMMA CommittedActivities ==
  ASSUME IInv, IndexFile, NEW p, p = current
  PROVE  /\ OneActivityPerChild'
         /\ \A a \in activities' : a.source \in Paths /\ a.child \in Paths \union {NoPath}
<1>0. p \in Paths /\ parsed \in Contents
  BY Replacing DEF IndexFile
<1> DEFINE marks == parsed.activities
           row(i) == [id |-> marks[i].id, source |-> p, child |-> marks[i].child]
           stays(b, i) == \A j \in DOMAIN marks : i < j => ~Displaces(marks[j], b)
           old == {b \in activities : b.source \notin Replaced(p) /\ stays(b, 0)}
           new == {row(i) : i \in {k \in DOMAIN marks : stays(row(k), k)}}
<1>1. activities' = old \union new
  BY DEF IndexFile, ActivityRows
<1>2. /\ DOMAIN marks \subseteq Nat \ {0}
      /\ \A i \in DOMAIN marks : marks[i].child \in Paths \union {NoPath}
  <2>1. marks \in Seq([id : STRING, child : Paths \union {NoPath}])
    BY <1>0, StoreConstants
  <2> HIDE DEF marks
  <2>2. \A i \in DOMAIN marks : marks[i] \in [id : STRING, child : Paths \union {NoPath}]
    BY <2>1, Elements
  <2>3. \A i \in DOMAIN marks : marks[i].child \in Paths \union {NoPath}
    BY <2>2
  <2> QED BY <2>1, <2>3
<1>3. ASSUME NEW a \in old, NEW b \in old, a.child # NoPath, a.child = b.child PROVE a = b
  BY <1>3 DEF IInv, OneActivityPerChild
<1>4. ASSUME NEW a \in old, NEW b \in new, a.child # NoPath, a.child = b.child PROVE FALSE
  <2>1. PICK i \in DOMAIN marks : b = row(i)
    BY <1>4
  <2>2. b.child = marks[i].child /\ 0 < i
    BY <1>2, <2>1
  <2>3. ~Displaces(marks[i], a)
    BY <1>4, <2>2
  <2> QED BY <1>4, <2>2, <2>3 DEF Displaces
<1>5. ASSUME NEW a \in new, NEW b \in new, a.child # NoPath, a.child = b.child PROVE a = b
  <2>1. PICK i \in DOMAIN marks : a = row(i) /\ stays(row(i), i)
    BY <1>5
  <2>2. PICK j \in DOMAIN marks : b = row(j) /\ stays(row(j), j)
    BY <1>5
  <2>3. a.child = marks[i].child /\ b.child = marks[j].child
    BY <2>1, <2>2
  <2>4. ~(i < j)
    BY <1>5, <2>1, <2>3 DEF Displaces
  <2>5. ~(j < i)
    BY <1>5, <2>2, <2>3 DEF Displaces
  <2> QED BY <1>2, <2>1, <2>2, <2>4, <2>5
<1>6. \A a \in old : a \in activities
  OBVIOUS
<1>7. \A a \in new : a.source \in Paths /\ a.child \in Paths \union {NoPath}
  <2> SUFFICES ASSUME NEW i \in DOMAIN marks
               PROVE  row(i).source \in Paths /\ row(i).child \in Paths \union {NoPath}
    OBVIOUS
  <2>1. row(i).source = p /\ row(i).child = marks[i].child
    OBVIOUS
  <2> QED BY <1>0, <1>2, <2>1
<1> HIDE DEF old, new
<1>8. OneActivityPerChild'
  BY <1>1, <1>3, <1>4, <1>5 DEF OneActivityPerChild
<1>9. \A a \in activities' : a.source \in Paths /\ a.child \in Paths \union {NoPath}
  BY <1>1, <1>6, <1>7 DEF IInv, SourcesInv
<1> QED BY <1>8, <1>9

\* The transaction keeps the invariant.
LEMMA CommitStep ==
  ASSUME IInv, IndexFile
  PROVE  IInv'
<1>0. PICK p : p = current
  OBVIOUS
<1>1. /\ p \in Paths /\ parsed \in Contents /\ parsed # NoContent /\ p \in pending /\ walking
      /\ Replaced(p) = Siblings(p) /\ p \in Siblings(p)
      /\ parsed.records \in Seq(STRING) /\ ids \in Seq(STRING \X (Paths \union {NoPath}) \X Nat)
      /\ Len(ids) = Len(parsed.records)
  BY <1>0, Replacing DEF IndexFile
<1>2. /\ sessions' = [q \in Paths |->
           IF q = p THEN parsed ELSE IF q \in Siblings(p) THEN NoContent ELSE sessions[q]]
      /\ files' = sessions'
      /\ pending' = pending \ {p} /\ UNCHANGED <<walking, force, quiet, disk, changes>>
      /\ current' = NoPath /\ parsed' = NoContent /\ ids' = <<>>
  BY <1>0, <1>1 DEF IndexFile, Stamped, IInv, Tabled
<1>3. Tabled'
  BY <1>1, <1>2 DEF IInv, Tabled
<1>4. messages' = {m \in messages : m.source \notin Siblings(p)} \union MessageRows
  BY <1>0, <1>1 DEF IndexFile, StoredRows
<1>5. \A m \in MessageRows : m.source = p
  BY <1>0 DEF MessageRows
<1>6. SourcesInv'
  BY <1>0, <1>1, <1>4, <1>5, CommittedActivities DEF IInv, SourcesInv
<1>7. OneRepresentation'
  <2> SUFFICES ASSUME NEW m \in messages', NEW n \in messages', n.source \in Siblings(m.source)
               PROVE  n.source = m.source
    BY DEF OneRepresentation
  <2>1. m.source \in Paths /\ n.source \in Paths /\ m.source \in Siblings(n.source)
    BY <1>6, SiblingsMutual DEF SourcesInv
  <2>2. CASE m \in messages /\ n \in messages
    BY <2>2 DEF IInv, OneRepresentation
  <2>3. CASE m \notin messages \/ n \notin messages
    BY <1>4, <1>5, <2>1, <2>3
  <2> QED BY <2>2, <2>3
<1>8. RowsInv'
  <2>1. /\ RowsOf(p)' = MessageRows
        /\ \A q \in Siblings(p) : q # p => RowsOf(q)' = {}
        /\ \A q \in Paths \ Siblings(p) : RowsOf(q)' = RowsOf(q)
    BY <1>0, CommittedRows
  <2> SUFFICES ASSUME NEW q \in Paths
               PROVE  /\ sessions'[q] = NoContent => RowsOf(q)' = {}
                      /\ sessions'[q] # NoContent =>
                           /\ \A m \in RowsOf(q)' : /\ m.place \in DOMAIN sessions'[q].records
                                                    /\ m.record = sessions'[q].records[m.place]
                           /\ \A m, n \in RowsOf(q)' : m.place = n.place => m = n
                           /\ \A i \in DOMAIN sessions'[q].records :
                                \E m \in RowsOf(q)' : m.place = i
    BY DEF RowsInv, RowsOf
  <2>2. CASE q = p
    <3>1. sessions'[q] = parsed
      BY <1>1, <1>2, <2>2
    <3>2. DOMAIN ids = DOMAIN parsed.records
      BY <1>1
    <3>3. \A m \in MessageRows : /\ m.place \in DOMAIN parsed.records
                                 /\ m.record = parsed.records[m.place]
      BY <3>2 DEF MessageRows
    <3>4. \A m, n \in MessageRows : m.place = n.place => m = n
      BY DEF MessageRows
    <3>5. \A i \in DOMAIN parsed.records : \E m \in MessageRows : m.place = i
      <4> TAKE i \in DOMAIN parsed.records
      <4> DEFINE m == [id |-> ids[i], source |-> current, place |-> i, record |-> parsed.records[i]]
      <4>1. m \in MessageRows
        BY <3>2 DEF MessageRows
      <4> QED BY <4>1
    <3> QED BY <1>1, <2>1, <2>2, <3>1, <3>3, <3>4, <3>5
  <2>3. CASE q # p /\ q \in Siblings(p)
    <3>1. sessions'[q] = NoContent /\ RowsOf(q)' = {}
      BY <1>2, <2>1, <2>3
    <3> QED BY <3>1
  <2>4. CASE q \notin Siblings(p)
    <3>1. sessions'[q] = sessions[q] /\ RowsOf(q)' = RowsOf(q)
      BY <1>1, <1>2, <2>1, <2>4
    <3> QED BY <3>1 DEF IInv, RowsInv
  <2> QED BY <2>2, <2>3, <2>4
<1>9. WalkInv'
  <2>1. Preferred' = Preferred
    BY <1>2 DEF Preferred, Shadowed
  <2>2. ASSUME quiet, NEW q \in Preferred PROVE q \in pending' \/ files'[q] = disk'[q]
    <3>1. q \in Paths /\ p \in Preferred /\ parsed = disk[p]
      BY <1>0, <2>2 DEF Preferred, IndexFile, IInv, NamesInv
    <3>2. CASE q = p
      BY <1>2, <3>1, <3>2
    <3>3. CASE q # p
      <4>1. q \notin Siblings(p)
        BY <3>1, <3>3, PreferredAlone
      <4>2. files'[q] = files[q]
        BY <1>2, <3>1, <3>3, <4>1 DEF IInv, Tabled
      <4> QED BY <1>2, <2>2, <3>3, <4>2 DEF IInv, WalkInv
    <3> QED BY <3>2, <3>3
  <2> QED BY <1>1, <1>2, <2>1, <2>2 DEF WalkInv
<1>10. OneActivityPerChild'
  BY <1>0, CommittedActivities
<1>11. AttachedSessionsAreLinked'
  BY <1>1, <1>2 DEF AttachedSessionsAreLinked, Synced
<1>12. KeyInv'
  BY DEF IndexFile, KeyInv
<1>13. NamesInv'
  BY <1>2 DEF NamesInv
<1> QED BY <1>3, <1>6, <1>7, <1>8, <1>9, <1>10, <1>11, <1>12, <1>13 DEF IInv

\* The reconciliation adds activities of children that have none.
LEMMA EndStep ==
  ASSUME IInv, EndSync
  PROVE  IInv'
<1>1. PICK new \in SUBSET AttachedRows :
        /\ \A a \in AttachedRows : \E b \in activities \union new : b.id = a.id
        /\ activities' = activities \union new
  BY DEF EndSync, Reconcile
<1>2. /\ UNCHANGED <<disk, messages, sessions, files, pending, current, parsed, ids, quiet, changes>>
      /\ walking' = FALSE /\ force' = FALSE /\ pending = {}
  BY DEF EndSync
<1>3. Tabled' /\ OneRepresentation' /\ KeyInv' /\ NamesInv'
  BY <1>2 DEF IInv, Tabled, OneRepresentation, KeyInv, NamesInv
<1>4. RowsInv'
  BY <1>2 DEF IInv, RowsInv, RowsOf
<1>5. WalkInv'
  BY <1>2 DEF IInv, WalkInv, Preferred, Shadowed
<1>6. \A a \in AttachedRows : /\ a = [id |-> sessions[a.child].session, source |-> a.child, child |-> a.child]
                              /\ a.child \in Paths
                              /\ \A b \in activities : b.child # a.child
  BY DEF AttachedRows
<1>9. SourcesInv'
  <2>1. \A a \in new : a.source \in Paths /\ a.child \in Paths
    BY <1>6
  <2> QED BY <1>1, <1>2, <2>1 DEF IInv, SourcesInv
<1>7. OneActivityPerChild'
  BY <1>1, <1>6 DEF IInv, OneActivityPerChild
<1>8. AttachedSessionsAreLinked'
  <2> SUFFICES ASSUME NEW p \in Paths, sessions[p] # NoContent, sessions[p].attached
               PROVE  \E a \in activities' : a.child = p \/ a.id = sessions[p].session
    BY <1>2 DEF AttachedSessionsAreLinked
  <2>1. CASE \E a \in activities : a.child = p
    BY <1>1, <2>1
  <2>2. CASE \A a \in activities : a.child # p
    <3> DEFINE a == [id |-> sessions[p].session, source |-> p, child |-> p]
    <3>1. a \in AttachedRows
      BY <2>2 DEF AttachedRows
    <3>2. PICK b \in activities \union new : b.id = a.id
      BY <1>1, <3>1
    <3> QED BY <1>1, <3>2
  <2> QED BY <2>1, <2>2
<1> QED BY <1>3, <1>4, <1>5, <1>7, <1>8, <1>9 DEF IInv

\* Every step keeps the invariant.
LEMMA NextInv == IInv /\ [Next]_vars => IInv'
<1> SUFFICES ASSUME IInv, [Next]_vars PROVE IInv'
  OBVIOUS
<1>0. disk \in [Paths -> Contents \union {NoContent}]
  BY DEF IInv, Tabled
<1>1. CASE Write
  <2>1. PICK p \in Paths, c \in Contents : Change([disk EXCEPT ![p] = c])
    BY <1>1 DEF Write
  <2>2. [disk EXCEPT ![p] = c] \in [Paths -> Contents \union {NoContent}]
    BY <1>0
  <2> QED BY <2>1, <2>2, ChangeStep
<1>2. CASE Represent
  <2>1. PICK p \in Paths : \E q \in Siblings(p) : Change([disk EXCEPT ![q] = disk[p]])
    BY <1>2 DEF Represent
  <2>2. PICK q \in Siblings(p) : Change([disk EXCEPT ![q] = disk[p]])
    BY <2>1
  <2>3. [disk EXCEPT ![q] = disk[p]] \in [Paths -> Contents \union {NoContent}]
    BY <1>0
  <2> QED BY <2>2, <2>3, ChangeStep
<1>3. CASE Delete
  <2>1. PICK p \in Paths : Change([disk EXCEPT ![p] = NoContent])
    BY <1>3 DEF Delete
  <2>2. [disk EXCEPT ![p] = NoContent] \in [Paths -> Contents \union {NoContent}]
    BY <1>0
  <2> QED BY <2>1, <2>2, ChangeStep
<1>4. CASE UNCHANGED vars
  <2>1. /\ UNCHANGED tables
        /\ UNCHANGED <<disk, pending, walking, force, current, parsed, ids, quiet, changes>>
    BY <1>4 DEF vars, work
  <2>2. Preferred' = Preferred
    BY <2>1 DEF Preferred, Shadowed
  <2>3. Tabled' /\ WalkInv' /\ NamesInv'
    BY <2>1, <2>2, TablesKept DEF IInv, Tabled, WalkInv, NamesInv
  <2>4. AttachedSessionsAreLinked'
    BY <2>1, TablesKept DEF IInv, AttachedSessionsAreLinked, Synced
  <2> QED BY <2>1, <2>3, <2>4, TablesKept DEF IInv
<1>5. CASE BeginSync \/ BeginRebuild
  <2>1. PICK asked \in SUBSET Paths, forced \in BOOLEAN : Walk(asked, forced)
    BY <1>5 DEF BeginSync, BeginRebuild
  <2> QED BY <2>1, BeginStep
<1> QED BY <1>1, <1>2, <1>3, <1>4, <1>5, SkipStep, ParseStep, NameStep, CommitStep, FailStep,
           EndStep DEF Next

\* The inductive invariant holds in every reachable state.
THEOREM Invariance == Spec => []IInv
  BY InitInv, NextInv, PTL DEF Spec

\* ensureUniqueMessageIDs, which looks at the table before the transaction, names
\* records so that the primary keys of messages and message_projections never
\* refuse one: a sync does not fail on transcripts that share or repeat ids.
THEOREM NamesAreFreeAlways == Spec => []NamesAreFree
<1>1. IInv => NamesAreFree
  BY NamesKeep
<1> QED BY <1>1, Invariance, PTL

\* The tables are well typed, their ids keys, and what a transcript has in one
\* table it has in the others.
THEOREM TypeCorrect == Spec => []TypeOK
<1>1. ASSUME IInv PROVE TypeOK
  <2>1. /\ disk \in [Paths -> Contents \union {NoContent}]
        /\ sessions \in [Paths -> Contents \union {NoContent}]
        /\ files = sessions /\ pending \subseteq Paths
        /\ walking \in BOOLEAN /\ force \in BOOLEAN /\ quiet \in BOOLEAN /\ changes \in 0 .. MaxChanges
    BY <1>1 DEF IInv, Tabled
  <2>2. /\ \A m \in messages : m.source \in Paths
        /\ \A a \in activities : a.source \in Paths /\ a.child \in Paths \union {NoPath}
        /\ \A m, n \in messages : m.id = n.id => m = n
    BY <1>1 DEF IInv, SourcesInv, KeyInv
  <2>3. \A m \in messages : sessions[m.source] # NoContent
    BY <1>1, <2>2 DEF IInv, RowsInv, RowsOf
  <2>4. current \in Paths \union {NoPath} /\ parsed \in Contents \union {NoContent}
    BY <1>1, Replacing DEF IInv, NamesInv
  <2>5. NamesAreFree
    BY <1>1, NamesKeep
  <2> QED BY <2>1, <2>2, <2>3, <2>4, <2>5 DEF TypeOK
<1> QED BY <1>1, Invariance, PTL

\* deleteTranscriptRows of every representation: a transcript is never indexed
\* twice under its two names.
THEOREM OneRepresentationAlways == Spec => []OneRepresentation
<1>1. IInv => OneRepresentation
  BY DEF IInv
<1> QED BY <1>1, Invariance, PTL

\* The activities stored and reconciled: a child session has one at most.
THEOREM OneActivityPerChildAlways == Spec => []OneActivityPerChild
<1>1. IInv => OneActivityPerChild
  BY DEF IInv
<1> QED BY <1>1, Invariance, PTL

\* reconcileAttachedActivities: after a sync each attached session is related to an
\* activity.
THEOREM AttachedSessionsAreLinkedAlways == Spec => []AttachedSessionsAreLinked
<1>1. IInv => AttachedSessionsAreLinked
  BY DEF IInv
<1> QED BY <1>1, Invariance, PTL

\* Rows with distinct places from 1 to n are n.
LEMMA CountedByPlace ==
  ASSUME NEW n \in Nat, NEW R, \A m \in R : m.place \in 1 .. n,
         \A m, k \in R : m.place = k.place => m = k,
         \A i \in 1 .. n : \E m \in R : m.place = i
  PROVE  Cardinality(R) = n
<1> DEFINE f == [i \in 1 .. n |-> CHOOSE m \in R : m.place = i]
<1>1. \A i \in 1 .. n : f[i] \in R /\ f[i].place = i
  OBVIOUS
<1>2. f \in Bijection(1 .. n, R)
  <2>1. f \in [1 .. n -> R]
    BY <1>1
  <2>2. \A i, j \in 1 .. n : f[i] = f[j] => i = j
    BY <1>1
  <2>3. \A m \in R : \E i \in 1 .. n : f[i] = m
    BY <1>1
  <2> HIDE DEF f
  <2> QED BY <2>1, <2>2, <2>3 DEF Bijection, Injection, Surjection, IsInjective
<1>3. IsFiniteSet(1 .. n) /\ Cardinality(1 .. n) = n
  BY FS_Interval
<1> QED BY <1>2, <1>3, FS_Bijection DEF ExistsBijection

\* A sync of an unchanged disk leaves each record of each transcript in one message,
\* whatever sync found in the index and however ids collide.
THEOREM EveryRecordIsAMessageAlways == Spec => []EveryRecordIsAMessage
<1>1. ASSUME IInv PROVE EveryRecordIsAMessage
  <2> SUFFICES ASSUME Synced, NEW p \in Preferred
               PROVE  /\ sessions[p] = disk[p]
                      /\ Cardinality(RowsOf(p)) = Len(disk[p].records)
                      /\ \A i \in 1 .. Len(disk[p].records) :
                           \E m \in RowsOf(p) : m.place = i /\ m.record = disk[p].records[i]
    BY DEF EveryRecordIsAMessage, RowsOf
  <2>1. p \in Paths /\ disk[p] # NoContent /\ disk[p] \in Contents
    BY <1>1 DEF IInv, Tabled, Preferred
  <2>2. sessions[p] = disk[p]
    BY <1>1 DEF IInv, Tabled, WalkInv, Synced
  <2>3. Len(disk[p].records) \in Nat /\ DOMAIN disk[p].records = 1 .. Len(disk[p].records)
    BY <2>1, StoreConstants
  <2>4. /\ \A m \in RowsOf(p) : /\ m.place \in DOMAIN disk[p].records
                                /\ m.record = disk[p].records[m.place]
        /\ \A m, n \in RowsOf(p) : m.place = n.place => m = n
        /\ \A i \in DOMAIN disk[p].records : \E m \in RowsOf(p) : m.place = i
    BY <1>1, <2>1, <2>2 DEF IInv, RowsInv
  <2> HIDE DEF RowsOf
  <2>5. Cardinality(RowsOf(p)) = Len(disk[p].records)
    BY <2>3, <2>4, CountedByPlace
  <2> QED BY <2>2, <2>3, <2>4, <2>5
<1> QED BY <1>1, Invariance, PTL
=============================================================================
