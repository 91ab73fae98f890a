--------------------------- MODULE TranscriptStore ---------------------------
(***************************************************************************)
(* What one writer leaves in the index: the walk of sync, the replacement  *)
(* transaction of indexFile with the helpers it calls, and the             *)
(* reconciliation of attached sessions (internal/index/index.go).          *)
(*                                                                         *)
(* A transcript is the sequence of its record ids, its session header and  *)
(* the activities it marks.  Its path is plain (.jsonl) or compressed      *)
(* (.jsonl.zst); two paths that differ in that only are siblings.  One     *)
(* writer runs at a time and a file does not change between its stat and   *)
(* its read: RefreshProtocol covers both.  Two contents have different     *)
(* stats.  A message id is the record's own, the suffix and the number.    *)
(***************************************************************************)
EXTENDS Naturals, Sequences, FiniteSets, SequencesExt

CONSTANTS
  Paths,       \* transcript paths
  Rank,        \* Rank[p]: the place of p in the lexical order of the walk
  PlainOf,     \* PlainOf[p]: the plain sibling of a compressed path, or NoPath
  Contents,    \* transcripts that may be written
  MaxChanges,  \* bound on the changes of the disk
  NoPath, NoContent

ASSUME StoreConstants ==
  /\ NoPath \notin Paths
  /\ NoContent \notin Contents
  /\ Rank \in [Paths -> Nat]
  /\ \A p, q \in Paths : Rank[p] = Rank[q] => p = q
  /\ PlainOf \in [Paths -> Paths \union {NoPath}]
  /\ \A p \in Paths : PlainOf[p] # NoPath => PlainOf[PlainOf[p]] = NoPath
  /\ \A c \in Contents : c.records \in Seq(STRING)
  /\ \A c \in Contents : c.activities \in Seq([id : STRING, child : Paths \union {NoPath}])
  /\ MaxChanges \in Nat

VARIABLES
  disk,        \* disk[p]: the content of the file, or NoContent
  messages,    \* table messages: rows [id, source, place, record]
  sessions,    \* sessions[p]: the session header of source p, or NoContent
  activities,  \* table activities: rows [id, source, child]
  files,       \* files[p]: what the table recorded of p, or NoContent
  pending,     \* paths listed by the walk and not visited yet
  walking,     \* a sync is running
  force,       \* it indexes what it lists though it be unchanged
  current,     \* the path that indexFile replaces, or NoPath
  parsed,      \* what it has read there, or NoContent
  ids,         \* the ids it has given to the first of these records
  quiet,       \* history: all was walked, and the disk is as it was when that began
  changes      \* changes of the disk so far

tables == <<messages, sessions, activities, files>>
work == <<pending, walking, force, current, parsed, ids>>
vars == <<disk, tables, work, quiet, changes>>

\* transcriptSiblings: a path and its other representation.
Siblings(p) == {p} \union {q \in Paths : PlainOf[p] = q \/ PlainOf[q] = p}

\* deleteTranscriptRows: the rows of every representation of the transcript go,
\* its messages, its session, its activities and its entry in files.
ReplacedAlone(p) == {p}   \* mutant: those of the sibling stay
Replaced(p) == Siblings(p)

\* The file that sync takes for a transcript: a compressed one does not count
\* where its plain sibling exists.
Shadowed(p) == PlainOf[p] # NoPath /\ disk[PlainOf[p]] # NoContent
Preferred == {p \in Paths : disk[p] # NoContent /\ ~Shadowed(p)}

Init ==
  /\ disk = [p \in Paths |-> NoContent]
  /\ messages = {}
  /\ sessions = [p \in Paths |-> NoContent]
  /\ activities = {}
  /\ files = [p \in Paths |-> NoContent]
  /\ pending = {}
  /\ walking = FALSE /\ force = FALSE
  /\ current = NoPath /\ parsed = NoContent /\ ids = <<>>
  /\ quiet = FALSE
  /\ changes = 0

-----------------------------------------------------------------------------
(* Message ids.                                                            *)

\* ensureUniqueMessageIDs: the record's own id, then with the path's suffix,
\* then numbered.
Candidate(record, p, n) == <<record, IF n = 0 THEN NoPath ELSE p, IF n < 2 THEN 0 ELSE n>>

\* Ids that rows of other transcripts hold; those of siblings are replaced.
Taken(p) == {m.id : m \in {row \in messages : row.source \notin Siblings(p)}}

\* The next record of the transcript gets the first candidate that is free.
FreeOfRows(p) == Taken(p)   \* mutant: two records of the transcript may share an id
NotFree(p) == Taken(p) \union ToSet(ids)
Name ==
  LET record == parsed.records[Len(ids) + 1]
      candidate(n) == Candidate(record, current, n)
  IN /\ current # NoPath
     /\ Len(ids) < Len(parsed.records)
     /\ \E n \in 0 .. Len(ids) + 1 :
          /\ candidate(n) \notin NotFree(current)
          /\ \A k \in 0 .. n - 1 : candidate(k) \in NotFree(current)
          /\ ids' = Append(ids, candidate(n))
     /\ UNCHANGED <<disk, tables, pending, walking, force, current, parsed, quiet, changes>>

MessageRowsOfNewIds ==   \* mutant: a record whose id is in use is ignored
  {[id |-> ids[i], source |-> current, place |-> i, record |-> parsed.records[i]] :
     i \in {j \in DOMAIN ids : ids[j] = Candidate(parsed.records[j], current, 0)}}
MessageRows ==
  {[id |-> ids[i], source |-> current, place |-> i, record |-> parsed.records[i]] : i \in DOMAIN ids}

-----------------------------------------------------------------------------
(* Activities.                                                             *)

\* An activity that is stored displaces the others of its child session, and the
\* row that another source may have under its id.
DisplacesIds(a, b) == b.id = a.id   \* mutant: those of its child stay
Displaces(a, b) == b.id = a.id \/ (a.child # NoPath /\ b.child = a.child)

\* The activities a transcript marks, stored in the order aggregateActivities sorts
\* them in, on top of those of the other sources: what none after it displaces stays.
ActivityRows(p, c) ==
  LET marks == c.activities
      row(i) == [id |-> marks[i].id, source |-> p, child |-> marks[i].child]
      stays(b, i) == \A j \in DOMAIN marks : i < j => ~Displaces(marks[j], b)
  IN {b \in activities : b.source \notin Replaced(p) /\ stays(b, 0)}
       \union {row(i) : i \in {k \in DOMAIN marks : stays(row(k), k)}}

\* reconcileAttachedActivities: an attached session that no activity has for
\* its child gets one under its session id, unless that id is in use.
AttachedRowsOfSilent ==   \* mutant: not when its own transcript marks activities
  {[id |-> sessions[p].session, source |-> p, child |-> p] :
     p \in {q \in Paths : /\ sessions[q] # NoContent
                          /\ sessions[q].attached
                          /\ \A a \in activities : a.source # q}}
AttachedRows ==
  {[id |-> sessions[p].session, source |-> p, child |-> p] :
     p \in {q \in Paths : /\ sessions[q] # NoContent
                          /\ sessions[q].attached
                          /\ \A a \in activities : a.child # q}}
Reconcile ==
  \E new \in SUBSET AttachedRows :
    /\ \A a, b \in new : a.id = b.id => a = b
    /\ \A a \in AttachedRows : \E b \in activities \union new : b.id = a.id
    /\ \A a \in new : \A b \in activities : b.id # a.id
    /\ activities' = activities \union new

-----------------------------------------------------------------------------
(* The writer.                                                             *)

\* WalkDir lists the root, and sync goes through the files it is asked for.
Listed == {p \in Paths : disk[p] # NoContent}
Walk(asked, forced) ==
  /\ ~walking
  /\ walking' = TRUE /\ force' = forced
  /\ pending' = Listed \intersect asked
  /\ quiet' = (quiet \/ asked = Paths)
  /\ UNCHANGED <<disk, tables, current, parsed, ids, changes>>

BeginSync == Walk(Paths, FALSE)

\* Rebuild: all transcripts, or those of the session it is given; the two
\* representations of a transcript have one session name.
BeginRebuild ==
  \E asked \in SUBSET Paths :
    /\ \A p \in asked : Siblings(p) \subseteq asked
    /\ Walk(asked, TRUE)

\* The next listed file is skipped when a plain sibling exists, when it vanished
\* or, in a sync that is not forced, when its stat is the recorded one ...
NextListed(p) == walking /\ current = NoPath /\ p \in pending /\ \A q \in pending : Rank[p] <= Rank[q]
Skip ==
  \E p \in Paths :
    /\ NextListed(p)
    /\ p \notin Preferred \/ (files[p] = disk[p] /\ ~force)
    /\ pending' = pending \ {p}
    /\ UNCHANGED <<disk, tables, walking, force, current, parsed, ids, quiet, changes>>

\* ... and read by indexFile otherwise.
Parse ==
  \E p \in Paths :
    /\ NextListed(p)
    /\ p \in Preferred
    /\ files[p] # disk[p] \/ force
    /\ current' = p /\ parsed' = disk[p] /\ ids' = <<>>
    /\ UNCHANGED <<disk, tables, pending, walking, force, quiet, changes>>

\* The entry of p in files, which replaces those of its representations.
Stamped(p) ==
  [q \in Paths |-> IF q = p THEN parsed ELSE IF q \in Replaced(p) THEN NoContent ELSE files[q]]

\* The messages of the other transcripts and those that indexFile has named.
StoredRows == {m \in messages : m.source \notin Replaced(current)} \union MessageRows

\* indexFile: one transaction, once all records have their ids.  An id that is in
\* use is refused by the primary key of message_projections.
IndexFile ==
  /\ current # NoPath
  /\ Len(ids) = Len(parsed.records)
  /\ \A m, n \in StoredRows : m.id = n.id => m = n
  /\ messages' = StoredRows
  /\ sessions' = [q \in Paths |->
       IF q = current THEN parsed ELSE IF q \in Replaced(current) THEN NoContent ELSE sessions[q]]
  /\ activities' = ActivityRows(current, parsed)
  /\ files' = Stamped(current)
  /\ pending' = pending \ {current}
  /\ current' = NoPath /\ parsed' = NoContent /\ ids' = <<>>
  /\ UNCHANGED <<disk, walking, force, quiet, changes>>

\* An error of a file or of a statement, or the death of the process, ends the
\* sync; the transaction it is in leaves nothing.
Fail ==
  /\ walking
  /\ walking' = FALSE /\ force' = FALSE /\ quiet' = FALSE /\ pending' = {}
  /\ current' = NoPath /\ parsed' = NoContent /\ ids' = <<>>
  /\ UNCHANGED <<disk, tables, changes>>

EndSync ==
  /\ walking
  /\ pending = {}
  /\ Reconcile
  /\ walking' = FALSE /\ force' = FALSE
  /\ UNCHANGED <<disk, messages, sessions, files, pending, current, parsed, ids, quiet, changes>>

-----------------------------------------------------------------------------
(* The environment.                                                        *)

Change(new) ==
  /\ changes < MaxChanges
  /\ changes' = changes + 1
  /\ disk' = new
  /\ quiet' = FALSE
  /\ UNCHANGED <<tables, work>>

\* A plain transcript is created, appended to or rewritten.
Write ==
  \E p \in Paths, c \in Contents :
    /\ PlainOf[p] = NoPath
    /\ disk[p] # c
    /\ Change([disk EXCEPT ![p] = c])

\* Codex compresses a cold rollout, or decompresses one it resumes; at first
\* there are both.
Represent ==
  \E p \in Paths : \E q \in Siblings(p) \ {p} :
    /\ disk[p] # NoContent
    /\ disk[q] # disk[p]
    /\ Change([disk EXCEPT ![q] = disk[p]])

\* The other representation goes, or the transcript does.
Delete ==
  \E p \in Paths :
    /\ disk[p] # NoContent
    /\ Change([disk EXCEPT ![p] = NoContent])

Next ==
  \/ BeginSync \/ BeginRebuild \/ Skip \/ Parse \/ Name \/ IndexFile \/ EndSync \/ Fail
  \/ Write \/ Represent \/ Delete

Spec == Init /\ [][Next]_vars

-----------------------------------------------------------------------------
(* Properties.                                                             *)

\* A sync of all transcripts is over, and the disk is as it was when it began;
\* rebuilds may have followed.
Synced == quiet /\ ~walking

\* The primary key never refuses a transcript: ensureUniqueMessageIDs, which looks
\* ids up before the transaction, gives none that another transcript has, whatever
\* rows of this one are to be replaced, and none twice.
NamesAreFree ==
  current # NoPath => \A m, n \in StoredRows : m.id = n.id => m = n

\* Types, and what the keys of the tables ask: no message id twice, now or after
\* the transaction at hand, and no source that has rows in one table and is
\* missing in another.
TypeOK ==
  /\ disk \in [Paths -> Contents \union {NoContent}]
  /\ sessions \in [Paths -> Contents \union {NoContent}]
  /\ files \in [Paths -> Contents \union {NoContent}]
  /\ \A m \in messages : m.source \in Paths
  /\ \A a \in activities : a.source \in Paths /\ a.child \in Paths \union {NoPath}
  /\ pending \subseteq Paths
  /\ walking \in BOOLEAN /\ force \in BOOLEAN /\ quiet \in BOOLEAN
  /\ current \in Paths \union {NoPath} /\ parsed \in Contents \union {NoContent}
  /\ changes \in 0 .. MaxChanges
  /\ \A m, n \in messages : m.id = n.id => m = n
  /\ NamesAreFree
  /\ \A m \in messages : sessions[m.source] # NoContent
  /\ files = sessions

\* After a sync of an unchanged disk every record of every transcript is a
\* message exactly once, whatever ids the transcripts share, in whatever order
\* they came and went, and however often they changed representation.
EveryRecordIsAMessage ==
  Synced =>
    \A p \in Preferred :
      /\ sessions[p] = disk[p]
      /\ LET rows == {m \in messages : m.source = p}
         IN /\ Cardinality(rows) = Len(disk[p].records)
            /\ \A i \in 1 .. Len(disk[p].records) :
                 \E m \in rows : m.place = i /\ m.record = disk[p].records[i]

\* A transcript is never indexed twice under its two names, at no moment of a
\* walk that meets both.
OneRepresentation ==
  \A m, n \in messages : n.source \in Siblings(m.source) => n.source = m.source

\* A child session has one activity, though several transcripts, or several
\* activities of one, may claim it.
OneActivityPerChild ==
  \A a, b \in activities : a.child # NoPath /\ a.child = b.child => a = b

\* After a sync each attached session is related to an activity: by its path,
\* or under its session id.  The reads join on the path: where the id was in use,
\* by an activity of another child, they do not find the session.
AttachedSessionsAreLinked ==
  Synced =>
    \A p \in Paths : sessions[p] # NoContent /\ sessions[p].attached =>
      \E a \in activities : a.child = p \/ a.id = sessions[p].session

\* index.go 729-732, "collisions get a stable source-path suffix so reindexing
\* produces the same public id": a transcript that is indexed again, as it was or
\* appended to, keeps the ids of its messages.
PublicIdsAreStable ==
  [][\A m \in messages, n \in messages' :
       /\ m.source = n.source
       /\ m.place = n.place
       /\ IsPrefix(sessions[m.source].records, sessions'[m.source].records)
       => m.id = n.id]_vars

-----------------------------------------------------------------------------
(* The inductive invariant of TranscriptStore_proofs.                      *)

Tabled ==
  /\ disk \in [Paths -> Contents \union {NoContent}]
  /\ sessions \in [Paths -> Contents \union {NoContent}]
  /\ files = sessions
  /\ pending \subseteq Paths
  /\ walking \in BOOLEAN /\ force \in BOOLEAN /\ quiet \in BOOLEAN
  /\ changes \in 0 .. MaxChanges

SourcesInv ==
  /\ \A m \in messages : m.source \in Paths
  /\ \A a \in activities : a.source \in Paths /\ a.child \in Paths \union {NoPath}

\* The messages of a source are the records of what was indexed of it, one each.
RowsOf(p) == {m \in messages : m.source = p}
RowsInv ==
  \A p \in Paths :
    /\ sessions[p] = NoContent => RowsOf(p) = {}
    /\ sessions[p] # NoContent =>
         /\ \A m \in RowsOf(p) : /\ m.place \in DOMAIN sessions[p].records
                               /\ m.record = sessions[p].records[m.place]
         /\ \A m, n \in RowsOf(p) : m.place = n.place => m = n
         /\ \A i \in DOMAIN sessions[p].records : \E m \in RowsOf(p) : m.place = i

\* Message ids are a key.
KeyInv == \A m, n \in messages : m.id = n.id => m = n

\* The ids given so far are free: none is in use, and none twice.
NamesInv ==
  IF current = NoPath THEN parsed = NoContent /\ ids = <<>>
  ELSE /\ walking /\ current \in pending
       /\ parsed \in Contents
       /\ quiet => current \in Preferred /\ parsed = disk[current]
       /\ ids \in Seq(STRING \X (Paths \union {NoPath}) \X Nat)
       /\ Len(ids) <= Len(parsed.records)
       /\ \A i \in DOMAIN ids : ids[i] \notin Taken(current)
       /\ \A i, j \in DOMAIN ids : ids[i] = ids[j] => i = j

\* What the walk has passed is indexed as it is.
WalkInv ==
  /\ ~walking => pending = {}
  /\ quiet => \A p \in Preferred : p \in pending \/ files[p] = disk[p]

IInv ==
  /\ Tabled /\ SourcesInv /\ RowsInv /\ KeyInv /\ NamesInv /\ WalkInv
  /\ OneRepresentation /\ OneActivityPerChild /\ AttachedSessionsAreLinked
=============================================================================
