------------------------------ MODULE Redaction ------------------------------
(***************************************************************************)
(* The command redact (runRedact in internal/cli/cli.go, internal/redact): *)
(* it scans the transcripts, replaces those with likely secrets in the     *)
(* window, rebuilds their sessions in the index and verifies both, while   *)
(* agents append to the transcripts and other processes sync the index.    *)
(*                                                                         *)
(* A record has a serial number n, an age relative to Since, a kind of     *)
(* text, and raw says whether a secret in it is still legible.  Kinds:     *)
(*   "token"      found in any string, and indexed as message content; its *)
(*                replacement is not found again                           *)
(*   "aside"      a token that the index keeps elsewhere: in the activity  *)
(*                of a marker (title, description, summary), or escaped in *)
(*                the JSON of a tool call, where content does not show it  *)
(*   "url"        found in any string; basic_auth_url finds its            *)
(*                replacement again                                        *)
(*   "field"      the value of a key such as password: found in the JSON   *)
(*                of a transcript and not in indexed text; its replacement *)
(*                is long enough to be found again                         *)
(*   "malformed"  a line that is not JSON: copied as it is, not indexed    *)
(*   "plain"      everything else, opaque payloads and signatures included *)
(* Ages: "recent" is in the window; "edge" is before Since and in the same *)
(* millisecond, which is all the index keeps; "old" is earlier, or a       *)
(* record without timestamp.  A line holds one JSON value: inspectFile     *)
(* decodes the first, and would drop what follows it on a line it scrubs.  *)
(*                                                                         *)
(* A crash and an error end the command alike (Abort): the deferred calls  *)
(* release what the kernel would.  A file of the walk is indexed in one    *)
(* step here; RefreshProtocol has the steps in between.                    *)
(***************************************************************************)
EXTENDS Naturals, Sequences, SequencesExt

CONSTANTS
  Paths,       \* transcripts
  Kinds,       \* pairs <<age, kind>> that agents write
  MaxRuns,     \* bound on the runs of the command
  MaxRecords,  \* bound on the records written
  MaxDeletes,  \* bound on removed transcripts
  MaxFaults,   \* bound on crashes and errors of the redaction
  MaxDiscards, \* bound on index files replaced by a new one
  Gone,        \* no such file, or a file the index has no rows of
  Nobody, Redactor, Writer

Ages == {"old", "edge", "recent"}
Texts == {"plain", "token", "aside", "url", "field", "malformed"}
Records == [n : Nat, age : Ages, kind : Texts, raw : BOOLEAN]

ASSUME RedactionConstants ==
  /\ Kinds \subseteq Ages \X Texts
  /\ {MaxRuns, MaxRecords, MaxDeletes, MaxFaults, MaxDiscards} \subseteq Nat
  /\ Gone \notin Paths /\ Gone \notin Seq(Records)
  /\ Nobody # Redactor /\ Nobody # Writer /\ Redactor # Writer

VARIABLES
  disk,      \* disk[p]: the records of a transcript, or Gone
  mtime,     \* mtime[p]: changes of the file so far, its stat
  index,     \* the index files so far, the last is the current one; each maps a path to its set of rows
  stat,      \* table files of the current index: the stat indexed
  lock,      \* holder of the lifecycle lock
  phase,     \* the command's place
  apply,     \* it has --apply
  todo,      \* files of its walk not visited yet
  findings,  \* files with matches, in the order of the walk
  copy,      \* what RedactFile has read of the file it is about to replace
  handle,    \* the index file it has open
  found,     \* its last scan has met a match
  clean,     \* what its report says: neither remaining nor index matches
  seen,      \* history: records written when its last scan began
  writing,   \* a sync by another process: the file it has read, or Gone
  read,      \* and what it read
  runs, written, deletes, faults,
  purged     \* history: records whose secret was removed from the index

redactor == <<phase, apply, todo, findings, copy, handle, found, clean, seen>>
writer == <<writing, read>>
counters == <<runs, written, deletes, faults>>
vars == <<disk, mtime, index, stat, lock, redactor, writer, counters, purged>>

Init ==
  /\ disk = [p \in Paths |-> Gone]
  /\ mtime = [p \in Paths |-> 0]
  /\ index = <<[p \in Paths |-> Gone]>>
  /\ stat = [p \in Paths |-> 0]
  /\ lock = Nobody
  /\ phase = "idle" /\ apply = FALSE
  /\ todo = {} /\ findings = <<>> /\ copy = <<>> /\ handle = 0
  /\ found = FALSE /\ clean = FALSE /\ seen = 0
  /\ writing = Gone /\ read = <<>>
  /\ runs = 0 /\ written = 0 /\ deletes = 0 /\ faults = 0
  /\ purged = {}

Listed == {p \in Paths : disk[p] # Gone}
Current == Len(index)

-----------------------------------------------------------------------------
(* Detection.                                                              *)

InWindowMillis(r) == r.age # "old"   \* mutant: compared in milliseconds
InWindow(r) == r.age = "recent"

\* scrubValue counts a match in the record, and in which form it leaves it.
Matches(r) == r.kind \in {"url", "field"} \/ (r.kind \in {"token", "aside"} /\ r.raw)
Redacted(r) == [r EXCEPT !.raw = FALSE]

\* inspectFile: the records of the window with a match.
Hits(records) == {r \in ToSet(records) : InWindow(r) /\ Matches(r)}

\* inspectFile, its copy: lines outside the window, without match, or that are
\* not JSON are written as they were read.
Scrubbed(records) ==
  [i \in DOMAIN records |->
     IF InWindow(records[i]) /\ Matches(records[i]) THEN Redacted(records[i]) ELSE records[i]]

\* CountContentMatches: the rows of the window, whose bound is in milliseconds,
\* with a match in their content; activities and tool calls are not asked.
Uncounted == {"field", "aside"}
IndexHits(rows) == {r \in rows : r.age # "old" /\ Matches(r) /\ r.kind \notin Uncounted}

-----------------------------------------------------------------------------
(* The index.                                                              *)

\* What indexFile stores of a transcript: messages, and activities of markers.
Rows(records) == {r \in ToSet(records) : r.kind # "malformed"}

Store(i, p, records) == index' = [index EXCEPT ![i][p] = Rows(records)]

\* DB.sync visits p: nothing when its stat is the recorded one.
SyncFile(p) ==
  IF stat[p] = mtime[p] \/ disk[p] = Gone THEN UNCHANGED <<index, stat>>
  ELSE /\ Store(Current, p, disk[p])
       /\ stat' = [stat EXCEPT ![p] = mtime[p]]

-----------------------------------------------------------------------------
(* The command.                                                            *)

Free == lock = Nobody

\* openIndex takes the lifecycle lock and syncs all roots.
BeginOpen ==
  /\ Free
  /\ lock' = Redactor
  /\ phase' = "open"
  /\ todo' = Listed

\* redact --apply opens the index first; the dry run scans first.
Start ==
  /\ phase \in {"idle", "done"}
  /\ runs < MaxRuns
  /\ runs' = runs + 1
  /\ apply' \in BOOLEAN
  /\ IF apply' THEN BeginOpen
     ELSE phase' = "scan" /\ todo' = Listed /\ UNCHANGED lock
  /\ findings' = <<>> /\ found' = FALSE /\ clean' = FALSE /\ seen' = written
  /\ UNCHANGED <<disk, mtime, index, stat, copy, handle, writer, written, deletes, faults, purged>>

OpenVisits ==
  /\ phase = "open"
  /\ \E p \in todo :
       /\ SyncFile(p)
       /\ todo' = todo \ {p}
  /\ UNCHANGED <<disk, mtime, lock, phase, apply, findings, copy, handle, found, clean, seen,
                 writer, counters, purged>>

\* openIndex releases the lock and keeps its handle.
Opened ==
  /\ phase = "open"
  /\ todo = {}
  /\ lock' = Nobody
  /\ handle' = Current
  /\ phase' = IF apply THEN "opened" ELSE "count"
  /\ UNCHANGED <<disk, mtime, index, stat, apply, todo, findings, copy, found, clean, seen,
                 writer, counters, purged>>

\* WithLifecycleLock, and the first Scan begins.
LockAnyway == lock' = lock   \* mutant: the lock is taken to be held still
TakeLock == Free /\ lock' = Redactor
BeginScan ==
  /\ phase = "opened"
  /\ TakeLock
  /\ phase' = "scan"
  /\ todo' = Listed
  /\ UNCHANGED <<disk, mtime, index, stat, apply, findings, copy, handle, found, clean, seen,
                 writer, counters, purged>>

\* Scan inspects the next file of its walk.
Inspect ==
  /\ phase \in {"scan", "verify"}
  /\ \E p \in todo :
       /\ disk[p] # Gone
       /\ todo' = todo \ {p}
       /\ found' = (found \/ Hits(disk[p]) # {})
       /\ findings' = IF phase = "scan" /\ Hits(disk[p]) # {} THEN Append(findings, p) ELSE findings
  /\ UNCHANGED <<disk, mtime, index, stat, lock, phase, apply, copy, handle, clean, seen,
                 writer, counters, purged>>

\* A scan is over: the dry run opens the index, the verification is followed by
\* the count.
Scanned ==
  /\ phase \in {"scan", "verify"}
  /\ todo = {}
  /\ CASE phase = "scan" /\ apply  -> phase' = "redact" /\ UNCHANGED <<lock, todo>>
       [] phase = "scan" /\ ~apply -> BeginOpen
       [] phase = "verify"         -> phase' = "count" /\ UNCHANGED <<lock, todo>>
  /\ UNCHANGED <<disk, mtime, index, stat, apply, findings, copy, handle, found, clean, seen,
                 writer, counters, purged>>

\* RedactFile reads the next finding once more, to its end, into a new file; a
\* finding that has no match any more is passed over.
CopyFile ==
  /\ phase = "redact"
  /\ findings # <<>>
  /\ disk[Head(findings)] # Gone
  /\ IF Hits(disk[Head(findings)]) = {}
     THEN findings' = Tail(findings) /\ UNCHANGED <<copy, phase>>
     ELSE copy' = disk[Head(findings)] /\ phase' = "replace" /\ UNCHANGED findings
  /\ UNCHANGED <<disk, mtime, index, stat, lock, apply, todo, handle, found, clean, seen,
                 writer, counters, purged>>

\* RedactFile renames the new file to the path, whatever is there by now.
StatKept(p) == mtime' = mtime   \* mutant: the replacement keeps the times of the original
NewStat(p) == mtime' = [mtime EXCEPT ![p] = @ + 1]
ReplaceFile ==
  /\ phase = "replace"
  /\ disk' = [disk EXCEPT ![Head(findings)] = Scrubbed(copy)]
  /\ NewStat(Head(findings))
  /\ phase' = "rebuild"
  /\ UNCHANGED <<index, stat, lock, apply, todo, findings, copy, handle, found, clean, seen,
                 writer, counters, purged>>

\* DB.Rebuild of the finding's session, through the retained handle: a forced
\* sync that visits the file if it is still there.
Rebuild ==
  /\ phase = "rebuild"
  /\ LET p == Head(findings)
     IN IF disk[p] = Gone THEN UNCHANGED <<index, stat, purged>>
        ELSE /\ Store(handle, p, disk[p])
             /\ stat' = IF handle = Current THEN [stat EXCEPT ![p] = mtime[p]] ELSE stat
             /\ purged' = IF handle = Current
                          THEN purged \union {r.n : r \in {x \in ToSet(copy) :
                                 x.raw /\ Redacted(x) \in ToSet(disk[p])}}
                          ELSE purged
  /\ findings' = Tail(findings)
  /\ copy' = <<>>
  /\ phase' = "redact"
  /\ UNCHANGED <<disk, mtime, lock, apply, todo, handle, found, clean, seen, writer, counters>>

\* All findings are done, and the second Scan begins.
VerifyNothing == {}   \* mutant: nothing is scanned again
Verified == Listed
BeginVerify ==
  /\ phase = "redact"
  /\ findings = <<>>
  /\ phase' = "verify"
  /\ todo' = Verified
  /\ found' = FALSE
  /\ seen' = written
  /\ UNCHANGED <<disk, mtime, index, stat, lock, apply, findings, copy, handle, clean,
                 writer, counters, purged>>

\* CountContentMatches, and the report.
Count ==
  /\ phase = "count"
  /\ clean' = (~found /\ \A p \in Paths : index[handle][p] # Gone => IndexHits(index[handle][p]) = {})
  /\ phase' = "done"
  /\ lock' = IF lock = Redactor THEN Nobody ELSE lock
  /\ UNCHANGED <<disk, mtime, index, stat, apply, todo, findings, copy, handle, found, seen,
                 writer, counters, purged>>

\* A crash, or an error: of I/O, of a file that vanished before it was opened,
\* of the lock at its deadline.
Abort ==
  /\ phase \notin {"idle", "done"}
  /\ \/ faults < MaxFaults /\ faults' = faults + 1
     \/ phase \in {"scan", "verify"} /\ (\E p \in todo : disk[p] = Gone) /\ UNCHANGED faults
     \/ phase = "redact" /\ findings # <<>> /\ disk[Head(findings)] = Gone /\ UNCHANGED faults
  /\ phase' = "idle"
  /\ lock' = IF lock = Redactor THEN Nobody ELSE lock
  /\ todo' = {} /\ findings' = <<>> /\ copy' = <<>> /\ handle' = 0 /\ found' = FALSE
  /\ UNCHANGED <<disk, mtime, index, stat, apply, clean, seen, writer, runs, written, deletes, purged>>

-----------------------------------------------------------------------------
(* The others.                                                             *)

\* An agent appends a record, by path.
AgentAppends ==
  /\ written < MaxRecords
  /\ \E p \in Paths, k \in Kinds :
       LET r == [n |-> written + 1, age |-> k[1], kind |-> k[2], raw |-> k[2] # "plain"]
       IN disk' = [disk EXCEPT ![p] = IF @ = Gone THEN <<r>> ELSE Append(@, r)]
          /\ mtime' = [mtime EXCEPT ![p] = @ + 1]
  /\ written' = written + 1
  /\ UNCHANGED <<index, stat, lock, redactor, writer, runs, deletes, faults, purged>>

\* A transcript is removed; its rows stay.
Delete ==
  /\ deletes < MaxDeletes
  /\ \E p \in Listed : disk' = [disk EXCEPT ![p] = Gone] /\ mtime' = [mtime EXCEPT ![p] = @ + 1]
  /\ deletes' = deletes + 1
  /\ UNCHANGED <<index, stat, lock, redactor, writer, runs, written, faults, purged>>

\* Another process syncs, under the lock: it reads a changed file ...
WriterReads ==
  /\ Free
  /\ \E p \in Listed :
       /\ stat[p] # mtime[p]
       /\ writing' = p
       /\ read' = <<disk[p], mtime[p]>>
  /\ lock' = Writer
  /\ UNCHANGED <<disk, mtime, index, stat, redactor, counters, purged>>

\* ... and commits.
WriterCommits ==
  /\ writing # Gone
  /\ Store(Current, writing, read[1])
  /\ stat' = [stat EXCEPT ![writing] = read[2]]
  /\ lock' = Nobody
  /\ writing' = Gone
  /\ read' = <<>>
  /\ UNCHANGED <<disk, mtime, redactor, counters, purged>>

\* Another process finds the index damaged and replaces the file, under the lock.
Discard ==
  /\ Free
  /\ Current <= MaxDiscards
  /\ index' = Append(index, [p \in Paths |-> Gone])
  /\ stat' = [p \in Paths |-> 0]
  /\ UNCHANGED <<disk, mtime, lock, redactor, writer, counters, purged>>

Next ==
  \/ Start \/ OpenVisits \/ Opened \/ BeginScan \/ Inspect \/ Scanned \/ CopyFile \/ ReplaceFile
  \/ Rebuild \/ BeginVerify \/ Count \/ Abort
  \/ AgentAppends \/ Delete \/ WriterReads \/ WriterCommits \/ Discard

Spec == Init /\ [][Next]_vars

-----------------------------------------------------------------------------
(* Properties.                                                             *)

\* README.md 109, "Only records in the selected window are changed": each record of
\* a transcript survives whatever happens to the file, but that one in the window
\* may lose its secret, and that a replacement drops what it has not read: a
\* record appended after the file was copied.
OnlySecretsChange ==
  [][\A p \in Paths : disk[p] # Gone /\ disk'[p] # Gone =>
       \A r \in ToSet(disk[p]) :
         \/ r \in ToSet(disk'[p])
         \/ r.age = "recent" /\ Matches(r) /\ Redacted(r) \in ToSet(disk'[p])
         \/ phase = "replace" /\ Head(findings) = p /\ r \notin ToSet(copy)]_vars

\* A report without remaining and index matches is right about the transcripts and
\* the index file it counted in: no secret of the window that was written before
\* its last scan is legible, though agents wrote and other processes synced
\* meanwhile.  Two things it does not see: a malformed line, and, where a transcript
\* was removed and only the index remembers it, what the count does not ask for.
CleanReportIsClean ==
  phase = "done" /\ clean =>
    \A p \in Paths :
      /\ disk[p] # Gone => \A r \in ToSet(disk[p]) :
           r.n <= seen /\ r.age = "recent" /\ r.raw => r.kind = "malformed"
      /\ index[handle][p] # Gone => \A r \in index[handle][p] :
           r.n <= seen /\ r.age = "recent" /\ r.raw => r.kind \in Uncounted /\ deletes > 0

\* A secret that redaction removed from the index never returns to it, from a sync
\* that read the transcript before it was replaced.
PurgedSecretsStayOut ==
  \A p \in Paths : index[Current][p] # Gone =>
    \A r \in index[Current][p] : r.raw => r.n \notin purged

\* A transcript that was replaced and not rebuilt, because the command died or
\* failed, or wrote to an index file that is no longer there, is one that the next
\* sync visits: what syncs skip is indexed as it is.
ReplacedFilesAreVisited ==
  \A p \in Listed : stat[p] = mtime[p] => index[Current][p] = Rows(disk[p])

-----------------------------------------------------------------------------
(* The inductive invariant of Redaction_proofs.                            *)

FilesOK ==
  /\ disk \in [Paths -> {Gone} \union Seq(Records)]
  /\ mtime \in [Paths -> Nat] /\ stat \in [Paths -> Nat]
  /\ index \in Seq([Paths -> {Gone} \union SUBSET Records]) /\ index # <<>>
  /\ written \in Nat

CommandOK ==
  /\ lock \in {Nobody, Redactor, Writer}
  /\ phase \in {"idle", "open", "opened", "scan", "redact", "replace", "rebuild", "verify",
                "count", "done"}
  /\ apply \in BOOLEAN /\ found \in BOOLEAN /\ clean \in BOOLEAN
  /\ todo \subseteq Paths /\ findings \in Seq(Paths) /\ copy \in Seq(Records)
  /\ phase \in {"replace", "rebuild"} => findings # <<>>
  /\ handle \in 0 .. Current
  /\ phase \in {"opened", "redact", "replace", "rebuild", "verify", "count", "done"} => handle # 0
  /\ phase = "scan" /\ apply => handle # 0
  /\ seen \in 0 .. written

WriterOK ==
  /\ writing \in Paths \union {Gone}
  /\ writing # Gone => read \in Seq(Records) \X Nat

TypeOK == FilesOK /\ CommandOK /\ WriterOK

\* Who is in a place where the code holds the lifecycle lock holds it.
LockHeld ==
  /\ phase \in {"open", "redact", "replace", "rebuild", "verify"} => lock = Redactor
  /\ phase \in {"scan", "count"} /\ apply => lock = Redactor
  /\ writing # Gone => lock = Writer

\* What syncs would skip is indexed as it is, and what a sync has read is what is on
\* disk, unless the stat has changed since.
StatInv ==
  \A p \in Paths :
    /\ stat[p] <= mtime[p]
    /\ mtime[p] = 0 => disk[p] = Gone
    /\ disk[p] # Gone /\ stat[p] = mtime[p] => index[Current][p] = Rows(disk[p])
    /\ writing = p => /\ read[2] <= mtime[p]
                      /\ disk[p] # Gone /\ read[2] = mtime[p] => read[1] = disk[p]

\* The records of p that may still get into its transcript or its rows.
Live(p) ==
  (IF disk[p] # Gone THEN ToSet(disk[p]) ELSE {})
  \union (IF index[Current][p] # Gone THEN index[Current][p] ELSE {})
  \union (IF phase \in {"replace", "rebuild"} /\ Head(findings) = p THEN ToSet(copy) ELSE {})
  \union (IF writing = p THEN ToSet(read[1]) ELSE {})

\* A record was written once, in one transcript, with a secret to lose, and while it
\* can get into the index with its secret the secret was not removed.
LiveInv ==
  /\ purged \subseteq 1 .. written
  /\ \A p \in Paths : \A r \in Live(p) :
       r.n \in 1 .. written /\ (r.raw => r.kind # "plain" /\ r.n \notin purged)
  /\ \A p, q \in Paths : \A r \in Live(p), s \in Live(q) : r.n = s.n => p = q

Distinct(s) == \A i, j \in DOMAIN s : s[i].n = s[j].n => i = j
DistinctInv == Distinct(copy) /\ \A p \in Paths : disk[p] # Gone => Distinct(disk[p])

\* What a scan has visited, and found without a match, stays so in the records
\* written before; a sync that reads after the scan reads what is so.
Harmless(r, kinds) == r.n <= seen /\ r.age = "recent" /\ r.raw => r.kind \in kinds
Scanning == phase \in {"scan", "verify"}
Visited(p) ==
  \/ Scanning /\ p \notin todo
  \/ phase = "open" /\ ~apply
  \/ phase \in {"count", "done"}
ScanInv ==
  ~found =>
    /\ \A p \in Paths : Visited(p) /\ disk[p] # Gone =>
         \A r \in ToSet(disk[p]) : Harmless(r, {"malformed"})
    /\ phase \in {"count", "done"} /\ writing # Gone =>
         \A r \in ToSet(read[1]) : Harmless(r, {"malformed"})

RowsInv ==
  \A i \in 1 .. Current, p \in Paths : index[i][p] # Gone =>
    \A r \in index[i][p] : r.kind # "malformed" /\ (r.raw => r.kind # "plain")

\* While no transcript was removed, the transcripts hold what is legible in the index
\* file the command has open, but for the one it has replaced and not rebuilt.
Holding ==
  \/ phase \in {"opened", "redact", "replace", "rebuild", "verify", "count", "done"}
  \/ phase = "scan" /\ apply
Sourced(i, p) ==
  index[i][p] # Gone =>
    \A r \in index[i][p] : r.raw => disk[p] # Gone /\ r \in ToSet(disk[p])
SourceInv ==
  /\ deletes \in Nat
  /\ deletes = 0 =>
       \A p \in Paths :
         /\ disk[p] = Gone => \A i \in 1 .. Current : index[i][p] = Gone
         /\ writing = p => disk[p] # Gone /\ ToSet(read[1]) \subseteq ToSet(disk[p])
         /\ phase = "open" /\ p \notin todo => Sourced(Current, p)
         /\ Holding => Sourced(handle, p) \/ (phase = "rebuild" /\ p = Head(findings))

ReportInv == phase = "done" /\ clean => ~found

IInv ==
  /\ TypeOK /\ LockHeld /\ StatInv /\ LiveInv /\ DistinctInv /\ RowsInv /\ ScanInv /\ ReportInv
  /\ SourceInv
  /\ CleanReportIsClean
=============================================================================
