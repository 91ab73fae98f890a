# cc-search in TLA+

cc-search keeps a derived index (SQLite with FTS5) of the transcripts that
coding agents write, and answers searches from it, as a command and as an HTTP
API on the loopback interface. Many short-lived processes share one database
file: commands that read, detached children that refresh in the background,
explicit refreshes, rebuilds, redactions, servers, and binaries of different
versions. None of them knows of the others but through the file, its
`refresh_state` table and one advisory lock. This directory models how they
keep the index right together, checks the models with TLC, and proves the
properties that matter most with TLAPS.

## The system

| Part | Code | State it keeps | Operations |
| --- | --- | --- | --- |
| Refresh and snapshots | `internal/index/refresh.go`, `DB.sync`, `cli/refresh.go` | table `refresh_state` (last attempt and success per root set), the committed index | `Refresh`, `OpenSnapshot`, `OpenReader`, `Freshness`, `Rebuild`, launch of a child |
| Lifecycle lock | `internal/index/lifecycle_lock*.go` | a `flock` on `<index>.lock` | acquire (waiting or not), timeout, release |
| Database file | `index.go` (`Open`, `open`, `shouldRebuild`, `removeDatabaseFiles`), migrations in `projections.go` | file, `-wal`, `user_version`, tables | create, migrate 7 to 8 to 9, discard, refuse |
| Transcript store | `index.go` (`sync`, `indexFile` and helpers) | tables `messages`, `sessions`, `activities`, `files` | walk, replace a transcript, reconcile attached sessions |
| Read models | `projections.go` | `tool_invocations`, `tool_results`, `command_search_content`, prefixes and counts | insert, delete, pair, triggers, migrate |
| HTTP API | `internal/server` | `closed`, `refreshing`, the wait group, `closeOnce` | requests, background refresh, `Close` |
| Queries | `index.go` | none (one snapshot) | search, last, sessions, activities, commands, context, info |
| Output budget | `internal/output` | none | plan, share out, render |
| Redaction | `internal/redact`, `runRedact` | transcripts, index | scan, rewrite, rebuild, verify |
| Transcript parser | `internal/transcript` | per-file parser state (Codex session, mirrored records) | parse a line |

How they interact. A read (`OpenSnapshot`) pins a WAL snapshot with `OpenReader`
and takes no lock; if the snapshot is stale it launches a background refresh
(the command as a detached child, the server as a goroutine); if there is no
usable index, or the root set has never been refreshed, it runs a refresh
itself and opens the snapshot again afterwards, without the lock. All writers
hold the lifecycle lock, which the kernel drops when a process dies. A writer
opens the file (which may create, migrate or discard it), walks the roots,
compares each file with table `files`, and replaces what changed, one
transaction per transcript, in which triggers and helpers maintain the read
models.

What is hard about it: processes interleave between every two statements and
die anywhere; transcripts are appended to, removed, compressed and decompressed
while they are walked; a check made before the lock is repeated under it or
not; errors of one root or file are folded into the result of the whole; a
skipped or throttled refresh must not be the last one; a new reader must cope
with whatever a dead writer, or a binary of another version, left.

What makes each part correct:

* **refresh**: success means that what existed when the call began is indexed; a
  file that later syncs skip is indexed as it is; no publication is undone;
  background work is throttled, and yet the index catches up; calls return.
* **lock**: one writer at a time, whoever dies.
* **database file**: an index with the current version is complete; upgrades lose
  nothing; a newer index survives; reads always get an index in the end.
* **store**: each record once, whatever ids and representations; one activity per
  child session; attached sessions linked.
* **read models**: equal to what a rebuild from the messages would give.
* **API**: one background refresh at a time; `Close` drains and returns.
* **queries**: exactly the matches within the limit and the cap, truncation said
  exactly when it happened, relaxed results only in want of exact ones, and the
  exact neighbours of a hit.
* **budget**: never exceeded; shares are fair.
* **redaction**: only secrets of the window change; a clean report is right; what it
  removed does not come back; what it replaced is indexed again.
* **parser**: an utterance that Codex logs twice is one message, and no text is lost.

`PROJECT.json` lists the components with the files they cover, and the hazards,
each at its line, with the properties aimed at it.

## The modules

| Module | What it is |
| --- | --- |
| `FreshIndex` | abstract: versions of files are published, calls are promised what existed when they began |
| `RefreshProtocol` | the processes, the lock, `refresh_state`, the walk file by file, faults; implements `FreshIndex` |
| `RefreshProtocol_proofs` | its inductive invariant, its safety properties, and that it implements `FreshIndex`, as theorems |
| `IndexFile`, `IndexFile_proofs` | the database file: creation, migrations, recovery, discard, other binaries; its safety as theorems |
| `TranscriptStore`, `TranscriptStore_proofs` | what a writer leaves in messages, sessions, activities and files; its safety as theorems |
| `ToolRecords`, `ToolRecords_proofs` | tool calls, results, their pairing and the command search content, statement by statement; its safety as theorems |
| `Answers` | search, context, read and last: selection, relaxation, truncation, windows, and the response |
| `OutputBudget` | how the response is fitted into a budget of characters, one action per turn of the loops of `Format`; a part of the state of `Answers` |
| `Answers_proofs` | the properties of both as theorems, and the lemmas on sums, orders and positions they rest on |
| `Redaction`, `Redaction_proofs` | the redaction command beside agents, another process and a replaced index; its safety as theorems |
| `CodexParser`, `CodexParser_proofs` | what the Codex parser keeps from line to line, and its deduplication as theorems |
| `APIServer`, `APIServer_proofs` | the server's scheduling and shutdown, and its safety as theorems |
| `MC...` | instances for TLC: constants of the `.cfg` files, root sets, transcripts |

They split the system along what one property needs to see. `RefreshProtocol`
has every process and all their interleavings, and a transcript is a version
number in it; `TranscriptStore` and `ToolRecords` have one writer and look into
the transcripts; `IndexFile` has the processes again and looks at the file;
`APIServer` has the goroutines of one server and takes the index as a choice;
`Redaction` has one command beside everything else, and transcripts are sequences
of records in it; `CodexParser` sees the records of one transcript; `Answers` sees one
snapshot, since every read has one.
The interfaces agree: the action `IndexFile` of `TranscriptStore`, and what `ToolRecords`
does between `Replace` and `Commit`, are the action `Commit` of `RefreshProtocol`; a
worker of `APIServer` is one of its background calls.

### RefreshProtocol

A process is a client (a command or request) or a worker (a background
refresh). `pc` is the place between two steps that others can see: `lock`
(waiting), `attempt` (lock held; the throttle), `roots`, `walk`, `read` (stat'ed),
`commit` (parsed), `unlock`, `reopen`, `serve`. `disk[f]` counts the changes of a
transcript; `row[f]` is the stat in table `files` and `content[f]` the version
whose messages are stored. The ages `attempt` and `success` are the distances of
the timestamps of `refresh_state` to now, cut off at the interval. `owed`, `cut`
and `sinceBg` are history variables: what existed when a call began, which roots
a vanished entry cut short, and the age of the last background attempt.

Abstractions: an age instead of a clock (which only advances); two versions have
different stats; `Rebuild` is one that forces every file (`TranscriptStore` has the one of a session);
the error text in `refresh_state`, which no decision reads, is left out, and so
are connection errors that end a call before it has an effect. A `SyncFails` or
`StateFails` step stands for each error path of the walk and of the metadata
statements. The order in which `WalkDir` visits a directory is left open, which
includes the lexical one.

### IndexFile

`db` is what connections see and `main` the checkpointed main file; in WAL mode a
commit changes `db` alone. Tables come in three groups, created one by one and
outside a transaction (`Create`), as `handle.Exec(schema)` does. `seen` is what
`open` read before it acts. A read that asks for a refresh, or whose roots were never
refreshed, goes through the lock first (`Call`, `OpenReader`); which roots were is the
business of `RefreshProtocol` and a choice here. A sync may fail after any part of it
(`Index`). External, from how the code uses it: SQLite
(`Commit`, `Checkpoint`, damage) and a newer binary that honours the lock.

### TranscriptStore

A sync walks all listed files, a rebuild those of all sessions or of one, and takes them
as changed (`force`). The files are visited one by one (`Skip`, `Parse`). `Name` gives the next record
of the transcript its id, as `ensureUniqueMessageIDs` does before the transaction,
and `IndexFile` is the transaction with its helpers: the rows of every representation
go, those of the transcript come. An id in use is refused by the primary key, a guard
of the action: that it never refuses is a theorem (`NamesAreFree`). `Fail` is any error or death during a sync, which leaves
what was committed. `EndSync` reconciles attached sessions.

### ToolRecords

The statements of two transactions, one action each. A replacement deletes
(`Replace`), stores the messages one after the other with their calls and results
(`Store`), and pairs again each session affected: all links of it are set to NULL
(`Unlink`) and found again in the order of the results (`Pair`). The migrations of a
version 7 index with the same messages (`Upgrade`) do the same from empty tables, for all
sessions. `Write` is a statement with its triggers on the command search content; the
output of a call is the set of what its results say, with the time and id
that order it. Ids of rows are SQLite's, the largest plus one, since ties are
broken by them.

### Answers and OutputBudget

A snapshot is a sequence of messages by rowid, and a behaviour one request from
its parameters to its response: `Search` (the strict query and the relaxed one),
`Cut` (the hit that was asked for in excess is dropped), `Expand` (the windows of a
context merge), `Read` (an id or the prefix of one is resolved, or refused),
`Recent` (the command `last`) and `Answer` (`Format` begins; the rows are forgotten then, since
the rest depends on the bodies alone). The command and the HTTP handler
of the same name do the same; what differs is how they are told the parameters.
FTS5 is external: a message has the terms that its prose and its content match,
and bm25 ranks in any order. `--type`, `--cwd` and `--hours` are two flags of a message,
of which the message window heeds one, as the code does.

`OutputBudget` is `Format` with its loops, an action per turn: `Fill` and `Filled` (`plan` of
whole bodies), `Pour` (`waterFill`), `Emit` (`render`, with `clip` and `preview`), then `Formatted`. Lengths
are in runes. A body has two of them, since a preview joins its lines into one and
a whole body does not. `Answers` composes the two: its actions leave the budget idle
until `Answer`, and the budget's leave the query alone.

### Redaction

`phase` follows `runRedact`: `open` (openIndex syncs under the lock), `opened` (the lock is
released, the handle kept), `scan`, `redact`, `replace` (the copy is written, not yet
renamed), `rebuild`, `verify`, `count`, `done`. A record has a serial number, an age
relative to the window and a kind of secret; the kinds are the cases in which the
detectors differ (found in JSON but not in text, found again after replacement,
not read at all) or in which the two counts do: the one in the index reads the content
of messages, and not what a marker put into the table of activities or what the
arguments of a tool call hold escaped (`aside`). `index` is the list of index files so far: `Discard` replaces the
current one while the command keeps its `handle`. It maps a path to a set of rows,
since nothing here depends on their order. `WriterReads` and `WriterCommits` are
another process' sync in two steps, between which a redaction without the lock
would do harm.

### CodexParser

`canonical` and `events` are the parser's two sets. An item with a role is compared with
the events (`Item`), an older one, a bare string or a text without role, is not (`Text`);
it counts as the assistant's. The agent is part of the module: it
logs an utterance as an item of either kind, as an event or as both, and owes the second form
until it writes it, with anything else in between. That is what makes
"an utterance" a thing the properties can speak of, where the parser sees only
equal texts.

### APIServer

One action per critical section of `Server.mu` and per step that another
goroutine can see: `Add`, `Done`, the flag, the two halves of `Close`.

## What TLC checks

| Run | Instance | Properties |
| --- | --- | --- |
| `RefreshWriters` | 2 clients (refresh, rebuild), 2 files in a root, 2 versions each, 1 fault | `TypeOK`, `SkippedFilesAreIndexed`, `WalkedRootsAreFresh`, `ContentNeverGoesBack`, `ImplementsFreshIndex` |
| `RefreshReads` | 1 client (read, refreshing read, refresh), 1 worker, 2 files, 1 fault, fairness | `RefreshedReadsAreFresh`, `BackgroundAttemptsAreThrottled`, `CallsReturn`, `ReadsBringIndexUpToDate` |
| `RefreshVanish` | 1 refresh, 2 files | violates `ExplicitRefreshIsFresh` |
| `APIServer` | 2 requests, 2 workers, 2 closers, fairness | `TypeOK`, `SingleFlight`, `ClosedIsQuiet`, `CloseReturns`, `StaleReadsRefresh` |
| `IndexFile` | 2 processes, 6 initial files, 2 faults, fairness | `CurrentIsWhole`, `BootstrapServes`, `IndexesAreKept`, `ReadsEstablishIndex` |
| `TranscriptStore` | 3 paths (one compressed), 8 contents, 4 changes | `TypeOK`, `EveryRecordIsAMessage`, `OneRepresentation`, `OneActivityPerChild`, `AttachedSessionsAreLinked` |
| `StoreIds` | the same paths, 4 contents | violates `PublicIdsAreStable` |
| `ToolRecords` | 2 transcripts, 7 contents, 4 replacements, window 2 | `PairingIsCurrent`, `SearchIsCurrent`, `AnonymousCallsAnswerOnce`, `UpgradeKeepsAnswers` |
| `Answers` | every table of up to 4 messages of 6 kinds in 2 sessions, 15 requests, 8 renderings | `LimitIsHonest`, `RelaxedOnlyWithoutStrict`, `WindowsAreExact`, `SpentWithinBudget`, `SharesAreFair` |
| `Redaction` | 2 transcripts, 2 records of 6 kinds, 2 runs, 1 removal, 1 fault, 1 discarded index | `CleanReportIsClean`, `PurgedSecretsStayOut`, `ReplacedFilesAreVisited`, `OnlySecretsChange` |
| `CodexParser` | 2 texts, one of the assistant, 1 session, 4 lines | `TypeOK`, `FirstFormDecides`, `MirrorsAreOne`, `NoTextIsLost` |
| `CodexRepeats` | 1 text, 3 lines | violates `EventOnlyRecordsAreKept` |

Each property is stated and explained where it is defined. `PROJECT.json` names
for each a change of the code, as a change of one definition, that breaks it.

Bounds. Two writers are enough for every order of two walks, and the proofs
lift the safety properties to any number of processes, files, roots, versions
and faults. Two files let one of a root be visited and the other not. Root sets
that overlap are left to the proofs, which have any number of them. A crash or error may hit any step of any process, once; a second adds
nothing that a new call after the first does not show (`IndexFile` allows two, so
that a recovery can be interrupted). An interval of one tick keeps "never",
"recent" and "old" apart. In the stores four changes let a transcript collide,
disappear behind its other representation, come back and be indexed again.
`MaxVersion`, `MaxFaults` and `MaxChanges` bound the environment, never the code
(`LockTimeout` is the code's own).

In `Answers` four messages fill a session or two, with a limit met, exceeded and
missed by one, windows that overlap or run out, and ties of time; `MaxRows` bounds
the table. Budgets of none, less than one minimum (3), twice and three times the
minimum have every case of rounding, of dropping and of clipping for up to four
results. In `Redaction` (`MaxRuns`, `MaxRecords`, `MaxDeletes`, `MaxFaults`, `MaxDiscards`) one
record can be redacted while another is appended, lost or synced, and a second
run meets what the first left. In `CodexParser` four lines (`MaxLines`) let a text be said
in both forms, twice, or once with another in between. The proofs have any number of
processes and faults in `IndexFile`, of paths, contents and changes in
`TranscriptStore`, of transcripts, calls, results and replacements (and any window)
in `ToolRecords`, of messages, hits and budgets in `Answers`, of transcripts, records,
runs and faults in `Redaction`, and rollouts of any length in `CodexParser`.

Deadlock is checked in every run but those of `Answers`, where one request is answered
and nothing follows, of `Redaction`, whose command need not be run again, and of
`CodexParser`, whose rollouts end: in the others there is always a call to make, a tick
or a change left.

Fairness. A live process keeps taking its own steps, since nothing it waits for
but the lock can block it for ever, and the wait for the lock has a deadline; time
advances. Nobody has to call, to write or to fail, so `ReadsBringIndexUpToDate`
and `ReadsEstablishIndex` have as premise that reads keep coming, and
`StaleReadsRefresh` that stale requests do. In the server goroutines are
scheduled and calls into the index return, which `CallsReturn` shows of the
protocol.

## Where the code and its documents disagree

* `RefreshVanish`: `docs/architecture.md` calls the explicit refresh "the strong
  freshness path". If a transcript vanishes between its stat and its open, the
  walk of its root ends there, the error counts as a missing root, and the
  refresh succeeds without the rest of the root. The proved form is
  `WalkedRootsAreFresh`, which excepts such roots.
* `StoreIds`: a comment on `ensureUniqueMessageIDs` says that reindexing produces
  the same public id; which of two colliding records has the suffix depends on
  what else is in the table.
* `CodexRepeats`: a comment in `parse.go` says that mirrors are skipped without making
  event-only records disappear. An event-only record counts as the canonical one
  of its text, so the next time the same is said it disappears. `FirstFormDecides`
  says exactly which lines become messages.

Smaller ones, which no run is about:

* `README.md` 313-314 says that SQLite corruption is not silently replaced;
  `shouldRebuild` makes `Open` and `openForRefresh` discard an index that SQLite calls
  corrupt, without a message. `IndexesAreKept` excepts it (`hurt`).
* `output.go` 193 and 347-348 promise a cap; `render` makes no preview shorter than a
  rune and its ellipsis, so a budget of one is exceeded by one. `SpentWithinBudget`
  excepts it. The list of hits in the response of `context` is outside the budget.
* `README.md` 111-112 describes the report of `redact --apply` as one of what remains; the
  replacement of a secret field is eight characters or more and that of a
  basic-auth URL is one again, so both are found again, reported as remaining,
  and rewritten by each further run.
* `CountContentMatches`, by which `redact --apply` verifies the index, reads `messages.content`
  alone (`index.go` 392). A secret in the title, description or summary of an activity, in
  a tool argument that JSON escapes, or in a field is not counted. The rebuild of its session
  removes it as long as the transcript is there to be rebuilt; once the transcript was
  deleted, the report is clean and the secret legible in the index.
  `CleanReportIsClean` excepts exactly that.
* `inspectFile` decodes the first JSON value of a line and writes it back when it has
  changed (`redact.go` 288-322): anything after it on that line is lost. `Redaction` has
  one value per line.
* `README.md` 109, "Only records in the selected window are changed", does not mention
  that what an agent appends between the copy and the rename is lost;
  `OnlySecretsChange` excepts it.
* A record of the millisecond in which the window begins, before its beginning, is
  counted as an index match and never redacted.
* `README.md` 134 asks an id and a timestamp of a message; a Codex record without a
  timestamp becomes an empty message, and its text counts as seen
  (`NoTextIsLost` excepts that). If the event comes first, the tool calls of the item
  that mirrors it are dropped with it.
* `makeCodexMessage` keeps the event "rather than emitting both" (`codex.go` 141-143). The older
  items, a string (88-92) or a text without role (115-121), become messages without that
  comparison, so an event and the item of that form which mirrors it are two messages.
  `MirrorsAreOne` excepts them.
* An attached session whose id is in use as that of another activity gets none of its
  own, and the reads, which join on the path of the child, do not find it
  (`AttachedSessionsAreLinked` counts the id).
* `ExpandContext` breaks ties of the timestamp by id, `Around` by rowid, so a context
  may list messages of one millisecond in another order than a read does.

## What is proved

TLAPS proves, for all values of the constants that satisfy the assumptions of the
modules (`ASSUME` in each): 

* `RefreshProtocol_proofs`: `Spec => []IInv`, and from it `TypeOK`,
  `SkippedFilesAreIndexed`, `WalkedRootsAreFresh`, `RefreshedReadsAreFresh`,
  `ContentNeverGoesBack` and `BackgroundAttemptsAreThrottled`; and
  `Spec => ImplementsFreshIndex`: initial states map to initial states, and each
  step to one step of `FreshIndex` or none.
* `IndexFile_proofs`: `Spec => []IInv`, and from it `CurrentIsWhole`, `BootstrapServes`
  and `IndexesAreKept`.
* `TranscriptStore_proofs`: `Spec => []IInv`, and from it `TypeOK`, `NamesAreFree`,
  `EveryRecordIsAMessage`, `OneRepresentation`, `OneActivityPerChild` and
  `AttachedSessionsAreLinked`.
* `ToolRecords_proofs`: `Spec => []IInv`, and from it `PairingIsCurrent`,
  `SearchIsCurrent`, `AnonymousCallsAnswerOnce` and that links resolve within their
  session; and `UpgradeKeepsAnswers`.
* `Answers_proofs`: `Spec => []AnswersInv`, and from it `LimitIsHonest`,
  `RelaxedOnlyWithoutStrict`, `WindowsAreExact`, `SpentWithinBudget` and `SharesAreFair`.
* `Redaction_proofs`: `Spec => []IInv`, and from it `CleanReportIsClean`,
  `PurgedSecretsStayOut`, `ReplacedFilesAreVisited` and `OnlySecretsChange`.
* `APIServer_proofs`: `Spec => []IInv`, and from it `TypeOK`, `SingleFlight` and
  `ClosedIsQuiet`.
* `CodexParser_proofs`: `Spec => []IInv`, and from it `TypeOK`, `FirstFormDecides`,
  `MirrorsAreOne` and `NoTextIsLost`, for rollouts of any length.

The argument for the protocol. `SkippedFilesAreIndexed` is not inductive: it needs
that a process about to commit holds a stat no newer than its text. `FileInv`
says so (`stat <= data <= disk`), and with it `VersionsOrdered` (`row <= content <=
disk`) is kept by `Commit`. That no other commit comes in between, so that `content
<= data` holds until the transaction, is `OneWriter`. For `WalkedRootsAreFresh` the
walk carries a loop invariant, `WalkInv`: each file of the current root is still
listed, being indexed, or paid; with `DoneRootsPaid` for the roots behind it, and
`OwedExists`, by which a file that was not listed, or is skipped, owes nothing or
is unchanged. `CallInv` hands this on through `unlock` and `reopen` to the snapshot.
`AttemptsOrdered` relates the timestamp the throttle reads to the history of
background attempts. The refinement uses the same invariant: `Walked` is the step
`Succeed` because `DoneRootsPaid` covers all roots.

For the server: `OperationsCounted` equates the counter with the number of
goroutines in counted places, so that the guard of `Wait` means an empty set, and
`CloseInv` that nothing enters that set once `closed` is set.

For the database file: `Shaped` says which tables a version has, of what
connections see and of the main file alike, since removing the WAL turns one into
the other before the main file goes, and a crash may come in between. `SeesTrue` says that what `open` read
under the lock is still true when it acts, which `LockHeld` makes stable, and
`MainBehind` that a checkpoint that was not done can only lack an upgrade.
`BootstrapServes` is inductive with these: the file is taken below the current version
only from where it was below already, or damaged.

For the store: `RowsInv` relates the messages of a source to the records of what was
indexed of it, one each by their place, and `WalkInv` says that what a quiet sync has
passed is indexed as it is. A transaction erases the rows of the other
representation, which does no harm to a file the walk has passed, since sync
prefers one of them (`PreferredAlone`). `EveryRecordIsAMessage` follows by counting the
places; the other three are inductive with these. For the ids: `NamesInv` says that
those given so far are neither of another transcript nor given twice, so that the
rows to be stored keep the key (`KeyInv`). It rests on that nothing else is written
between the look-up and the transaction, which is the lifecycle lock of
`RefreshProtocol`.

For the read models: `PairInv` says that every result outside the affected sessions,
and not waiting in the one that is being paired, has the link it would get now. A
statement disturbs that only in sessions it adds to `affected`, because `RefsInv` keeps
calls, results and links within the session of their message; and pairing one
result disturbs none before it, because all that waits comes later in the order in
which `Used` looks back. `KeysInv` (ids are keys, with a largest one) gives new rows
ids of their own. `SearchIsCurrent` goes by each statement: a call whose set of
results changes is one that a trigger touches, by the old link or the new one.
For `UpgradeKeepsAnswers` the proofs state the pairing once more without rows: as a set
of pairs of places, a place being a message and a position in it (`Matching`). The
messages have one such pairing only (`MatchingUnique`: where two differ first, they
agree on all that was taken before). `PlacesInv` says that the rows of a stored message
have ids one after the other, in the order of its positions, wherever the ids begin, so
that rows and places correspond, in the same order; then links that are current
are that pairing (`PairsMatch`). An index before and after its upgrade has
different rows and the same messages, hence the same pairing.

For the queries: `SearchInv` says of what the search returned, the extra hit included,
that these are matches, each once and within the cap, and that nothing is missed
when there are no more of them than the limit. From there `Cut` makes truncation say
what it should: the extra hit, once dropped, is a match that was missed. The cap per
session counts, for each hit, the hits of its session up to it; the last of them
has the largest count.
A window is a prefix (or, turned, a suffix) of a session in the order of
`Before`, and the position in it is the `Distance` from the hit. That rows can be
put in that order at all is by their ranks, and that these are all the positions by
a count.

For the budget: sums of a sequence are compared by their partial sums, and a property
of all of them is proved from the least one that fails. `PourInv` is the invariant of
`waterFill`: what remains gives those that wait a share no smaller than any before
them; where one is short already, they want no less than it and get one character
more at most. `ShareInv` keeps that for rendering, which uses one character of a
short share for the ellipsis; hence the assumption that a minimal preview has two.

For redaction: `StatInv` has the bargain of syncs, that a file with the recorded stat
has the indexed content, and that a sync in its transaction read what is on disk
unless the stat has changed since. `LiveInv` follows each record to everything
that may yet bring it into the index (transcript, rows, the copy about to be
renamed, what a sync has read): it has one transcript there, and is not one
whose secret was removed. Without `LockHeld` that breaks, as a sync could hold the old
text over the rewrite. For a clean report `ScanInv` says what a scan has seen stays so
for the records written before it, in the reads of later syncs too, and
`RowsInv` what kinds of records have rows. For what the count in the index does not
ask, `SourceInv` says that as long as no transcript was removed each legible row of the
open index file is a record that its transcript still has, but for the transcript that is being
rebuilt; so a clean scan of the transcripts is one of these rows.

For the Codex parser: the properties are about utterances, the state about texts.
`SetsInv` says what the two sets mean for the lines so far, and that each text so far
has a first line; `FormsInv` that lines of one utterance are its two forms, with one
text; `OwedInv` that a form still owed is one an utterance lacks.
`FirstFormDecides` is inductive with these; `NoTextIsLost` and `MirrorsAreOne` follow
from all of them and are not inductive alone.

Only model-checked: the liveness properties (`CallsReturn`, `ReadsBringIndexUpToDate`,
`CloseReturns`, `StaleReadsRefresh`, `ReadsEstablishIndex`), since fairness and `ENABLED` are out of
the prover's reach. Every safety property and the refinement have a theorem.

## Not modelled, and why

Of the queries, `Sessions`, `Activities`, `Commands` and `Info`: each is a listing by
one statement of what `TranscriptStore` and `ToolRecords` have. The decoding of JSON
records, FTS5 and its ranking, the rendering of text and JSON, excerpts beyond
their length, flag parsing and HTTP routing are string handling without state.
The detectors of redaction are reduced to the kinds of secrets they tell apart.
The parser of the other agents keeps nothing but the session header.
`source_projections` and `message_projections` are functions of one transcript, written
with it. Locks on platforms without `flock` are refused by the code. The clock is
taken to advance: no module has one that is set back, nor a rewrite that leaves
size and millisecond as they were.

## Plan

Done, in this order: `FreshIndex` and `RefreshProtocol` with their proofs (the core:
everything else rests on what a refresh guarantees); `APIServer` with its proofs;
`IndexFile`; `TranscriptStore`; `ToolRecords`; `OutputBudget`; `Redaction` with its
proofs; `CodexParser` with its proofs; `Answers`; the proofs of `IndexFile` and of
`TranscriptStore`; pairing and the loops of the budget as state machines, with the
proofs of `ToolRecords` and of `Answers`.

Next:

1. A composition of `APIServer` with the calls of `RefreshProtocol`, in place of the
   choices the server takes of the index now.
2. `Commands`, `Sessions` and `Activities` over the tables of the store, paging
   included.
