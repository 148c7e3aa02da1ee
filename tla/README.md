# Tagrove: TLA+ models and proofs

Tagrove is a desktop media tagger. A Rust process (`src-tauri/src`) owns the
SQLite database, the file system and all background threads; a React interface
(`src/`) calls it over Tauri commands and keeps query, selection and thumbnail
state of its own. This directory holds TLA+ models of the parts where
interleavings, crashes and partial failures decide whether the program is
right, TLC configurations that check them on small instances, and proofs TLAPS
checks for every value of the constants. Paths below are relative to the
repository; `SS/` stands for `src-tauri/src`.

Run a model with `tlc -config <run>.cfg <MC module>` and a proof with
`tlapm <module>_proofs.tla`; `Bundle_proofs` holds the proofs of LibraryTags,
LibrarySchema, BundleTransfer and RestoreSwap. `PROJECT.json` lists the runs, the source lines
each definition translates, the hazards, the findings, the theorems and for
each checked property a mutation of the model that breaks it.

## 1. Inventory

| component | state it keeps | operations | modelled |
|---|---|---|---|
| database runtime (`SS/services/db_pool.rs`, `app/locks.rs`, `app/runtime.rs`) | admission flag, count of active permits, idle connections, `total`, scan and thumbnail mutexes | `admit`, `begin_maintenance`, `connection`, drop of permit, maintenance and connection, the combined lock helpers | `DatabaseRuntime`, abstract `MaintenanceGate` |
| bundle restore (`SS/services/backup_service.rs`) | live database with its sidecars, live thumbnails, previous and staged generations, restore journal | import (checkpoint, journal, swap, verify, commit, clean up), compensation, startup recovery | `RestoreSwap`, abstract `AtomicRestore`; export, inspection and everything an import does before the swap in `BundleTransfer` |
| file mutations (`SS/services/asset_mutation_service.rs`, `db/mutations.rs`) | asset rows, files, staging files, `pending_file_operations` | delete and rename batches: validate, journal, stage, install, commit, finish, roll back, recover at startup | `FileMutation` |
| asset queries (`SS/services/asset_query_service.rs`, `db/query_revisions.rs`, `db/mutations.rs`) | library revision, revision markers, session cache, newest request, cache epoch | start, page, clear; every writer that moves a marker; restore | `AssetQuery` |
| scan pipeline (`SS/services/scan_service.rs`, `indexer.rs`, `db/scan_membership.rs`) | task and result channels, pending batch, counters, scan generations | discover, dispatch, fingerprint workers, drain, flush, prune | `ScanPipeline` |
| thumbnail scheduler (`SS/services/thumb_scheduler.rs`) | two queues, jobs with waiters, active counts, bulk flag, condition variable | enqueue, worker loop, bulk mode | `ThumbScheduler` |
| thumbnail service (`SS/services/thumb_service.rs`, `thumbs.rs`, `db/thumbnails.rs`) | thumbnail rows, files and failures, generation epoch, running and cancel flags | ensure one, ensure a page, bulk render and retry, publish by compare-and-set, clear | `ThumbPublication` |
| video player (`SS/services/video_player_service.rs`, `video_surface.rs`, `commands/video.rs`) | request and session ids, pending and active session, worker queue, decoder, native surface, fullscreen flag | begin, cancel, open, close, control, activate, hide, the worker's stop, commit and load | `VideoSessions` |
| CSV import and export (`SS/services/csv_service.rs`) | none of its own | parse, validate, merge rows | not modelled, section 7 |
| schema and tags (`SS/db/schema.rs`, `db/mutations.rs`) | tables, columns, versions, tag rows | `init_schema`, validation of backups, tag edits | `LibrarySchema`, `LibraryTags`; the part queries depend on is in `AssetQuery` |
| instance lock, profile, startup (`SS/lib.rs`, `app/…`) | lock file, startup scan flag | take the lock, recover, migrate, recover files | the order of startup in `RestoreSwap`, `LibrarySchema` and `FileMutation`; the lock itself is not modelled |
| frontend query and selection (`src/hooks/…`) | generation and patch counters, loaded pages, selection | refresh, load a page, patch, select | not modelled, section 7 |
| frontend thumbnail queue and video session | in-flight sets, tokens | request, receive, cancel | not modelled, section 7 |
| frontend presentation | view state | rendering | not modelled: no state of another component depends on it |

**How they interact.** Each command is admitted by the database runtime before
it touches anything (`db_pool.rs:56`), takes the mutexes its workflow needs in
the order gate, scan, thumbnails (`docs/architecture/system-overview.md`, the
lock table), and borrows a pooled connection for its SQL. Scans and bulk renders
hand clones of their permit to worker threads, so maintenance waits for workers
too. Bundle export and restore own the gate exclusively; restore replaces the
database below all other components, which is why the gate clears the query
cache when maintenance begins and restore clears it again. Writers (scan, file
mutations, tag commands, CSV import, restore) move revision markers in their own
transaction; queries compare the markers. At startup the journals of restore and
file mutations are reconciled, in this order, before a command can run
(`lib.rs:60-81`).

**What is hard.** Threads that outlive the command that started them; one
condition variable with `notify_one` and timeouts; two-phase changes of files
and database rows with a crash at any point and errors that occur after the
effect; caches validated by revision in a library that can be replaced by an
older one; blocking calls between threads that also hold the only receiver;
answers that arrive out of order; one decoder and one surface that successive
sessions share; a database migrated by statements that commit one by one; two
programs, exporter and importer, that must agree on a format. The hazards list in `PROJECT.json` names
each of these at its line.

**What makes each component correct.**
- Runtime: maintenance is alone; pool slots are neither leaked nor exceeded; no
  wakeup is lost; lock combinations do not deadlock; every command ends.
- Restore: old or new generation, never a mixture; recovery always possible;
  write-ahead logs stay with their database; work committed after a failed
  restore is kept unless the user was warned.
- File mutations: no file is lost; rows name their files; what is staged is
  journaled; reports are true.
- Queries: an answer is the result of one snapshot; a session judged current is
  current; sessions are only dropped when obsolete; the newest start wins.
- Scan: the channels do not deadlock; each file is handled once; only a complete
  scan prunes, and never a file it saw; a scan ends.
- Thumbnails: no runnable job waits beside sleeping workers; each waiter is
  answered once; a row names a thumbnail of its own version, and the file is
  there; what is cleared stays cleared.
- Video: only the newest request plays, nothing plays without an owner, a
  retired picture leaves the screen, every open is answered.
- Schema and bundles: upgrades converge from any interruption and keep the
  library; an export is whole, restorable and destroys nothing; an import brings
  exactly the archived library.

## 2. Modules

### DatabaseRuntime
Each command is a process with a program counter `pc[c]`; its kind fixes the
gate it passes and the locks it takes. `Admit` and `DropPermit` are admission
and the drop of a permit, `CloseAdmission`, `Drain` and `DropMaintenancePermit`
the maintenance permit, `LockScan` to `UnlockScan` the lock helpers, `StartWorker`
and `WorkerDone` the threads that hold clones. Each nested use of the pool has a
state `conn[c][n]` of its own (`Request`, `TakeIdle`, `ReserveNew`,
`WaitOrGiveUp`, `WaitTimesOut`, `Opened`, `OpenFails`, `Return`); a wait on the
condition variable is a state that only a notification or the timeout ends.
`MaintenanceGate` is the abstract promise (work or one owner, and no work
admitted while an owner waits); `ImplementsGate` is the refinement.

### RestoreSwap
One step is one file-system call with its directory sync, and may fail before or
after its effect or be cut off by a crash. The live and previous places of
database, sidecars and thumbnails are variables, as is the journal.
`AtomicRestore` is the promise (the pair of database and thumbnails changes
together, at one instant); `ImplementsAtomicRestore` is the refinement, mapping
the visible library to what recovery would leave.

### FileMutation
One batch at a time (the workflow locks see to that): `Begin` validates and
journals, then per item stage, install, one commit transaction, finish; errors
roll back item by item (`Rollback`, `Clear`); `Startup` and the `Recover...`
actions are the next start. Other programs may put files at or
remove them from the paths in between (`Meddle`). A change notes the file that
validation found at its path, because a report is about that file. `deleted`
counts the files that a committed deletion took: once a stale row names another
asset's path (finding `FileMutationStaleRow`), deleting the row takes that
asset's file, which three batches suffice to reach.

### AssetQuery
The library, its revision and the markers are the database. A request is a
process: register, open a read transaction (which fixes the snapshot), look into
the cache, build, insert, answer. Writers are one action per kind of write, each
moving the markers its SQL helper moves. Ids stand with the column their order
depends on, so a reordering is visible. Reading the epoch is merged with
admission; `RewriteRows` stands for scan batches, pruning, batch rename and
delete, root removal, CSV import and clear, which all move the same marker set.
The legacy repair of tag markers is not modelled because initialization has
repaired them before the first query.

### ScanPipeline
The scanning thread walks (`Visit`, `VisitFails`, `EndWalk`), dispatches a batch
(`KeepUnchanged`, `Send`, `EndDispatch`), drains what is ready (`Drain`,
`EndDrain`), and after the walk collects (`Receive`, `Disconnected`,
`EndCollect`) and prunes; workers `Take`, `Finish` or `Panic`. `Accept` is
`accept_scan_result` with its flush. `Stop` is a hard error or the end of the
process at any step: both drop everything in memory and leave the committed
transactions. `mapped` is `asset_scan_roots`; `sighted` are its rows of the
current generation. A file has a version that stands for size and modification
time, so fingerprint and metadata read at different times can be compared.
Channels and batches are sets, because the order in them affects nothing; their
capacities are kept. A send that waits is an action that is not enabled.
Several roots are several scans in sequence. The revision bumps are part of
`RewriteRows` in AssetQuery.

### ThumbScheduler
A step is what one thread does under one hold of the scheduler's mutex; what it
does after letting the mutex go is a step of its own. Callers are refused
(`RefuseJob`, `RefuseWaiter`), `Join` a job or `Insert` one and then `NotifyOne`;
a worker is awake, in `condvar.wait`, rendering, or answering its waiters one
send at a time (`TakeHigh`, `TakeLow`, `Sleep`, `WakeSpuriously`, `Finish`,
`Answer`); the bulk renderer enters and leaves its scope and notifies after each
(`EnterBulk`, `LeaveBulk`, `NotifyBulk`). The queues are sequences, because their
order is the order of service. All worker threads exist, since start-up refuses
to go on when one could not be spawned (`lib.rs:111`). A caller that stops
waiting changes nothing in the scheduler, so giving up is not an action. A
poisoned mutex is not modelled: no code panics while it holds the mutex, as long
as the counters do not fall below zero, which `EveryJobHasOnePlace` shows.

### ThumbPublication
Three kinds of caller (one asset, a page, the bulk renderer) read rows
(`BeginDemand`, `BeginPage`, `BulkPage`), visit each asset (`VisitExisting` to
`VisitEnqueue`), wait for renders (`TakeResult`, `TimeOut`) and write in
statements of their own (`Cas`, `Reread`, `PublishReady`, `Record`,
`ClearRecord`) or in one transaction (`Publish`); what a caller still has to do
for an asset is its list `ops`. A scheduler worker takes three steps for a job:
`Render` puts the file in place with the mutex released, `LookAtTarget` is its last
look (`target_path.exists()`), `Answer` takes the mutex again, removes the job and
answers whoever waits by then. Callers join the job as long as it is registered, and
a caller that gave up or was cancelled leaves its job behind. Beside them
files change (`EditFile`, `LoseFile`), scans index and prune (a scan takes
`scan_lock` only, so it really runs beside all of this), and
`clear_all_thumbnails` goes through `ClearBegin` to `ClearSweep`. A thumbnail
file is a pair of asset and version, because its name hashes path, size and
time. The generation check can fail in no behaviour, since clearing excludes
callers by `thumb_lock`; it is modelled all the same.

Two races take a file from under a row that was not re-indexed. A sweep or a removal
falls between the worker's last look and its answer, and a call that joined the job
meanwhile publishes the path (section 6, `UnderminedResultsAreDropped`); and a demand
takes another demand's `NULL` for a re-index (`LostRaceIsAReindex`). The history variable
`pulled` holds the files these two took, until they are rendered again, and
`PublishedFileSurvives` excepts only them: nothing else ever removes a file that a row
shows while its source is what the row says. `returned` holds the files of which an
old version came back; for those the bulk renderer may delete what another call has
just published, when a source is lost and put back unchanged, and the next demand
renders it again.

`Returns` bounds the environment: `FALSE` keeps `returned` empty. `Demands` says
whether `ensure_asset_thumbnail` is called at all: no command is registered for it.

### VideoSessions
`player`, `active` are the fields of `PlayerState` under their mutex, `queue` the
worker's channel, `session`, `core` and `failed` the worker's decoder, `calls` the
`open_video` tasks, `surface` the native surface and `wakeup`, `timer` what its
controls loop waits for. Sync commands and the loop run on the main thread, so
`ui` says whether a two-part command is under way. The worker's `open` is
`TakeOpen`, `StopReached`, `RetireStopped`, `CreateClient`, `Commit` and `Load`,
with a step wherever it takes the mutex anew. Retiring and enqueueing `Close` are
one step (both happen before anyone can act on the difference); libmpv is assumed
to accept `stop`, but waiting for it may time out. Labels change nothing that is
modelled.

### LibraryTags, LibrarySchema, BundleTransfer
A database is a record whose fields are its tables and version markers.
`LibraryTags` has the transactions that touch tags, `LibrarySchema` the list of
statements of `init_schema` (`Statements`, `Execute`), each of which commits
alone, the end of the process between any two (`Interrupt`), and what a database
must satisfy to be restored (`ValidateBackupDatabase`). `InitSchema` is the same
function where nothing can interrupt it. `BundleTransfer` extends it with export
(`ExportSnapshot`, `WriteArchive`, `PublishArchive`, `AbandonExport`), inspection
and import: extraction, validation, migration in staging, and
`RewriteStagedPaths` with root mappings, links, nested roots and thumbnail
references. The replacement of the live files is RestoreSwap's and one step
here. Text is opaque: what `lower()`, `to_lowercase`, `trim` and the separators
do is given by tables, so that the difference between SQL's ASCII folding and
Rust's is kept. `Found` and `Files` are libraries and bundles that the releases
produced. The three modules assume, by name and checked on each run:
`TextAssumption`, the laws the conversions obey (`LawsHold`: folding is done once
and for all, `to_lowercase` folds whatever `lower()` folds, a piece has no
separators left, a tag may be folded before or after it is split);
`FoundAssumption`, that a library found is a database of this schema and, if it is
the program's own, that the version it records vouches for the columns derived
under it (`Vouched`; rows of `tags` may be left over that nobody uses, whatever their
spelling); `FilesAssumption`, that the database in an archive has the
tables and types of one, and no more: it may be of any release, and wrong. Modelled and worth knowing: the rows are rewritten one after the other
under `UNIQUE(path)`, so a mapping that shifts roots into each other's places is
refused (the interface maps only Windows roots, where this cannot arise); two
roots that differ only in case cannot be mapped; a crash during export or
inspection leaves `backup-snapshot-*.db` or `restore-inspect-*` behind, which
nothing sweeps.

## 3. Runs

| run | instance | size | what it shows |
|---|---|---|---|
| `DatabaseRuntime` | three commands, one of them excluding others, two connections, one worker each | 135,000 states | pool slots and wakeups are accounted for; lock combinations exclude what they must; the gate implements `MaintenanceGate`; every command ends |
| `RestoreSwap` | two bundles, three failing calls, three crashes | 87,000 states, deadlock checked | recovery is always possible, generations are never mixed, crashes lose nothing, a restarted program recovers |
| `RestoreSwapWarning` | the same | violation | section 6 |
| `FileMutation` | two assets, three paths, two batches of up to two items, two failures, two crashes, one file of another program, symmetry | 281,000 states | files survive, rows name their files, what is staged is journaled, crashes never make startup refuse, reports are true |
| `FileMutationStaleRow` | smaller bounds of the same | violation | section 6 |
| `AssetQuery` | two starts, one page, two assets, two tags, three filters, cache of two, two revisions, symmetry | 841,000 states | answers are snapshots, sessions are right as long as their markers, only obsolete ones are dropped, starts answer in order |
| `ScanPipeline` | four files (one not UTF-8), a root inside another, two scans, two workers, one panic, one change by others, batches of two, a task channel of one | 485,000 states | the channels never block each other, scans end, complete scans are exact, present files keep their rows |
| `ThumbScheduler` | three callers, two videos, one image, two workers, pools of one core and of more, at most two jobs, two waiters each | 111,000 states | no job or caller is lost or served twice, no wake-up is lost, high priority goes first, every caller is served |
| `ThumbPublication` | two assets, two callers of any kind, two versions, one change of a file, one clear, pages and flight of one, symmetry | 3,917,000 states | rows and failures are true of their files, no published file is deleted but by the two races of section 2, what is cleared stays cleared, every asset is answered once |
| `VideoSessions` | two requests, one control waiting | 118,000 states | only the newest request loads, whatever plays has an owner, fullscreen and snapshot agree, retired pictures disappear, opens are answered |
| `BundleTransfer` | eight libraries of all releases, one of them with a tag nobody uses, five bundles, one crash, one edit, one export, one import, nested roots and two links | 91,000 states | upgrades converge and keep the library, exports are whole and restore, imports keep its contents and its places |
| `UpgradedLibrary` | one library, upgrades only | violation | section 6 |

**Why these bounds are enough to be interesting.** Two commands suffice for an
interference, the third lets one wait while the others exchange a connection or
the gate. One connection makes every nested use of the pool collide. Three
failures or crashes let an error occur in the operation, in its compensation and
in recovery. Two batches let a journal row of one meet the work of the next;
three paths let a rename end where another began. Two starts and a page race for
the cache in every order, two revisions let a write fall before, between and
after them; three filters want a tag, exclude a tag among favorites, and want a tag
count in a group, so each kind of marker has a reader. In the scan a batch of two with four
files gives two full batches and results from the first while the second is
sent; two scans let unchanged, changed, vanished and shared files meet a
database the first scan left. In the scheduler two workers suffice for one to
sleep beside a runnable job; of three callers two fill the queue or a job and the
third is refused, joins, or comes back for a key that is done. One video at a
time while browsing, instead of the code's two, makes the limit bind with two
videos; the two pools make bulk mode lower the limits in one and raise them in the
other. For publication two callers of every pair of kinds meet one clear and one
change, pages and flight of one make the bulk renderer cross a page boundary with a
render open; old versions that return (two changes, one asset) and three callers of one
asset were checked apart from the runs, and `ThumbPublication_proofs` covers any number. Two
video requests supersede, cancel and overtake one another; a third only repeats
the relation between the newest and the rest. One crash reaches every statement of
an upgrade, and the libraries with partial shapes are where a second crash would
lead; two roots side by side can be sent to one place by name or through a link; one edit, one export and one import follow in every order, so an import of
one's own export and an export of an imported library occur. What depends on larger numbers (channel sizes,
pool sizes, numbers of commands or files) is proved, section 5.

`CHECK_DEADLOCK FALSE` is set where every command, request, scan or transfer is made a
bounded number of times and the system then really stops. Deadlocks show as
violations of the liveness properties (`EveryCommandEnds`, `EveryScanEnds`,
`RestartRecovers`).

All liveness here is checked, not proved. Some checked properties are
conjunctions of named parts: `PoolIsSound`, `AlwaysRecoverable`, `FilesAreSafe`,
`WorkIsAccountedFor`, `RowsAreTrue` and `PlaybackIsOwned`; the type
invariant is one of the parts where a module states one that is not proved.

## 4. Fairness

DatabaseRuntime: weak fairness of each thread's own step and of each worker's
end. The operating system schedules threads, the 5-second pool timeout fires,
and workers run to their end whatever happens to the command (they own what they
need). No fairness is assumed of failures, timeouts racing wakeups, or of new
commands. RestoreSwap: weak fairness of the importing or recovering process
itself; failures and crashes are bounded, not fair. ScanPipeline: weak fairness of the scanning
thread's parts and of the workers; a worker's probe of a file ends because media
tools are killed after 12 seconds. The run keeps one of the two workers free of
panics: when all of them panic while more tasks are waiting than the channel
holds, the scanning thread waits for good, because it keeps the receiver alive
itself (`scan_service.rs:104`); the hazard at `scan_service.rs:366` says so.

ThumbScheduler: weak fairness of each worker thread, and of the notification that
follows a released mutex; renders end because ffmpeg is killed after a time limit.
Nobody has to enqueue, or start or end a bulk render. Callers are finitely many:
under an endless supply of high-priority jobs a low one may wait for good, which
the hazard at `thumb_scheduler.rs:244` says.

VideoSessions: weak fairness of the worker's steps, of the second half of a main
thread command, of libmpv completing a stop and of the controls loop; strong
fairness of each `open_video` task and of the worker taking its next command
(it looks at the queue after at most 64 events), because other steps interrupt
them but the runtime polls them again; strong fairness of hiding a retired picture,
because the window manager may refuse to leave fullscreen, though not forever.

AssetQuery, FileMutation, ThumbPublication and BundleTransfer state no liveness: their steps wait for nothing but
the gate, the locks and the pool, which DatabaseRuntime covers, and for renders,
which ThumbScheduler covers.

## 5. Proofs

TLAPS proves the following for every value of the constants, from the named
assumptions in the modules: bounds are naturals and sizes at least one, sets of
files, commands or assets are finite where they are counted, markers such as
`NoRow` differ from what they mark.

**DatabaseRuntime_proofs.** Type correctness, `MaintenanceIsAlone`,
`PoolAccounting`, `NoLostWakeup`, `LocksFreeWhenDrained`,
`DestructiveWorkIsAlone`, the refinement `ImplementsGate`, and from them
`PoolAlwaysSound`. Counters mean
nothing by themselves to an induction, so the invariant says what they count:
`active` is the number of permits held by commands and workers, `total` the idle
connections plus the ones checked out, and the checked-out ones are counted by
program counter. Each action changes one membership and one counter together;
lemmas about these counts carry the proof.

**Bundle_proofs, the swap.** The last part of the module is about RestoreSwap:
`NeverIrreconcilable`, `NoOrphanedArtifacts`,
`SidecarsBelongToDatabase`, together `RecoveryAlwaysWorks`, `CrashesLoseNoWork`
and the refinement `ImplementsAtomicRestore`. The invariant says, for each step of
the swap, of its compensation and of recovery, which of a component's places holds
which generation, and that the journal on disk admits every one of these: this is what
makes a crash at any point recoverable.

**Bundle_proofs, the library and its bundles.** `UpgradeConverges`,
`UpgradeKeepsTheLibrary`, `PublishedArchiveIsWhole` and `ImportKeepsTheContents`, for
every library an earlier release left, every archive, every machine (its links,
its disk), and any number of interruptions, edits, exports and imports. The
invariant `BundleIInv` has two parts.

`StartInv` is about `init_schema`. The recorded version vouches for the columns
derived under it, always; and at statement `up` of a start, the statements before
it have brought what they bring (`ShapeReached`, `MarkersReached`, `DataReached`).
Neither suffices alone: a start that is interrupted leaves only the first, and the
next start, which skips what the version vouches for, needs it to arrive at the
second. The version is read once, after the columns are there, and kept in a local
variable while the stored one moves on, so the invariant ties the two. Of the
rows of `tags` it says that those still spelled otherwise, once the version vouches for
them, are `Leftovers`: nobody used them when the library was found. `UpgradeConverges`
says the same of an open library; that it may have such rows at all is
`UpgradedTagsAreNormalized` of section 6. A statement keeps `Content`:
paths, groups, thumbnails, roots, and of a tag the pieces it is found by, which is
what survives its canonical form. That the migration of tags keeps this for every
asset, whatever rows its predecessors in the loop merged or created, takes the
longest part of the module (`SetAssetTagsInTx` row by row, then the loop by
induction over the assets with `SetTagsInOrder`, a recursive function). The tag
editors of an open library keep it settled.

`TransferInv` is about bundles: what an export carries through its steps is a
settled library with its manifest, and every path on the disk holds what it held at
first or a complete archive. An import needs no invariant of the archive: what
`ValidateBackupDatabase` accepts, `StagedRestores` follows through the migration in
staging and the rewriting of the rows. The database in staging is less than a
settled one (`HalfDatabase`), because a legacy bundle may carry wrong counts and
derived columns until the last statements of its upgrade.

**AssetQuery_proofs.** All that its run checks: type correctness,
`CurrentSessionsAreRight`, `ReadyIsItsSnapshot`, `ReadyInArrivalOrder`,
`DroppedIsObsolete` and `CacheWithinBudget`. The heart is one lemma about each
writer: after it, a filter none of whose markers moved matches the same rows in
the same order. From it follow claims about every session and snapshot, names of
sessions that are never reused, and the emptiness of the cache while the library
is replaced. Request tokens give the arrival order. A second invariant, `CacheInv`,
is inductive on top of the first: nothing read or cached is ahead of the markers it
depends on, a page's snapshot is younger than its session, and the id of a session
that is about to be inserted is known to nobody else. What the operations do to
the cache is one notion, `Within`: the new sessions are old ones at different
positions, hence still apart and no more to store. The module assumes finitely
many assets.

**ScanPipeline_proofs.** Type correctness, `ResultsFit`, `ScanIsExact`,
`MetadataIsCurrent` and `PresentFilesKeepRows`. Each file found is in exactly one
place of the pipeline unless a warning or a panic has occurred, in which case
nothing is pruned; tasks sent equal what is outstanding, accepted or lost in a
panic; what is outstanding after a drain is at most the task channel and the
workers, so one more batch fits into the result channel.

**FileMutation_proofs.** `FilesAreSafe`, `ReportsAreTrue`, `RowsNameTheirFiles`
and `CrashesNeverRefuse`, for any numbers of assets, paths, batches, failures,
crashes and files of other programs. Each holds under weaker assumptions than the
next, so there are four invariants, each inductive on top of the one before:
`SafeInv`, whatever fails and whoever meddles (a move never replaces a file, and
the file behind each step of a batch is staged, journaled or in place);
`PlacesInv`, while nobody meddles (where the file of every item of the batch is
at each step, so that a report can be compared with it); `OrderlyInv`, with at most
one failed call (where the file of every asset is across crashes, when the batch
that moved it is gone and only its journal row tells); `FlawlessInv`, with none (what
a journal row can still meet at the next start, so recovery has always one place to take
a file from and one to put it). The bounds in the hypotheses are those of the
properties themselves, and a behaviour outside them loses only the stronger
promises.

**ThumbPublication_proofs.** `RowsAreTrue`, `ClearSticks`, `EveryAssetAnsweredOnce`
and `PublishedFileSurvives`, for any
numbers of assets, callers, versions, changes and clears, and whether or not old
versions return. Again the layers
differ in what they need. `TrueInv`: what a caller has read stays behind the row
it read it from (the id of an inserted row is new, the version of a row only
grows while it keeps its id), and every statement in its list of operations
belongs to the version it read; while a clear is under way no caller holds the
lock. `HandInv`: a file that a caller, or a worker past its last look, is about to
name is there, obsolete or in `pulled`, and one that a caller is about to delete is
obsolete, or was mistaken for it. A version is obsolete once its source has moved on from
it, or once an old version of that source came back (`returned`), so obsolete is forever. `CountInv`: an asset of a call is still to be
visited, waited for, in an update, or under exactly one answer, and a bulk render
pages by rising id, so that it meets no asset twice. The module assumes
finitely many assets, and at least one.

**VideoSessions_proofs.** `PlaybackIsOwned`, `FullscreenHasAnOwner` and
`OnlyTheNewestLoads`, for any numbers of requests and waiting controls. One
invariant, `VideoInv`, carries all three: only the newest request that was not
cancelled may still open; each call asks the worker once, in the queue or in its
hands, so that a request commits at most one session and session numbers stay
within their bound; for each step of the worker, what the decoder may be doing and
for whom; the surface shows committed sessions only.

**ThumbScheduler_proofs.** `WorkIsAccountedFor`, `NoLostWakeup` and
`HighPriorityFirst`, for any keys, callers, pools and limits. `SchedulerInv` says
that a job is in one queue once or with one renderer, in the queue of its
priority, that the counters are cardinalities of sets of rendering threads, and
that a caller waits in one place of one list until its result. That no wake-up is
lost does not follow from any of this step by step: a notification may go to a
worker that finds another job or none. What is inductive is a count: the jobs that
could start are never more than the workers awake and the notifications to come.
There are three ways to bound these jobs (by the threads admitted, by all keys
queued, by the images queued and the videos admitted), and each step may pass from
one to another.

**What proving changed.** Three properties that every run passed were not
invariants of larger instances, and the models now say what is true.
`FilesSurvive` did not allow for the deletion through a stale row described in
section 2 (three batches). `ReportsAreTrue` said that rows had been changed,
without the file the change found, and failed with many failures.
`PublishedFileSurvives` was false with four callers, because of the race of
`LostRaceIsAReindex`, and false once the worker's last look and its answer are steps of
their own; it now names both races as exceptions, and a configuration of section 6 shows each.

Trying to prove what an import promises separated two claims. That contents
survive holds for every instance, and is now `ImportKeepsTheContents`; that every
file is where its root went does not, and is `ImportKeepsThePlaces`: see below.
It also brought out the unused tag of section 6: `UpgradeConverges` first said that
every tag of an open library is canonical, and now says what the upgrade achieves.

**Only model-checked.** All liveness (out of the prover's reach, as is
`ENABLED`). `CompleteExportsRestore`: that the importer accepts an export depends on
the machine as well (no root that has vanished and is then exported onto), and as stated
it is about the instances of the run. It leaves out libraries that lost a thumbnail, got
a nullable file name or kept a tag's old spelling, whose exports
`MissingThumbnailsBecomeNull`, `UpgradedLibraryIsCurrent` and
`UpgradedTagsAreNormalized` of section 6 are about.
`ImportKeepsThePlaces`: three cases that the run's machine does not have would break
it, none of which loses contents. Two assets may end up at one missing file, one of
them through a link; a bundle replaced between inspection and import by one whose
roots differ in the case of letters beyond ASCII gets mappings meant for the other;
and the names of thumbnails need a typing that an archive from elsewhere does not
promise.

**Proved and in no run.** The type invariants of DatabaseRuntime, RestoreSwap,
AssetQuery, ScanPipeline, FileMutation and ThumbPublication (those of the other
modules are parts of properties their runs check), `MaintenanceIsAlone` and `LocksFreeWhenDrained` of DatabaseRuntime and
`ResultsFit` of ScanPipeline; the parts of `PoolIsSound` and `AlwaysRecoverable`
are proved one by one and checked together.

## 6. Findings

Each is a counterexample of the model to a sentence of the documentation or
to a claim the code makes; `PROJECT.json` quotes both sides.

- **RestoreSwapWarning.** `write_restore_journal` is called outside the
  compensated block. When only the directory sync after publication fails, the
  import reports a plain error, the journal stays, the user works on, and the
  next startup rolls back over the newly committed transactions.
- **FileMutationStaleRow.** A source that vanishes while a batch runs leaves an
  uncommitted journal row; if a later batch commits a rename to the same target,
  startup moves the committed file away.
- **UpgradedLibrary.** A library of a release without file names gets a nullable
  column, validation demands `NOT NULL` of every identified database: it runs and
  exports, and none of its bundles can be restored.

Four more sentences are false of the models. Each is a property of its module
with a configuration of its own, under which TLC finds the violation in seconds
(`tlc -config LeftTag.cfg MCBundleTransfer`); they are not among the runs of
section 3, whose properties name the same cases as exceptions:

- `UpgradedTagsAreNormalized` (LibrarySchema, `MCBundleTransfer` under `LeftTag.cfg`).
  Deleting assets without `cleanup_orphan_tags` (`delete_stale_assets_by_prefix`,
  `db/scan_membership.rs:70-81`; `db/mutations.rs:57-58` cleans up in a statement of its
  own) leaves rows of `tags` that no asset has. Suppose that row is "CAT" and an asset
  has the tag "Cat;dog". The migration splits it into "cat" and "dog";
  `set_asset_tags_in_tx` (`mutations.rs:560-574`) inserts "cat" `ON CONFLICT DO
  NOTHING`, selects it `COLLATE NOCASE`, and so links the old row "CAT". Version 3 is
  recorded although a tag is not canonical, against `docs/subsystems/database.md:86`,
  and `validate_backup_data` refuses every backup of this library.
- `UnderminedResultsAreDropped` (ThumbPublication, `ThumbPublicationSwept.cfg`). A
  render left behind by a call that timed out or was cancelled has had its last look at
  its file when a clear sweeps the directory; a call that starts after the clear joins
  the job, is answered with the path and publishes it. The comment in
  `clear_all_thumbnails` (`thumb_service.rs:995-996`) says that such results "are
  dropped instead of written back". The row names a missing file until another call
  finds it missing.
- `LostRaceIsAReindex` (ThumbPublication, `ThumbPublicationLostRace.cfg`). The
  compare-and-set is an `UPDATE` and, when that changed nothing, a re-read; its comment
  says that anything but an equal value is "a lost race against a re-index"
  (`db/thumbnails.rs:264-265`). When the value was equal at the `UPDATE` and another
  demand for the same asset, whose render failed, writes `NULL` before the re-read, the
  caller takes that for a re-index (`thumb_service.rs:608-612`) and deletes the file,
  although a further caller may have published it again meanwhile. Only
  `ensure_asset_thumbnail` runs the two statements outside a transaction, and no command
  is registered for it.
- `MissingThumbnailsBecomeNull` (BundleTransfer, `MCBundleTransfer` under
  `LostThumbnail.cfg`). A bundle of the current format whose database names a thumbnail
  that is not in the archive is refused (`backup_service.rs:953-957`), so the export of
  a library that lost a thumbnail file cannot be restored, while
  `docs/subsystems/data-safety-and-portability.md:133` says "missing or ambiguous
  references become null".

Observed while modelling, stated as properties of the modules, and in no run:

- `UnresolvedIsJournaled` (FileMutation): a rolled-back batch with a deletion of a
  missing source reports that item unresolved although no journal row or recovery
  path exists.
- `CleanupNeverBlocksStartup` (FileMutation): a pending cleanup whose scan root was
  removed makes the next startup fail, though
  `docs/subsystems/data-safety-and-portability.md` says cleanup does not.
- `SupersededByNewerStart` (AssetQuery): a start can be answered `superseded` with
  no newer start when an export clears the cache; the interface keeps the old rows.
- `init_schema` adds `source_record_version` and deletes the old failures in two
  statements (`schema.rs:181`). A crash between them leaves failures of version 0,
  which validation refuses in a current database.

## 7. What is not modelled, and the plan

What would come next, most important first:

1. The frontend's `useLibraryAssets`, `useThumbnailQueue` and the native video
   session: counters and refs against answers in any order, composed with the
   sessions of `AssetQuery`. Until then the hazard at `useLibraryAssets.ts:241` has
   no property.
2. CSV merging and the tag filters as operators, each against a reference
   definition over bounded inputs.

Left out for good: the text of read queries (what they select is a snapshot in
AssetQuery), the zip format and hashing, decoding of images and video (external
programs), GTK layout and drawing, the operating system's lock file, and rendering
of the interface. One definition the models rest on is a
recursive function, `SetTagsInOrder`; its loop is proved about by induction over the
ids. What a recursive function computes for every input is otherwise out of the
prover's reach and stays with TLC.
