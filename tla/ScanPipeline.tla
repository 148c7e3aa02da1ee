---------------------------- MODULE ScanPipeline ----------------------------
(***************************************************************************)
(* Scanning one root folder (services/scan_service.rs with indexer.rs and  *)
(* db/scan_membership.rs): one thread walks the folder, sorts unchanged    *)
(* files from changed ones, feeds the changed ones to worker threads       *)
(* through a bounded channel, drains their results from another one,       *)
(* writes them in batches, and prunes what a complete scan did not see.    *)
(*                                                                         *)
(* The scan mutex lets one scan run at a time; scan_roots over several     *)
(* roots is one of these scans after another.  Meanwhile other programs    *)
(* write and remove files.  A file written again, or put back, has a new   *)
(* version, which its fingerprint shows; generations are not repeated.     *)
(* The order of the files inside batches and channels does not matter to   *)
(* anything here, so these are sets.                                       *)
(***************************************************************************)
EXTENDS Naturals, FiniteSets

CONSTANTS Files,          \* the supported media files there may be
          Roots,
          Below,          \* Below[r]: the files in the folder r
          NotUtf8,        \* the files whose paths are not valid UTF-8
          Workers,        \* what resolve_scan_worker_count returns
          MaxScanWorkers, \* MAX_SCAN_WORKERS
          TaskCapacity,   \* SCAN_QUEUE_CAPACITY
          BatchSize,      \* SCAN_DB_BATCH_SIZE
          NoRow,          \* no row in assets
          MaxScans,       \* bound on the scans
          MaxPanics,      \* bound on the workers that panic in one scan
          MaxChanges      \* bound on the changes other programs make

ASSUME FilesAssumption == IsFiniteSet(Files) /\ NotUtf8 \subseteq Files
ASSUME BelowAssumption == Below \in [Roots -> SUBSET Files]
ASSUME NoRowAssumption == NoRow \notin [mtime : Nat, probed : Nat]
ASSUME SizesAssumption ==
    /\ MaxScanWorkers \in Nat /\ Workers \in 1 .. MaxScanWorkers
    /\ TaskCapacity \in Nat \ {0} /\ BatchSize \in Nat \ {0}
    /\ {MaxScans, MaxPanics, MaxChanges} \subseteq Nat

VARIABLES
    version,    \* version[f]: how often file f was written
    present,    \* the files that are on disk
    row,        \* row[f]: the fingerprint and metadata stored of file f
    mapped,     \* the rows <<file, root>> of asset_scan_roots
    sighted,    \* the files mapped to the current root in this generation
    pc,         \* the next step of the scanning thread
    root,       \* the root being scanned
    unvisited,  \* what the walk has not come to yet
    print,      \* print[f]: the fingerprint the walk read of f, zero if none
    batch,      \* discovery_batch
    unchanged,  \* unchanged_ids
    tasks,      \* the task channel
    inspecting, \* the files workers hold
    results,    \* the result channel
    probed,     \* probed[f]: the version whose metadata a worker read
    pending,    \* pending_writes
    queued,     \* tasks sent
    completed,  \* results accepted
    panicked,   \* workers that panicked
    warned,     \* some file could not be read, fingerprinted or indexed
    outcome,    \* how the last scan ended
    steady,     \* the files on disk ever since the scan began
    scans, changes

disk == <<version, present, steady, changes>>
db == <<row, mapped, sighted>>
walk == <<root, unvisited, print, batch, warned>>
workers == <<tasks, inspecting, results, probed, panicked>>
counts == <<queued, completed>>
vars == <<version, present, row, mapped, sighted, pc, root, unvisited, print,
          batch, unchanged, tasks, inspecting, results, probed, pending, queued,
          completed, panicked, warned, outcome, steady, scans, changes>>

Found == {f \in Files : print[f] # 0}
Outcomes == {"none", "complete", "partial", "failed"}
Steps == {"idle", "discover", "dispatch", "drain", "collect", "prune"}

\* Mutant of ResultCapacity: files in the hands of workers are forgotten.
ForgetWorkers == TaskCapacity + BatchSize
\* SCAN_RESULT_QUEUE_CAPACITY
ResultCapacity == TaskCapacity + BatchSize + MaxScanWorkers

\* The scan returns: its batches, channels and counters are dropped.
Return(result) ==
    /\ pc' = "idle"
    /\ outcome' = result
    /\ batch' = {} /\ unchanged' = {} /\ tasks' = {} /\ inspecting' = {}
    /\ results' = {} /\ pending' = {} /\ unvisited' = {}
    /\ probed' = [f \in Files |-> 0]
    /\ queued' = 0 /\ completed' = 0 /\ panicked' = 0 /\ warned' = FALSE
    /\ UNCHANGED <<root, print, scans>>

Init ==
    /\ present \in SUBSET Files
    /\ version = [f \in Files |-> 1]
    /\ row = [f \in Files |-> NoRow]
    /\ mapped = {}
    /\ sighted = {}
    /\ pc = "idle"
    /\ root \in Roots
    /\ print = [f \in Files |-> 0]
    /\ batch = {} /\ unchanged = {} /\ tasks = {} /\ inspecting = {}
    /\ results = {} /\ pending = {} /\ unvisited = {}
    /\ probed = [f \in Files |-> 0]
    /\ queued = 0 /\ completed = 0 /\ panicked = 0 /\ warned = FALSE
    /\ outcome = "none"
    /\ steady = {}
    /\ scans = 0 /\ changes = 0

-----------------------------------------------------------------------------
(* The walk *)

\* A new generation: no file has been sighted in it.
Start(r) ==
    /\ pc = "idle"
    /\ scans < MaxScans
    /\ scans' = scans + 1
    /\ root' = r
    /\ unvisited' = Below[r]
    /\ print' = [f \in Files |-> 0]
    /\ sighted' = {}
    /\ steady' = present
    /\ outcome' = "none"
    /\ pc' = "discover"
    /\ UNCHANGED <<version, present, row, mapped, batch, unchanged, workers,
                   pending, counts, warned, changes>>

\* The visitor of visit_supported_files meets f and reads its fingerprint.
Visit(f) ==
    /\ pc = "discover"
    /\ f \in unvisited \cap present
    /\ unvisited' = unvisited \ {f}
    /\ print' = [print EXCEPT ![f] = version[f]]
    /\ batch' = batch \cup {f}
    /\ pc' = IF Cardinality(batch) + 1 >= BatchSize THEN "dispatch" ELSE "discover"
    /\ UNCHANGED <<disk, db, root, unchanged, workers, pending, counts, warned,
                   outcome, scans>>

\* The entry is an error, or its metadata cannot be read.
VisitFails(f) ==
    /\ pc = "discover"
    /\ f \in unvisited
    /\ unvisited' = unvisited \ {f}
    /\ warned' = TRUE
    /\ UNCHANGED <<disk, db, pc, root, print, batch, unchanged, workers, pending,
                   counts, outcome, scans>>

\* The walk finds nothing more: the files left are not there.
EndWalk ==
    /\ pc = "discover"
    /\ unvisited \cap present = {}
    /\ unvisited' = {}
    /\ pc' = "dispatch"
    /\ UNCHANGED <<disk, db, root, print, batch, unchanged, workers, pending,
                   counts, warned, outcome, scans>>

-----------------------------------------------------------------------------
(* dispatch_discovery_batch *)

IsUnchanged(f) == row[f] # NoRow /\ row[f].mtime = print[f]

\* touch_scan_root_assets
Touch(files) ==
    /\ mapped' = mapped \cup (files \X {root})
    /\ sighted' = sighted \cup files

KeepUnchanged(f) ==
    /\ pc = "dispatch"
    /\ f \in batch
    /\ IsUnchanged(f)
    /\ batch' = batch \ {f}
    /\ unchanged' = unchanged \cup {f}
    /\ UNCHANGED <<disk, db, pc, root, unvisited, print, workers, pending, counts,
                   warned, outcome, scans>>

\* Mutant of Send: the task channel is not bounded.
SendAnyway(f) ==
    /\ pc = "dispatch"
    /\ f \in batch
    /\ ~IsUnchanged(f)
    /\ batch' = batch \ {f}
    /\ tasks' = tasks \cup {f}
    /\ queued' = queued + 1
    /\ UNCHANGED <<disk, db, pc, root, unvisited, print, unchanged, inspecting,
                   results, probed, pending, completed, panicked, warned, outcome,
                   scans>>

\* The send waits while the task channel is full.
Send(f) ==
    /\ pc = "dispatch"
    /\ f \in batch
    /\ ~IsUnchanged(f)
    /\ Cardinality(tasks) < TaskCapacity
    /\ batch' = batch \ {f}
    /\ tasks' = tasks \cup {f}
    /\ queued' = queued + 1
    /\ UNCHANGED <<disk, db, pc, root, unvisited, print, unchanged, inspecting,
                   results, probed, pending, completed, panicked, warned, outcome,
                   scans>>

\* Mutant of EndDispatch: the ids that fill no batch are never touched.
TouchFullBatchesOnly ==
    /\ pc = "dispatch"
    /\ batch = {}
    /\ IF Cardinality(unchanged) >= BatchSize
         THEN Touch(unchanged) ELSE UNCHANGED <<mapped, sighted>>
    /\ unchanged' = {}
    /\ pc' = "drain"
    /\ UNCHANGED <<disk, row, walk, workers, pending, counts, outcome, scans>>

EndDispatch ==
    /\ pc = "dispatch"
    /\ batch = {}
    /\ IF Cardinality(unchanged) >= BatchSize
         THEN Touch(unchanged) /\ unchanged' = {}
         ELSE UNCHANGED <<mapped, sighted, unchanged>>
    /\ pc' = "drain"
    /\ UNCHANGED <<disk, row, walk, workers, pending, counts, outcome, scans>>

-----------------------------------------------------------------------------
(* The workers, which share the task channel *)

Take(f) ==
    /\ f \in tasks
    /\ Cardinality(inspecting) + panicked < Workers
    /\ tasks' = tasks \ {f}
    /\ inspecting' = inspecting \cup {f}
    /\ UNCHANGED <<disk, db, pc, walk, unchanged, results, probed, pending, counts,
                   panicked, outcome, scans>>

\* build_asset reads what it can of the file as it is now; the send waits
\* while the result channel is full.
Finish(f) ==
    /\ f \in inspecting
    /\ Cardinality(results) < ResultCapacity
    /\ inspecting' = inspecting \ {f}
    /\ results' = results \cup {f}
    /\ probed' = [probed EXCEPT ![f] = IF f \in present THEN version[f] ELSE 0]
    /\ UNCHANGED <<disk, db, pc, walk, unchanged, tasks, pending, counts, panicked,
                   outcome, scans>>

Panic(f) ==
    /\ f \in inspecting
    /\ panicked < MaxPanics
    /\ panicked' = panicked + 1
    /\ inspecting' = inspecting \ {f}
    /\ UNCHANGED <<disk, db, pc, walk, unchanged, tasks, results, probed, pending,
                   counts, outcome, scans>>

-----------------------------------------------------------------------------
(* Results, writes and the end of the scan *)

\* Mutant of Stored: the fingerprint is read again when the row is written.
ReadAgain(f) == [mtime |-> version[f], probed |-> probed[f]]

Stored(f) == [mtime |-> print[f], probed |-> probed[f]]

\* flush_scan_batch: the items and the revision in one transaction.
Flush(items) ==
    /\ row' = [f \in Files |-> IF f \in items THEN Stored(f) ELSE row[f]]
    /\ Touch(items)
    /\ pending' = {}

\* accept_scan_result: paths that are not UTF-8 fail, others give an item.
Accept(f) ==
    /\ f \in results
    /\ results' = results \ {f}
    /\ completed' = completed + 1
    /\ warned' = (warned \/ f \in NotUtf8)
    /\ LET items == pending \cup ({f} \ NotUtf8)
       IN  IF Cardinality(items) >= BatchSize
             THEN Flush(items)
             ELSE pending' = items /\ UNCHANGED <<row, mapped, sighted>>
    /\ UNCHANGED <<disk, root, unvisited, print, batch, unchanged, tasks,
                   inspecting, probed, queued, panicked, outcome, scans>>

\* drain_ready_scan_results
Drain(f) == pc = "drain" /\ Accept(f) /\ pc' = pc

\* The walk goes on, or the task channel is closed and the rest touched.
EndDrain ==
    /\ pc = "drain"
    /\ results = {}
    /\ IF unvisited # {}
         THEN pc' = "discover" /\ UNCHANGED <<mapped, sighted, unchanged>>
         ELSE pc' = "collect" /\ Touch(unchanged) /\ unchanged' = {}
    /\ UNCHANGED <<disk, row, walk, workers, pending, counts, outcome, scans>>

Receive(f) ==
    /\ pc = "collect"
    /\ completed < queued
    /\ Accept(f)
    /\ pc' = pc

\* Mutant of Disconnected: the scanning thread keeps a result sender, so its
\* recv never reports that the workers are gone.
KeepSender == FALSE

\* Every worker has ended, one of them with a task it never answered.  A
\* panic is noticed here, never in join.
Disconnected ==
    /\ pc = "collect"
    /\ completed < queued
    /\ results = {}
    /\ inspecting = {}
    /\ tasks = {} \/ panicked = Workers
    /\ Return("failed")
    /\ UNCHANGED <<disk, db>>

EndCollect ==
    /\ pc = "collect"
    /\ completed = queued
    /\ Flush(pending)
    /\ pc' = "prune"
    /\ UNCHANGED <<disk, walk, unchanged, workers, counts, outcome, scans>>

\* Delete rows that no root maps.
Orphaned(mappings) ==
    [f \in Files |-> IF \E r \in Roots : <<f, r>> \in mappings THEN row[f] ELSE NoRow]

\* Mutant of Prune: partial scans prune too.
PruneAlways ==
    /\ pc = "prune"
    /\ mapped' = {m \in mapped : m[2] = root => m[1] \in sighted}
    /\ row' = Orphaned(mapped')
    /\ Return("complete")
    /\ UNCHANGED <<disk, sighted>>

\* prune_completed_scan_root_generation
Prune ==
    /\ pc = "prune"
    /\ IF warned
         THEN UNCHANGED <<row, mapped>> /\ Return("partial")
         ELSE /\ mapped' = {m \in mapped : m[2] = root => m[1] \in sighted}
              /\ row' = Orphaned(mapped')
              /\ Return("complete")
    /\ UNCHANGED <<disk, sighted>>

\* A hard error of the database, or the end of the process.  Workers that
\* outlive the error find their channels closed and change nothing.
Stop ==
    /\ pc # "idle"
    /\ Return("failed")
    /\ UNCHANGED <<disk, db>>

-----------------------------------------------------------------------------
(* Between scans, and other programs *)

\* remove_scan_root_and_orphan_assets, under the scan mutex
RemoveRoot(r) ==
    /\ pc = "idle"
    /\ mapped' = {m \in mapped : m[2] # r}
    /\ row' = Orphaned(mapped')
    /\ outcome' = "none"
    /\ UNCHANGED <<disk, sighted, pc, walk, unchanged, workers, pending, counts,
                   scans>>

Write(f) ==
    /\ changes < MaxChanges
    /\ changes' = changes + 1
    /\ version' = [version EXCEPT ![f] = @ + 1]
    /\ present' = present \cup {f}
    /\ UNCHANGED <<db, pc, walk, unchanged, workers, pending, counts, outcome,
                   steady, scans>>

Remove(f) ==
    /\ changes < MaxChanges
    /\ changes' = changes + 1
    /\ f \in present
    /\ present' = present \ {f}
    /\ steady' = steady \ {f}
    /\ UNCHANGED <<version, db, pc, walk, unchanged, workers, pending, counts,
                   outcome, scans>>

Discover == EndWalk \/ \E f \in Files : Visit(f) \/ VisitFails(f)
Dispatch == EndDispatch \/ \E f \in Files : KeepUnchanged(f) \/ Send(f)
Consume ==
    \/ EndDrain \/ EndCollect \/ Disconnected \/ Prune
    \/ \E f \in Files : Drain(f) \/ Receive(f)
Work == \E f \in Files : Take(f) \/ Finish(f)

Next ==
    \/ Discover \/ Dispatch \/ Consume \/ Work
    \/ \E f \in Files : Panic(f)
    \/ Stop
    \/ \E r \in Roots : Start(r) \/ RemoveRoot(r)
    \/ \E f \in Files : Write(f) \/ Remove(f)

Spec == Init /\ [][Next]_vars

\* The scanning thread and the workers are scheduled; probing a file ends
\* (media tools have a timeout).
Fairness ==
    /\ WF_vars(Discover) /\ WF_vars(Dispatch) /\ WF_vars(Consume) /\ WF_vars(Work)

FairSpec == Spec /\ Fairness

-----------------------------------------------------------------------------
(* Properties *)

TypeOK ==
    /\ version \in [Files -> Nat \ {0}]
    /\ present \subseteq Files /\ steady \subseteq present
    /\ row \in [Files -> [mtime : Nat \ {0}, probed : Nat] \cup {NoRow}]
    /\ mapped \subseteq {m \in Files \X Roots : m[1] \in Below[m[2]]}
    /\ sighted \subseteq Files
    /\ pc \in Steps /\ root \in Roots /\ outcome \in Outcomes
    /\ unvisited \cup batch \cup unchanged \subseteq Below[root]
    /\ tasks \cup inspecting \cup results \subseteq Below[root]
    /\ pending \subseteq Below[root] \ NotUtf8
    /\ print \in [Files -> Nat] /\ probed \in [Files -> Nat]
    /\ Cardinality(batch) <= BatchSize
    /\ Cardinality(tasks) <= TaskCapacity
    /\ queued \in Nat /\ completed \in 0 .. queued
    /\ panicked + Cardinality(inspecting) <= Workers /\ panicked \in Nat
    /\ warned \in BOOLEAN
    /\ scans \in Nat /\ changes \in Nat

\* A worker that holds a file finds room in the result channel when it is done
\* with it: what was outstanding at the last drain, and one batch, fit.  The
\* scanning thread, which waits in Send and reads nothing, cannot lock up with
\* workers that wait for it.
ResultsFit == inspecting # {} => Cardinality(results) < ResultCapacity

\* When a scan reports that it is complete, the root maps exactly the files
\* the walk found: each of them went through a touch or a written batch, in
\* whatever order batches and results came, and everything else was pruned.
ScanIsExact ==
    outcome = "complete" => \A f \in Files : <<f, root>> \in mapped <=> f \in Found

\* A scan never takes the row, with its tags, from a file that was on disk all
\* the time: not when the walk misses it, when its path cannot be stored, when
\* a worker panics, when another root maps it, or when the scan breaks off.
PresentFilesKeepRows ==
    [][pc # "idle" =>
        \A f \in steady : row[f] # NoRow => row'[f] # NoRow]_vars

\* A row whose fingerprint is the file's, which later scans take for
\* unchanged, has the metadata of that very version, or none, although
\* fingerprint and metadata are read at different times by different threads.
MetadataIsCurrent ==
    \A f \in Files : row[f] # NoRow /\ row[f].mtime = version[f] =>
        row[f].probed \in {0, version[f]}

\* A scan ends, as long as some worker is alive: the bounded channels cannot
\* block each other, and a panicked worker ends it with an error.
EveryScanEnds == pc # "idle" ~> pc = "idle"
=============================================================================
