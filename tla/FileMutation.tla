---------------------------- MODULE FileMutation ----------------------------
(***************************************************************************)
(* Deleting and renaming source files (services/asset_mutation_service.rs  *)
(* with db/mutations.rs): a batch of changes is journaled, staged on the   *)
(* file system, installed, committed in one SQLite transaction, finished,  *)
(* or rolled back; startup reconciles what an interrupted batch left.      *)
(*                                                                         *)
(* The workflow locks let one batch run at a time.  A step is one file     *)
(* system call with its directory sync, or one transaction; it may fail    *)
(* without effect, and a move or removal may fail in the sync after it     *)
(* took effect.  Other programs may create or remove files meanwhile.      *)
(* All paths are in one directory, and staging paths are never reused.     *)
(***************************************************************************)
EXTENDS Naturals, FiniteSets, Sequences

CONSTANTS Assets,        \* asset ids
          Paths,         \* file names in the library's directory
          NoFile,        \* no file at a path
          Foreign,       \* a file of another program
          Nowhere,       \* no path: an asset without row, a deletion's target
          MaxItems,      \* bound on the changes of one batch
          MaxBatches,    \* bound on the batches applied
          MaxFailures,   \* bound on the calls that fail
          MaxCrashes,    \* bound on the times the process dies
          MaxMeddlings   \* bound on the files others create or remove

ASSUME MarksAssumption ==
    /\ NoFile # Foreign
    /\ Assets \cap {NoFile, Foreign} = {}
    /\ Nowhere \notin Paths
ASSUME BoundsAssumption ==
    {MaxItems, MaxBatches, MaxFailures, MaxCrashes, MaxMeddlings} \subseteq Nat

VARIABLES
    row,        \* row[a]: path of asset a in the database, or Nowhere
    disk,       \* disk[p]: which asset's file is at p
    staged,     \* staged[b, a]: the file at the staging path of a in batch b
    journal,    \* rows of pending_file_operations
    batch,      \* the changes of the current batch, in their order
    number,     \* number of the current batch, its operation id
    pc,         \* the next step
    index,      \* the item the step is about
    installed,  \* items whose rename target is installed (finalized)
    unresolved, \* items reported as rollback failed or cleanup pending
    status,     \* what the last batch reported
    pending,    \* journal rows startup still has to look at
    rooted,     \* the directory is a scan root
    gone,       \* assets whose file others removed
    deleted,    \* files taken from the library by a committed deletion
    failures, crashes, meddlings

library == <<row, disk, staged, journal>>
history == <<rooted, gone, deleted>>
faults == <<failures, crashes, meddlings>>
vars == <<row, disk, staged, journal, batch, number, pc, index, installed,
          unresolved, status, pending, rooted, gone, deleted,
          failures, crashes, meddlings>>

Batches == 1 .. MaxBatches
Files == Assets \cup {NoFile, Foreign}     \* what may be at a path
Actions == {"rename", "delete"}
Changes == [asset : Assets, action : Actions, original : Paths,
            target : Paths \cup {Nowhere}, file : Files]
JournalRows == [batch : Batches, asset : Assets, action : Actions,
                original : Paths, target : Paths \cup {Nowhere}, committed : BOOLEAN]
Steps == {"idle", "stage", "install", "commit", "finish", "dropRow",
          "rollback", "clear",
          "down", "recover", "refused"}
Reports == {"none", "committed", "rolledBack", "recoveryRequired"}

Init ==
    /\ row \in [Assets -> Paths]
    /\ \A a, b \in Assets : a # b => row[a] # row[b]
    /\ gone \in SUBSET Assets
    /\ disk = [p \in Paths |->
                IF \E a \in Assets \ gone : row[a] = p
                THEN CHOOSE a \in Assets \ gone : row[a] = p ELSE NoFile]
    /\ staged = [w \in Batches \X Assets |-> NoFile]
    /\ journal = {}
    /\ batch = <<>>
    /\ number = 0
    /\ pc = "idle"
    /\ index = 0
    /\ installed = {}
    /\ unresolved = {}
    /\ status = "none"
    /\ pending = {}
    /\ rooted = TRUE
    /\ deleted = {}
    /\ failures = 0 /\ crashes = 0 /\ meddlings = 0

Fault == failures < MaxFailures /\ failures' = failures + 1 /\ UNCHANGED <<crashes, meddlings>>
Item == batch[index]
Staging == <<number, Item.asset>>
Staged == staged[Staging] # NoFile
RowOf(item) == {r \in journal : r.batch = number /\ r.asset = item.asset}

-----------------------------------------------------------------------------
(* validate_and_prepare and the journal *)

\* A change of asset a: its new path, or Nowhere to delete it.  The program
\* only keeps whether the source was missing; which file it found is a note
\* for the properties.
Change(a, target) ==
    [asset |-> a, action |-> IF target = Nowhere THEN "delete" ELSE "rename",
     original |-> row[a], target |-> target, file |-> disk[row[a]]]
Missing(change) == change.file = NoFile

Acceptable(changes) ==
    LET sources == {changes[i].original : i \in 1 .. Len(changes)}
        changed == {changes[i].asset : i \in 1 .. Len(changes)}
    IN  \A i, j \in 1 .. Len(changes) :
            /\ i # j => changes[i].asset # changes[j].asset
            /\ changes[i].action = "rename" =>
                /\ ~Missing(changes[i])
                /\ changes[i].target \notin sources
                /\ i # j => changes[i].target # changes[j].target
                /\ \A a \in Assets \ changed : row[a] # changes[i].target
                /\ disk[changes[i].target] = NoFile

\* Missing sources have no staging path and no journal row.
Begin(changes) ==
    /\ pc = "idle"
    /\ number < MaxBatches
    /\ Acceptable(changes)
    /\ number' = number + 1
    /\ batch' = changes
    /\ journal' = journal \cup
          {[batch |-> number + 1, asset |-> c.asset, action |-> c.action,
            original |-> c.original, target |-> c.target, committed |-> FALSE] :
           c \in {changes[i] : i \in {n \in 1 .. Len(changes) : ~Missing(changes[n])}}}
    /\ pc' = "stage"
    /\ index' = 1
    /\ installed' = {}
    /\ unresolved' = {}
    /\ status' = "none"
    /\ UNCHANGED <<row, disk, staged, pending, history, faults>>

-----------------------------------------------------------------------------
(* Staging, installing, the database commit *)

Continue(here, next) ==
    IF index < Len(batch) THEN index' = index + 1 /\ pc' = here
                          ELSE index' = 1 /\ pc' = next
RollBack == pc' = "rollback" /\ index' = Len(batch)

\* rename_no_replace between the staging path and a path of the library.
ToStaging(p) ==
    /\ staged' = [staged EXCEPT ![Staging] = disk[p]]
    /\ disk' = [disk EXCEPT ![p] = NoFile]
FromStaging(p) ==
    /\ disk' = [disk EXCEPT ![p] = staged[Staging]]
    /\ staged' = [staged EXCEPT ![Staging] = NoFile]
NothingMoves == UNCHANGED <<disk, staged>>

Stage ==
    /\ pc = "stage"
    /\ \/ /\ Missing(Item)
          /\ NothingMoves /\ Continue("stage", "install") /\ UNCHANGED faults
       \/ /\ ~Missing(Item) /\ disk[Item.original] # NoFile
          /\ ToStaging(Item.original)
          /\ \/ Continue("stage", "install") /\ UNCHANGED faults
             \/ RollBack /\ Fault
       \/ /\ ~Missing(Item)
          /\ NothingMoves /\ RollBack
          /\ IF disk[Item.original] = NoFile THEN UNCHANGED faults ELSE Fault
    /\ UNCHANGED <<row, journal, batch, number, installed, unresolved, status, pending, history>>

CanInstall == Staged /\ disk[Item.target] = NoFile

Install ==
    /\ pc = "install"
    /\ \/ /\ Item.action = "delete"
          /\ NothingMoves /\ Continue("install", "commit") /\ UNCHANGED <<installed, faults>>
       \/ /\ Item.action = "rename" /\ CanInstall
          /\ FromStaging(Item.target)
          /\ installed' = installed \cup {Item.asset}
          /\ \/ Continue("install", "commit") /\ UNCHANGED faults
             \/ RollBack /\ Fault
       \/ /\ Item.action = "rename"
          /\ NothingMoves /\ RollBack /\ UNCHANGED installed
          /\ IF CanInstall THEN Fault ELSE UNCHANGED faults
    /\ UNCHANGED <<row, journal, batch, number, unresolved, status, pending, history>>

RowsAfter ==
    [a \in Assets |-> IF \E i \in 1 .. Len(batch) : batch[i].asset = a
                      THEN batch[CHOOSE i \in 1 .. Len(batch) : batch[i].asset = a].target
                      ELSE row[a]]

\* What the deletions of this batch have staged.
DeletedFiles ==
    {staged[<<number, batch[i].asset>>] :
        i \in {n \in 1 .. Len(batch) : batch[n].action = "delete"}} \cap Assets

\* Mutant of Commit: the journal's committed flag is not in the transaction.
CommitWithoutFlag ==
    /\ pc = "commit"
    /\ row' = RowsAfter
    /\ deleted' = deleted \cup DeletedFiles
    /\ pc' = "finish" /\ index' = 1
    /\ UNCHANGED <<disk, staged, journal, batch, number, installed, unresolved,
                   status, pending, rooted, gone, faults>>

\* Rows, revision and the journal's flags change in one transaction.
Commit ==
    /\ pc = "commit"
    /\ \/ /\ row' = RowsAfter
          /\ journal' = {IF r.batch = number THEN [r EXCEPT !.committed = TRUE] ELSE r :
                         r \in journal}
          /\ deleted' = deleted \cup DeletedFiles
          /\ pc' = "finish" /\ index' = 1
          /\ UNCHANGED faults
       \/ RollBack /\ Fault /\ UNCHANGED <<row, journal, deleted>>
    /\ UNCHANGED <<disk, staged, batch, number, installed, unresolved, status,
                   pending, rooted, gone>>

-----------------------------------------------------------------------------
(* After the commit *)

\* Mutant of Report: the cursor runs past the last item.
ReportPastTheEnd(here, done, failedItems) ==
    /\ unresolved' = failedItems
    /\ index' = index + 1
    /\ IF index < Len(batch)
       THEN pc' = here /\ UNCHANGED status
       ELSE /\ pc' = "idle"
            /\ status' = IF failedItems = {} THEN done ELSE "recoveryRequired"

\* The item is settled; the next one starts at here, or the batch reports.
Report(here, done, failedItems) ==
    /\ unresolved' = failedItems
    /\ IF index < Len(batch)
       THEN index' = index + 1 /\ pc' = here /\ UNCHANGED status
       ELSE /\ index' = 0
            /\ pc' = "idle"
            /\ status' = IF failedItems = {} THEN done ELSE "recoveryRequired"

Resolved == unresolved
Unresolved == unresolved \cup {Item.asset}

\* Mutant of Finish: the journal row goes before the staged file.
FinishDropsRowFirst ==
    /\ pc = "finish"
    /\ IF Item.action = "delete" /\ Missing(Item)
       THEN Report("finish", "committed", Resolved) /\ UNCHANGED <<staged, journal, faults>>
       ELSE /\ journal' = journal \ RowOf(Item)
            /\ \/ /\ staged' = [staged EXCEPT ![Staging] = NoFile]
                  /\ Report("finish", "committed", Resolved) /\ UNCHANGED faults
               \/ Report("finish", "committed", Unresolved) /\ Fault /\ UNCHANGED staged
    /\ UNCHANGED <<row, disk, batch, number, installed, pending, history>>

\* An item's file first: a deletion's staged file is removed now.
Finish ==
    /\ pc = "finish"
    /\ IF Item.action = "delete" /\ Missing(Item)
       THEN Report("finish", "committed", Resolved) /\ UNCHANGED <<staged, faults>>
       ELSE \/ /\ staged' = [staged EXCEPT ![Staging] = NoFile]
               /\ pc' = "dropRow"
               /\ UNCHANGED <<index, unresolved, status, faults>>
            \/ /\ Item.action = "delete"
               /\ staged' \in {staged, [staged EXCEPT ![Staging] = NoFile]}
               /\ Report("finish", "committed", Unresolved) /\ Fault
    /\ UNCHANGED <<row, disk, journal, batch, number, installed, pending, history>>

\* Then its journal row; an item whose row stays is left to recovery.
DropRow ==
    /\ pc = "dropRow"
    /\ \/ /\ journal' = journal \ RowOf(Item)
          /\ Report("finish", "committed", Resolved) /\ UNCHANGED faults
       \/ Report("finish", "committed", Unresolved) /\ Fault /\ UNCHANGED journal
    /\ UNCHANGED <<row, disk, staged, batch, number, installed, pending, history>>

-----------------------------------------------------------------------------
(* Rollback before the commit: rollback_files and clear_restored_journal *)

\* A rename that was installed comes back from its target.
FromCurrent ==
    IF Item.asset \in installed THEN disk[Item.target] # NoFile ELSE Staged

MoveBack ==
    IF Item.asset \in installed
    THEN /\ disk' = [disk EXCEPT ![Item.original] = disk[Item.target],
                                 ![Item.target] = NoFile]
         /\ UNCHANGED staged
    ELSE FromStaging(Item.original)

RollbackDone(failed) ==
    /\ unresolved' = IF failed THEN Unresolved ELSE Resolved
    /\ installed' = installed \ {Item.asset}
    /\ IF index > 1 THEN index' = index - 1 /\ UNCHANGED pc
                    ELSE index' = 1 /\ pc' = "clear"

\* Items come back in reverse order, never over a file that is in the way.
Rollback ==
    /\ pc = "rollback"
    /\ \/ /\ Missing(Item)
          /\ NothingMoves /\ RollbackDone(FALSE) /\ UNCHANGED faults
       \/ /\ ~Missing(Item) /\ ~FromCurrent
          /\ NothingMoves /\ RollbackDone(disk[Item.original] = NoFile) /\ UNCHANGED faults
       \/ /\ ~Missing(Item) /\ FromCurrent /\ disk[Item.original] = NoFile
          /\ MoveBack
          /\ \/ RollbackDone(FALSE) /\ UNCHANGED faults
             \/ RollbackDone(TRUE) /\ Fault
       \/ /\ ~Missing(Item) /\ FromCurrent
          /\ NothingMoves /\ RollbackDone(TRUE)
          /\ IF disk[Item.original] = NoFile THEN Fault ELSE UNCHANGED faults
    /\ UNCHANGED <<row, journal, batch, number, status, pending, history>>

\* An item counts as restored when its original is a file again and nothing
\* is at its staging path and its target; a missing source is none.
Restored ==
    /\ disk[Item.original] # NoFile
    /\ ~Staged
    /\ Item.action = "rename" => disk[Item.target] = NoFile

\* Mutant of Clear: rows are removed for items that did not come back, too.
ClearAll ==
    /\ pc = "clear"
    /\ journal' = journal \ RowOf(Item)
    /\ Report("clear", "rolledBack", {})
    /\ UNCHANGED <<row, disk, staged, batch, number, installed, pending, history, faults>>

Clear ==
    /\ pc = "clear"
    /\ IF Item.asset \notin unresolved /\ Restored
       THEN \/ journal' = journal \ RowOf(Item) /\ Report("clear", "rolledBack", Resolved) /\ UNCHANGED faults
            \/ Report("clear", "rolledBack", Unresolved) /\ Fault /\ UNCHANGED journal
       ELSE Report("clear", "rolledBack", Unresolved) /\ UNCHANGED <<journal, faults>>
    /\ UNCHANGED <<row, disk, staged, batch, number, installed, pending, history>>

-----------------------------------------------------------------------------
(* recover_pending_file_operations at startup *)

Startup ==
    /\ pc \in {"down", "refused"}
    /\ pc' = "recover"
    /\ pending' = journal
    /\ UNCHANGED <<library, batch, number, index, installed, unresolved, status, history, faults>>

Die ==
    /\ crashes < MaxCrashes
    /\ crashes' = crashes + 1
    /\ pc' = "down"
    /\ pending' = {}
Refuse == pc' = "refused" /\ UNCHANGED <<library, pending, faults>>
Pass(r) == pending' = pending \ {r} /\ UNCHANGED pc
\* The file is settled; then the row goes, or that fails, or the process dies.
Forget(r) ==
    \/ journal' = journal \ {r} /\ Pass(r) /\ UNCHANGED faults
    \/ pc' = "refused" /\ Fault /\ UNCHANGED <<journal, pending>>
    \/ Die /\ UNCHANGED <<journal, failures, meddlings>>

At(r) == <<r.batch, r.asset>>

RecoverRename(r) ==
    /\ r.action = "rename" /\ r.committed
    /\ IF disk[r.target] = NoFile THEN Refuse
       ELSE Forget(r) /\ UNCHANGED <<row, disk, staged>>

\* Mutant of RecoverDelete: a staged file that is gone already is an error.
RecoverDeleteStrictly(r) ==
    /\ r.action = "delete" /\ r.committed
    /\ IF staged[At(r)] = NoFile \/ ~rooted THEN Refuse
       ELSE staged' = [staged EXCEPT ![At(r)] = NoFile] /\ Forget(r) /\ UNCHANGED <<row, disk>>

\* Only a staged file below a scan root is removed; an error keeps the row.
RecoverDelete(r) ==
    /\ r.action = "delete" /\ r.committed
    /\ IF staged[At(r)] # NoFile /\ ~rooted THEN Refuse
       ELSE \/ /\ staged' = [staged EXCEPT ![At(r)] = NoFile]
               /\ Forget(r) /\ UNCHANGED <<row, disk>>
            \/ /\ staged' \in {staged, [staged EXCEPT ![At(r)] = NoFile]}
               /\ Pass(r) /\ Fault /\ UNCHANGED <<row, disk, journal>>

\* Mutant of RecoverUncommitted: what is staged is taken for waste.
RecoverByRemoving(r) ==
    /\ ~r.committed
    /\ staged' = [staged EXCEPT ![At(r)] = NoFile]
    /\ Forget(r)
    /\ UNCHANGED <<row, disk>>

\* The file at the staging path, else the one at the target, goes back.
RecoverUncommitted(r) ==
    LET atStaging == staged[At(r)] # NoFile
        atTarget == r.action = "rename" /\ disk[r.target] # NoFile
    IN  /\ ~r.committed
        /\ IF ~atStaging /\ ~atTarget
           THEN IF disk[r.original] = NoFile THEN Refuse
                ELSE Forget(r) /\ UNCHANGED <<row, disk, staged>>
           ELSE IF disk[r.original] # NoFile THEN Refuse
           ELSE /\ IF atStaging
                   THEN /\ disk' = [disk EXCEPT ![r.original] = staged[At(r)]]
                        /\ staged' = [staged EXCEPT ![At(r)] = NoFile]
                   ELSE /\ disk' = [disk EXCEPT ![r.original] = disk[r.target],
                                                ![r.target] = NoFile]
                        /\ UNCHANGED staged
                /\ IF atStaging /\ atTarget
                   THEN pc' = "refused" /\ UNCHANGED <<journal, pending, faults>>
                   ELSE Forget(r)
                /\ UNCHANGED row

\* The move back fails without effect.
RecoverFails(r) ==
    /\ ~r.committed
    /\ disk[r.original] = NoFile
    /\ staged[At(r)] # NoFile \/ (r.action = "rename" /\ disk[r.target] # NoFile)
    /\ pc' = "refused" /\ Fault
    /\ UNCHANGED <<library, pending>>

Recover ==
    /\ pc = "recover"
    /\ \E r \in pending :
          RecoverRename(r) \/ RecoverDelete(r) \/ RecoverUncommitted(r) \/ RecoverFails(r)
    /\ UNCHANGED <<batch, number, index, installed, unresolved, status, history>>

Started ==
    /\ pc = "recover"
    /\ pending = {}
    /\ pc' = "idle"
    /\ UNCHANGED <<library, batch, number, index, installed, unresolved, status,
                   pending, history, faults>>

-----------------------------------------------------------------------------
(* Crashes, other programs, other commands *)

\* The process dies, or is quit while it is idle.
Crash ==
    /\ pc \notin {"down", "refused"}
    /\ Die
    /\ UNCHANGED <<library, batch, number, index, installed, unresolved, status,
                   history, failures, meddlings>>

\* Another program creates a file, or removes one that is not staged.
Meddle(p) ==
    /\ meddlings < MaxMeddlings
    /\ meddlings' = meddlings + 1
    /\ disk' = [disk EXCEPT ![p] = IF @ = NoFile THEN Foreign ELSE NoFile]
    /\ gone' = gone \cup ({disk[p]} \cap Assets)
    /\ UNCHANGED <<row, staged, journal, batch, number, pc, index, installed,
                   unresolved, status, pending, rooted, deleted, failures, crashes>>

\* remove_scan_root and clear_library drop the rows and never look at the journal.
RemoveRoot ==
    /\ pc = "idle"
    /\ rooted
    /\ rooted' = FALSE
    /\ row' = [a \in Assets |-> Nowhere]
    /\ UNCHANGED <<disk, staged, journal, batch, number, pc, index, installed,
                   unresolved, status, pending, gone, deleted, faults>>

-----------------------------------------------------------------------------
Indexed == {a \in Assets : row[a] # Nowhere}

Next ==
    \/ \E n \in 1 .. MaxItems :
          \E f \in [1 .. n -> Indexed \X (Paths \cup {Nowhere})] :
              Begin([i \in 1 .. n |-> Change(f[i][1], f[i][2])])
    \/ Stage \/ Install \/ Commit \/ Finish \/ DropRow
    \/ Rollback \/ Clear
    \/ Startup \/ Recover \/ Started
    \/ Crash \/ RemoveRoot
    \/ \E p \in Paths : Meddle(p)

Spec == Init /\ [][Next]_vars

-----------------------------------------------------------------------------
(* Properties *)

TypeOK ==
    /\ row \in [Assets -> Paths \cup {Nowhere}]
    /\ disk \in [Paths -> Files]
    /\ staged \in [Batches \X Assets -> Files]
    /\ journal \subseteq JournalRows
    /\ batch \in Seq(Changes) /\ Len(batch) <= MaxItems
    /\ number \in 0 .. MaxBatches
    /\ pc \in Steps
    /\ index \in 0 .. MaxItems
    /\ installed \subseteq Assets
    /\ unresolved \subseteq Assets
    /\ status \in Reports
    /\ pending \subseteq JournalRows
    /\ rooted \in BOOLEAN
    /\ gone \subseteq Assets /\ deleted \subseteq Assets
    /\ failures \in 0 .. MaxFailures
    /\ crashes \in 0 .. MaxCrashes
    /\ meddlings \in 0 .. MaxMeddlings

FilesPresent ==
    {disk[p] : p \in Paths} \cup {staged[w] : w \in Batches \X Assets}

(***************************************************************************)
(* No interleaving of failures, crashes, recoveries and other programs     *)
(* makes the program destroy a source file that no committed deletion took *)
(* from its path: moves never replace a file and staged files go last.     *)
(***************************************************************************)
FilesSurvive == Assets \ (gone \cup deleted) \subseteq FilesPresent

(***************************************************************************)
(* A file at a hidden staging path always has its journal row: otherwise   *)
(* no startup would ever bring it back or remove it.                       *)
(***************************************************************************)
StagedIsJournaled ==
    \A w \in Batches \X Assets :
        staged[w] # NoFile => \E r \in journal : At(r) = w

(***************************************************************************)
(* Both together: every source file is still there, and where a startup    *)
(* looks for it; and every variable has its type.                          *)
(***************************************************************************)
FilesAreSafe == TypeOK /\ FilesSurvive /\ StagedIsJournaled

(***************************************************************************)
(* As long as the program rests and has nothing to recover, a row with its *)
(* tags and metadata names the place of its own file: after one failed     *)
(* call and any crashes.  With other programs in the directory it need not *)
(* be so, which is what RecoveryKeepsCommittedFiles is about.              *)
(***************************************************************************)
RowsNameTheirFiles ==
    (pc = "idle" /\ journal = {} /\ failures <= 1 /\ meddlings = 0) =>
        \A a \in Assets \ gone : row[a] # Nowhere => disk[row[a]] = a

(***************************************************************************)
(* A crash at any point, also during recovery, never makes startup refuse  *)
(* a library that nothing else went wrong with.                            *)
(***************************************************************************)
CrashesNeverRefuse == failures = 0 /\ meddlings = 0 => pc # "refused"

(***************************************************************************)
(* A batch reported rolled back left every row and file as it found them,  *)
(* and one reported committed applied every change to the file it found;   *)
(* neither left anything to recover, whatever failed on the way.           *)
(***************************************************************************)
BatchApplied ==
    \A i \in 1 .. Len(batch) : LET c == batch[i] IN
        /\ row[c.asset] = c.target
        /\ c.action = "rename" => disk[c.target] = c.file
        /\ staged[<<number, c.asset>>] = NoFile
BatchUndone ==
    \A i \in 1 .. Len(batch) : LET c == batch[i] IN
        /\ row[c.asset] = c.original
        /\ ~Missing(c) => disk[c.original] = c.file
        /\ staged[<<number, c.asset>>] = NoFile
NothingToRecover == \A r \in journal : r.batch # number
ReportsAreTrue ==
    [][(pc \in {"finish", "dropRow", "clear"} /\ pc' = "idle"
            /\ meddlings' = 0) =>
        /\ status' = "committed" => BatchApplied' /\ NothingToRecover'
        /\ status' = "rolledBack" => BatchUndone' /\ NothingToRecover']_vars

(***************************************************************************)
(* The documentation: unresolved positions retain their journal rows.  So  *)
(* a batch that reports recoveryRequired has left something to recover.    *)
(***************************************************************************)
UnresolvedIsJournaled ==
    (pc = "idle" /\ status = "recoveryRequired") =>
        \E r \in journal : r.batch = number /\ r.asset \in unresolved

(***************************************************************************)
(* The documentation: cleanup-only delete failures retain the journal but  *)
(* do not prevent startup.  So a startup whose own calls all succeed does  *)
(* not refuse when all it finds are committed deletions.                   *)
(***************************************************************************)
CleanupNeverBlocksStartup ==
    [][(pc = "recover" /\ pc' = "refused" /\ failures' = failures) =>
        \E r \in pending : ~(r.committed /\ r.action = "delete")]_vars

(***************************************************************************)
(* The documentation: after the commit database identity is authoritative  *)
(* and rename targets are installed.  So recovery leaves a file alone that *)
(* is where its row says.                                                  *)
(***************************************************************************)
RecoveryKeepsCommittedFiles ==
    [][pc = "recover" =>
        \A a \in Assets : row[a] # Nowhere /\ disk[row[a]] = a /\ meddlings' = meddlings
            => disk'[row[a]] = a]_vars
=============================================================================
