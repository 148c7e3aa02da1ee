----------------------------- MODULE RestoreSwap -----------------------------
(***************************************************************************)
(* Bundle restore (services/backup_service.rs): import_db_bundle swaps the *)
(* live database and thumbnail tree for a staged generation under a        *)
(* restore journal, and recover_interrupted_restore undoes or completes    *)
(* the swap, called by a failed import, by a finished one and by startup.  *)
(*                                                                         *)
(* A step is one file system call with the directory sync that follows it. *)
(* It may fail without effect, fail in the sync after it took effect, and  *)
(* a recursive removal may fail half way; the process may die before any   *)
(* step and inside one that is more than a single call.  A component is    *)
(* identified by the generation it came from.                              *)
(***************************************************************************)
EXTENDS Naturals, FiniteSets

CONSTANTS Bundles,      \* generations to import, each at most once
          Original,     \* the generation the profile holds at first
          Absent,       \* nothing at this path
          Fresh,        \* created empty by the program
          Torn,         \* what a recursive removal left of a tree
          MaxFailures,  \* bound on the file system calls that fail
          MaxCrashes    \* bound on the times the process dies

ASSUME MarksAssumption ==
    /\ Cardinality({Original, Absent, Fresh, Torn}) = 4
    /\ Bundles \cap {Original, Absent, Fresh, Torn} = {}
ASSUME FaultsAssumption == MaxFailures \in Nat /\ MaxCrashes \in Nat

VARIABLES
    files,     \* files[p]: what is at path p of the profile
    wal,       \* the generation the live database's sidecars belong to
    journal,   \* restore-journal.json, or Absent
    pc,        \* the next step of the process
    reason,    \* who called recover_interrupted_restore
    bundle,    \* the generation being imported
    imported,  \* the bundles imports were started for
    result,    \* what the last import reported
    failures,  \* file system calls that failed
    crashes    \* times the process died

swapVars == <<files, wal, journal, pc, reason, bundle, imported, result,
          failures, crashes>>

Paths == {"db", "thumbs",                      \* media.db, thumbs
          "previousDb", "previousThumbs",      \* *.restore-previous
          "stagedDb", "stagedThumbs"}          \* restore-staging/*
Contents == Bundles \cup {Original, Absent, Fresh, Torn}
Phases == {"swapping", "committed"}
Journals == [phase : Phases, db : BOOLEAN, thumbs : BOOLEAN]
ASSUME JournalAssumption == Absent \notin Journals
Results == {"none", "ok", "error", "rollbackFailed"}

Installing == {"asideDb", "asideThumbs", "installDb", "installThumbs",
               "verify", "commit"}
Recovering == {"recover", "undoDb", "undoThumbs", "dropDb", "dropThumbs",
               "dropStage", "dropJournal"}
Steps == {"down", "open", "idle", "stage", "prepare"} \cup Installing \cup Recovering

SwapInit ==
    /\ \E db, thumbs \in {Original, Absent} :
          files = [p \in Paths |-> CASE p = "db" -> db
                                     [] p = "thumbs" -> thumbs
                                     [] OTHER -> Absent]
    /\ wal = Absent
    /\ journal = Absent
    /\ pc = "idle"
    /\ reason = "startup"
    /\ bundle = Original
    /\ imported = {}
    /\ result = "none"
    /\ failures = 0
    /\ crashes = 0

Exists(p) == files[p] # Absent
Moved(from, to) == [files EXCEPT ![to] = files[from], ![from] = Absent]
Removed(p) == [files EXCEPT ![p] = Absent]
\* A tree's removal that fails leaves it, or part of it, or only failed to sync.
HalfRemoved(p) ==
    {files, Removed(p), [files EXCEPT ![p] = IF @ = Absent THEN Absent ELSE Torn]}
StageRemoved == [files EXCEPT !["stagedDb"] = Absent, !["stagedThumbs"] = Absent]
StageTorn ==
    {files, StageRemoved,
     [files EXCEPT !["stagedDb"] = Absent,
                   !["stagedThumbs"] = IF files["stagedThumbs"] = Absent
                                       THEN Absent ELSE Torn]}

Fault == failures < MaxFailures /\ failures' = failures + 1 /\ UNCHANGED crashes
Die ==
    /\ pc' = "down"
    /\ crashes < MaxCrashes /\ crashes' = crashes + 1
    /\ UNCHANGED <<reason, result, failures>>
NoFault == UNCHANGED <<failures, crashes>>

-----------------------------------------------------------------------------
(* The running program *)

\* A command commits a transaction; with WAL it is in the sidecar at first.
Edit ==
    /\ pc = "idle"
    /\ Exists("db")
    /\ wal' = files["db"]
    /\ UNCHANGED <<files, journal, pc, reason, bundle, imported, result, failures, crashes>>

\* SQLite moves the sidecar's transactions into the database file.
Checkpoint ==
    /\ pc = "idle"
    /\ wal # Absent
    /\ wal' = Absent
    /\ UNCHANGED <<files, journal, pc, reason, bundle, imported, result, failures, crashes>>

\* Opening a connection creates a database that is missing.
OpenMissing ==
    /\ pc = "idle"
    /\ ~Exists("db")
    /\ files' = [files EXCEPT !["db"] = Fresh]
    /\ UNCHANGED <<wal, journal, pc, reason, bundle, imported, result, failures, crashes>>

-----------------------------------------------------------------------------
(* import_db_bundle *)

BeginImport(b) ==
    /\ pc = "idle"
    /\ ~Exists("previousDb") /\ ~Exists("previousThumbs") /\ journal = Absent
    /\ b \notin imported
    /\ imported' = imported \cup {b}
    /\ bundle' = b
    /\ pc' = "stage"
    /\ UNCHANGED <<files, wal, journal, reason, result, failures, crashes>>

\* The import returns its error; nothing live was touched.
Abandon == pc' = "idle" /\ result' = "error" /\ Fault /\ UNCHANGED reason

\* An old staging tree is removed, the archive extracted and validated; an
\* error removes the staging tree again as far as that works.
Stage ==
    /\ pc = "stage"
    /\ \/ /\ files' = [files EXCEPT !["stagedDb"] = bundle, !["stagedThumbs"] = bundle]
          /\ pc' = "prepare"
          /\ UNCHANGED <<result, reason>> /\ NoFault
       \/ /\ files' \in StageTorn \cup
                {[files EXCEPT !["stagedDb"] = Torn, !["stagedThumbs"] = Torn]}
          /\ Abandon \/ Die
    /\ UNCHANGED <<wal, journal, bundle, imported>>

NewJournal(phase) ==
    [phase |-> phase, db |-> Exists("db"), thumbs |-> Exists("thumbs")]

\* Mutant of Prepare: the current database is not checkpointed.
PrepareWithoutCheckpoint ==
    /\ pc = "prepare"
    /\ journal' = NewJournal("swapping")
    /\ pc' = "asideDb"
    /\ UNCHANGED <<files, wal, reason, bundle, imported, result, failures, crashes>>

(***************************************************************************)
(* Checkpoint, remove the sidecars, write the swapping journal.  All of it *)
(* is outside the block whose errors are compensated: when only the sync   *)
(* after the journal's publication fails, the journal stays.               *)
(***************************************************************************)
Prepare ==
    /\ pc = "prepare"
    /\ \/ /\ wal' = Absent
          /\ journal' = NewJournal("swapping")
          /\ pc' = "asideDb"
          /\ UNCHANGED <<result, reason>> /\ NoFault
       \/ /\ wal' \in {wal, Absent}
          /\ journal' = journal
          /\ Abandon \/ Die
       \/ /\ wal' = Absent
          /\ journal' = NewJournal("swapping")
          /\ Abandon
    /\ UNCHANGED <<files, bundle, imported>>

\* An error inside the compensated block starts the rollback.
Compensate == pc' = "recover" /\ reason' = "rollback" /\ Fault

InstallStep(here, next, moved) ==
    /\ pc = here
    /\ \/ /\ files' = moved
          /\ pc' = next
          /\ UNCHANGED reason /\ NoFault
       \/ /\ files' \in {files, moved}
          /\ Compensate
    /\ UNCHANGED <<wal, journal, bundle, imported, result>>

AsideDb == InstallStep("asideDb", "asideThumbs",
               IF journal.db THEN Moved("db", "previousDb") ELSE files)
AsideThumbs == InstallStep("asideThumbs", "installDb",
               IF journal.thumbs THEN Moved("thumbs", "previousThumbs") ELSE files)
InstallDb == InstallStep("installDb", "installThumbs", Moved("stagedDb", "db"))
InstallThumbs == InstallStep("installThumbs", "verify", Moved("stagedThumbs", "thumbs"))

\* Open, migrate, validate, bump the revision, checkpoint, drop the sidecars.
Verify ==
    /\ pc = "verify"
    /\ \/ /\ wal' = Absent
          /\ pc' = "commit"
          /\ UNCHANGED <<reason, result>> /\ NoFault
       \/ /\ wal' \in {Absent, files["db"]}
          /\ (Compensate /\ UNCHANGED result) \/ Die
    /\ UNCHANGED <<files, journal, bundle, imported>>

\* Mutant of Commit: the previous generation's journal is simply deleted.
CommitWithoutCleanup ==
    /\ pc = "commit"
    /\ journal' = Absent
    /\ pc' = "recover"
    /\ reason' = "cleanup"
    /\ UNCHANGED <<files, wal, bundle, imported, result, failures, crashes>>

\* The atomic rewrite of the journal is the commit point of the restore.
Commit ==
    /\ pc = "commit"
    /\ \/ /\ journal' = [journal EXCEPT !.phase = "committed"]
          /\ pc' = "recover"
          /\ reason' = "cleanup"
          /\ NoFault
       \/ /\ journal' \in {journal, [journal EXCEPT !.phase = "committed"]}
          /\ Compensate
    /\ UNCHANGED <<files, wal, bundle, imported, result>>

-----------------------------------------------------------------------------
(* recover_interrupted_restore *)

\* How its caller continues when recovery succeeds, and when it fails.
Recovered ==
    /\ pc' = IF reason = "startup" THEN "open" ELSE "idle"
    /\ result' = CASE reason = "cleanup" -> "ok"
                   [] reason = "rollback" -> "error"
                   [] OTHER -> result
Unrecovered ==
    /\ pc' = IF reason = "startup" THEN "down" ELSE "idle"
    /\ result' = CASE reason = "cleanup" -> "error"
                   [] reason = "rollback" -> "rollbackFailed"
                   [] OTHER -> result

Fails == Unrecovered /\ Fault /\ UNCHANGED reason

\* A step of recovery ends in after, or stops at one of partial.
RecoveryStep(here, next, after, partial) ==
    /\ pc = here
    /\ \/ /\ files' = after
          /\ pc' = next
          /\ UNCHANGED <<reason, result>> /\ NoFault
       \/ /\ files' \in partial
          /\ Fails \/ Die
    /\ UNCHANGED <<wal, journal, bundle, imported>>

GiveUp ==
    /\ Unrecovered
    /\ UNCHANGED <<files, wal, journal, reason, bundle, imported, failures, crashes>>

NothingToRecover ==
    /\ pc = "recover"
    /\ journal = Absent
    /\ Recovered
    /\ UNCHANGED <<files, wal, journal, reason, bundle, imported, failures, crashes>>

\* Mutant of BeginUndo: the sidecars of the abandoned database stay.
BeginUndoKeepingSidecars ==
    /\ pc = "recover"
    /\ journal # Absent /\ journal.phase = "swapping"
    /\ pc' = "undoDb"
    /\ UNCHANGED <<files, wal, journal, reason, bundle, imported, result, failures, crashes>>

BeginUndo ==
    /\ pc = "recover"
    /\ journal # Absent /\ journal.phase = "swapping"
    /\ \/ /\ wal' = Absent
          /\ pc' = "undoDb"
          /\ UNCHANGED <<reason, result>> /\ NoFault
       \/ /\ wal' \in {wal, Absent}
          /\ Fails \/ Die
    /\ UNCHANGED <<files, journal, bundle, imported>>

\* restore_previous_component: what it leaves, at once or by its last call.
Irreconcilable(live, previous, existed) ==
    existed /\ ~Exists(previous) /\ ~Exists(live)
Undone(live, previous, existed) ==
    IF ~existed THEN Removed(live)
    ELSE IF Exists(previous) THEN Moved(previous, live) ELSE files

\* Mutant of UndoDb: a live database without its previous one is removed.
UndoDbRemovesFirst ==
    RecoveryStep("undoDb", "undoThumbs",
        IF Exists("previousDb") THEN Moved("previousDb", "db") ELSE Removed("db"),
        {files, Removed("db")})

\* Recovery gives up when neither the live nor the previous one is there.
UndoDb ==
    /\ pc = "undoDb"
    /\ IF Irreconcilable("db", "previousDb", journal.db) THEN GiveUp
       ELSE LET undone == Undone("db", "previousDb", journal.db)
            IN  RecoveryStep("undoDb", "undoThumbs", undone,
                    IF journal.db /\ ~Exists("previousDb") THEN {}
                    ELSE {files, Removed("db"), undone})

\* Mutant of UndoThumbs: live thumbnails are kept when there are any.
UndoOnlyMissingThumbs ==
    RecoveryStep("undoThumbs", "dropStage",
        IF Exists("thumbs") THEN Removed("previousThumbs")
        ELSE Moved("previousThumbs", "thumbs"), {files})

UndoThumbs ==
    /\ pc = "undoThumbs"
    /\ IF Irreconcilable("thumbs", "previousThumbs", journal.thumbs) THEN GiveUp
       ELSE LET undone == Undone("thumbs", "previousThumbs", journal.thumbs)
            IN  RecoveryStep("undoThumbs", "dropStage", undone,
                    IF journal.thumbs /\ ~Exists("previousThumbs") THEN {}
                    ELSE HalfRemoved("thumbs") \cup {undone})

LiveIsComplete == Exists("db") /\ Exists("thumbs")

BeginCleanup ==
    /\ pc = "recover"
    /\ journal # Absent /\ journal.phase = "committed"
    /\ \/ /\ IF LiveIsComplete THEN pc' = "dropDb" /\ UNCHANGED result ELSE Unrecovered
          /\ UNCHANGED reason /\ NoFault
       \/ Fails
    /\ UNCHANGED <<files, wal, journal, bundle, imported>>

DropDb == RecoveryStep("dropDb", "dropThumbs",
              Removed("previousDb"), {files, Removed("previousDb")})
DropThumbs == RecoveryStep("dropThumbs", "dropStage",
                  Removed("previousThumbs"), HalfRemoved("previousThumbs"))
DropStage == RecoveryStep("dropStage", "dropJournal", StageRemoved, StageTorn)

\* Mutant of DropJournal: the journal is marked instead of removed.
MarkJournalDone ==
    /\ pc = "dropJournal"
    /\ journal' = [journal EXCEPT !.phase = "done"]
    /\ Recovered
    /\ UNCHANGED <<files, wal, reason, bundle, imported, failures, crashes>>

DropJournal ==
    /\ pc = "dropJournal"
    /\ \/ journal' = Absent /\ Recovered /\ UNCHANGED reason /\ NoFault
       \/ journal' \in {journal, Absent} /\ Fails
    /\ UNCHANGED <<files, wal, bundle, imported>>

-----------------------------------------------------------------------------
(* Crash and startup *)

Crash ==
    /\ pc # "down"
    /\ Die
    /\ UNCHANGED <<files, wal, journal, bundle, imported>>

Startup ==
    /\ pc = "down"
    /\ pc' = "recover"
    /\ reason' = "startup"
    /\ UNCHANGED <<files, wal, journal, bundle, imported, result, failures, crashes>>

\* Mutant of OpenProfile: the profile is opened before recovery is complete.
OpenBeforeRecovery ==
    /\ pc \in {"open", "down"}
    /\ files' = [files EXCEPT !["db"] = IF @ = Absent THEN Fresh ELSE @,
                              !["thumbs"] = IF @ = Absent THEN Fresh ELSE @]
    /\ pc' = "idle"
    /\ UNCHANGED <<wal, journal, reason, bundle, imported, result, failures, crashes>>

\* Startup creates thumbs/, then opens or creates the database.
OpenProfile ==
    /\ pc = "open"
    /\ IF Exists("thumbs")
       THEN /\ files' = [files EXCEPT !["db"] = IF @ = Absent THEN Fresh ELSE @]
            /\ pc' = "idle"
       ELSE /\ files' = [files EXCEPT !["thumbs"] = Fresh]
            /\ pc' = "open"
    /\ UNCHANGED <<wal, journal, reason, bundle, imported, result, failures, crashes>>

-----------------------------------------------------------------------------
Import ==
    \/ Stage \/ Prepare \/ AsideDb \/ AsideThumbs
    \/ InstallDb \/ InstallThumbs \/ Verify \/ Commit

Recover ==
    \/ NothingToRecover \/ BeginUndo \/ UndoDb \/ UndoThumbs
    \/ BeginCleanup \/ DropDb \/ DropThumbs \/ DropStage \/ DropJournal

Proceed == Startup \/ OpenProfile \/ Import \/ Recover

SwapNext ==
    \/ Proceed
    \/ Edit \/ Checkpoint \/ OpenMissing \/ Crash
    \/ \E b \in Bundles : BeginImport(b)

SwapSpec == SwapInit /\ [][SwapNext]_swapVars

\* A running import or recovery goes on, and a user starts the program again.
FairSwapSpec == SwapSpec /\ WF_swapVars(Proceed)

-----------------------------------------------------------------------------
(* Properties *)

SwapTypeOK ==
    /\ files \in [Paths -> Contents]
    /\ wal \in Contents
    /\ journal \in Journals \cup {Absent}
    /\ pc \in Steps
    /\ reason \in {"startup", "rollback", "cleanup"}
    /\ bundle \in Bundles \cup {Original}
    /\ imported \subseteq Bundles
    /\ result \in Results
    /\ failures \in 0 .. MaxFailures
    /\ crashes \in 0 .. MaxCrashes

Swapping == journal # Absent /\ journal.phase = "swapping"

\* The component recovery would leave live, were it run now.
Kept(live, previous, existed) ==
    IF ~Swapping THEN files[live]
    ELSE IF ~existed THEN Absent
    ELSE IF Exists(previous) THEN files[previous] ELSE files[live]

Library == [c \in {"db", "thumbs"} |->
    IF c = "db" THEN Kept("db", "previousDb", journal.db)
                ELSE Kept("thumbs", "previousThumbs", journal.thumbs)]

Atomic == INSTANCE AtomicRestore WITH library <- Library

(***************************************************************************)
(* Whatever fails and wherever the process dies, the library recovery      *)
(* would leave is the old database with the old thumbnails or the new one  *)
(* with the new ones, and the journal's commit changes one for the other.  *)
(***************************************************************************)
ImplementsAtomicRestore == Atomic!RestoreSpec

(***************************************************************************)
(* Recovery never meets a profile it must give up on: neither of its       *)
(* "cannot find" and "incomplete live generation" errors can occur, after  *)
(* any interruption of an import or of an earlier recovery.                *)
(***************************************************************************)
NeverIrreconcilable ==
    journal # Absent =>
        IF journal.phase = "committed" THEN LiveIsComplete
        ELSE /\ ~Irreconcilable("db", "previousDb", journal.db)
             /\ ~Irreconcilable("thumbs", "previousThumbs", journal.thumbs)

(***************************************************************************)
(* Without a journal nothing of a previous generation is left: otherwise   *)
(* no restart would remove it and every later import would be refused.     *)
(***************************************************************************)
NoOrphanedArtifacts ==
    journal = Absent => ~Exists("previousDb") /\ ~Exists("previousThumbs")

(***************************************************************************)
(* A database is never used next to the sidecars of another generation,    *)
(* which SQLite would replay into it.                                      *)
(***************************************************************************)
SidecarsBelongToDatabase ==
    pc \in {"idle", "open", "verify"} => wal \in {Absent, files["db"]}

(***************************************************************************)
(* The three together, of every place an import or a recovery may be       *)
(* interrupted at: what lies on the disk can be recovered, nothing of it   *)
(* is left over unexplained, and SQLite is never given a mixed generation. *)
(***************************************************************************)
AlwaysRecoverable ==
    NeverIrreconcilable /\ NoOrphanedArtifacts /\ SidecarsBelongToDatabase

\* Recovery is about to drop sidecars with transactions of the kept database.
DropsCommittedWork ==
    /\ pc = "recover" /\ Swapping
    /\ wal # Absent /\ wal = Library["db"]

(***************************************************************************)
(* If no file system call fails, a restore that crashes, and crashes again *)
(* in its recovery, costs no committed transaction of the kept database.   *)
(***************************************************************************)
CrashesLoseNoWork == failures = 0 => ~DropsCommittedWork

(***************************************************************************)
(* The documentation asks the user to stop using the library only when     *)
(* restore reports that automatic rollback also failed.  Otherwise work    *)
(* committed after a failed import should survive the next startup.        *)
(***************************************************************************)
WorkLostOnlyAfterWarning == result # "rollbackFailed" => ~DropsCommittedWork

(***************************************************************************)
(* A started import or recovery ends, and a program that stopped comes up  *)
(* again with nothing left to recover, once the faults are over.           *)
(***************************************************************************)
RestartRecovers == pc = "down" ~> pc = "idle" /\ journal = Absent
=============================================================================
