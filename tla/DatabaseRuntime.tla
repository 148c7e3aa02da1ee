--------------------------- MODULE DatabaseRuntime ---------------------------
(***************************************************************************)
(* The database runtime (services/db_pool.rs) under the workflow locks     *)
(* (app/locks.rs): the admission gate, the maintenance permit, the bounded *)
(* connection pool with its condition variable, and the scan and thumbnail *)
(* locks every command takes after it passed the gate.                     *)
(*                                                                         *)
(* Each command is a thread that runs once.  An operation permit is a      *)
(* reference-counted object: the command and the workers it started hold   *)
(* clones of it, and the admission ends when the last clone is dropped.    *)
(***************************************************************************)
EXTENDS Naturals, FiniteSets

CONSTANTS Commands,        \* the command threads
          MaxConnections,  \* MAX_CONNECTIONS, the bound of the pool
          MaxWorkers,      \* bound on the live workers of one command
          NoOne            \* not a command

ASSUME CommandsAssumption == IsFiniteSet(Commands) /\ NoOne \notin Commands
ASSUME BoundsAssumption == MaxConnections \in Nat \ {0} /\ MaxWorkers \in Nat

\* Which lock helper a command goes through; "plain" is admission alone.
Kinds == {"plain", "scan", "thumbRead", "thumb", "scanThumb", "maintenance"}

\* Mutant of NeedsScan: combined work forgets the scan mutex.
CombinedWorkSkipsScan(k) == k \in {"scan", "maintenance"}

NeedsScan(k) == k \in {"scan", "scanThumb", "maintenance"}
WritesThumbs(k) == k \in {"thumb", "scanThumb", "maintenance"}
ReadsThumbs(k) == k = "thumbRead"
StartsWorkers(k) == k \in {"scan", "thumbRead"}

\* Pooled connections a command nests: scan_folder keeps its own connection
\* while scan_roots checks out a second one; maintenance opens unpooled ones.
Nesting == 1 .. 2
Checkouts == Commands \X Nesting
Depth(k) == CASE k = "scan" -> 2
              [] k = "maintenance" -> 0
              [] OTHER -> 1

VARIABLES
    kind,         \* kind[c]: which helper command c goes through
    pc,           \* pc[c]: how far command c is
    active,       \* Admission.active
    maintenance,  \* Admission.maintenance
    workers,      \* workers[c]: live workers holding a clone of c's permit
    idle,         \* number of connections in Pool.idle
    total,        \* Pool.total
    conn,         \* conn[c][n]: state of c's n-th nested checkout
    scanLock,     \* holder of scan_lock, or NoOne
    thumbWriter,  \* holder of the write side of thumb_lock, or NoOne
    thumbReaders  \* holders of the read side of thumb_lock

gate == <<pc, active, maintenance>>
pool == <<idle, total, conn>>
locks == <<scanLock, thumbWriter, thumbReaders>>
vars == <<kind, pc, active, maintenance, workers, idle, total, conn,
          scanLock, thumbWriter, thumbReaders>>

Phases == {"start", "draining", "admitted", "leaving", "done"}

(***************************************************************************)
(* A checkout is "check" when its thread is about to look at the pool,     *)
(* "late" when it looks after its deadline, "wait" on the condition        *)
(* variable, "opening" a new connection outside the pool's mutex,          *)
(* "failing" between the two steps that undo a failed open, "held", and    *)
(* "closed" once it was returned or refused.                               *)
(***************************************************************************)
CheckoutStates ==
    {"none", "check", "late", "wait", "opening", "failing", "held", "closed"}

Init ==
    /\ kind \in [Commands -> Kinds]
    /\ pc = [c \in Commands |-> "start"]
    /\ active = 0
    /\ maintenance = FALSE
    /\ workers = [c \in Commands |-> 0]
    /\ idle = 0
    /\ total = 0
    /\ conn = [c \in Commands |-> [n \in Nesting |-> "none"]]
    /\ scanLock = NoOne
    /\ thumbWriter = NoOne
    /\ thumbReaders = {}

HasPermit(c) == kind[c] # "maintenance" /\ pc[c] \in {"admitted", "leaving"}
Live(c) == HasPermit(c) \/ workers[c] > 0
Owns(c) == kind[c] = "maintenance" /\ pc[c] \in {"admitted", "leaving"}
HoldsThumbs(c) == thumbWriter = c \/ c \in thumbReaders
HoldsLocks(c) ==
    /\ NeedsScan(kind[c]) => scanLock = c
    /\ WritesThumbs(kind[c]) => thumbWriter = c
    /\ ReadsThumbs(kind[c]) => c \in thumbReaders
Running(c) == pc[c] = "admitted" /\ HoldsLocks(c)
Unused(c) == \A n \in Nesting : conn[c][n] \in {"none", "closed"}

-----------------------------------------------------------------------------
(* The admission gate *)

\* Mutant of Admit: a closed gate is not looked at.
AdmitThroughClosedGate(c) ==
    /\ pc[c] = "start"
    /\ kind[c] # "maintenance"
    /\ active' = active + 1
    /\ pc' = [pc EXCEPT ![c] = "admitted"]
    /\ UNCHANGED <<kind, maintenance, workers, pool, locks>>

Admit(c) ==
    /\ pc[c] = "start"
    /\ kind[c] # "maintenance"
    /\ ~maintenance
    /\ active' = active + 1
    /\ pc' = [pc EXCEPT ![c] = "admitted"]
    /\ UNCHANGED <<kind, maintenance, workers, pool, locks>>

CloseAdmission(c) ==
    /\ pc[c] = "start"
    /\ kind[c] = "maintenance"
    /\ ~maintenance
    /\ maintenance' = TRUE
    /\ pc' = [pc EXCEPT ![c] = "draining"]
    /\ UNCHANGED <<kind, active, workers, pool, locks>>

\* The pool is replaced by an empty one, whatever it still counts.
Drain(c) ==
    /\ pc[c] = "draining"
    /\ active = 0
    /\ idle' = 0
    /\ total' = 0
    /\ pc' = [pc EXCEPT ![c] = "admitted"]
    /\ UNCHANGED <<kind, active, maintenance, workers, conn, locks>>

\* Mutant of LastClone: workers hold no clone of the permit.
WorkersHoldNoClone(c) == TRUE

\* Clones of a permit share one admission: the last one dropped ends it.
LastClone(c) == workers[c] = 0

\* Mutant of DropPermit: the permit is dropped before the lock guards.
DropPermitBeforeLocks(c) ==
    /\ Running(c)
    /\ kind[c] # "maintenance"
    /\ Unused(c)
    /\ active' = IF LastClone(c) THEN active - 1 ELSE active
    /\ pc' = [pc EXCEPT ![c] = "done"]
    /\ UNCHANGED <<kind, maintenance, workers, pool, locks>>

\* Guards drop in reverse order, so both locks are free before the permit is.
DropPermit(c) ==
    /\ pc[c] = "leaving"
    /\ kind[c] # "maintenance"
    /\ scanLock # c /\ ~HoldsThumbs(c)
    /\ active' = IF LastClone(c) THEN active - 1 ELSE active
    /\ pc' = [pc EXCEPT ![c] = "done"]
    /\ UNCHANGED <<kind, maintenance, workers, pool, locks>>

DropMaintenancePermit(c) ==
    /\ pc[c] = "leaving"
    /\ kind[c] = "maintenance"
    /\ scanLock # c /\ ~HoldsThumbs(c)
    /\ maintenance' = FALSE
    /\ pc' = [pc EXCEPT ![c] = "done"]
    /\ UNCHANGED <<kind, active, workers, pool, locks>>

\* A scan worker or a thumbnail job is given a clone of the permit.
StartWorker(c) ==
    /\ Running(c)
    /\ StartsWorkers(kind[c])
    /\ workers[c] < MaxWorkers
    /\ workers' = [workers EXCEPT ![c] = @ + 1]
    /\ UNCHANGED <<kind, gate, pool, locks>>

\* Mutant of WorkerDone: the last worker ends the admission of a command that
\* still has its own clone.
WorkerEndsAdmission(c) ==
    /\ workers[c] > 0
    /\ workers' = [workers EXCEPT ![c] = @ - 1]
    /\ active' = IF workers[c] = 1 THEN active - 1 ELSE active
    /\ UNCHANGED <<kind, pc, maintenance, pool, locks>>

WorkerDone(c) ==
    /\ workers[c] > 0
    /\ workers' = [workers EXCEPT ![c] = @ - 1]
    /\ active' = IF workers[c] = 1 /\ ~HasPermit(c) THEN active - 1 ELSE active
    /\ UNCHANGED <<kind, pc, maintenance, pool, locks>>

-----------------------------------------------------------------------------
(* The workflow locks: the scan mutex first, then the thumbnail lock *)

LockScan(c) ==
    /\ pc[c] = "admitted"
    /\ NeedsScan(kind[c])
    /\ scanLock = NoOne
    /\ scanLock' = c
    /\ UNCHANGED <<kind, gate, workers, pool, thumbWriter, thumbReaders>>

\* Mutant of LockThumbsForWriting: the two locks are taken in either order.
LockInAnyOrder(c) ==
    /\ pc[c] = "admitted"
    /\ WritesThumbs(kind[c])
    /\ thumbWriter = NoOne /\ thumbReaders = {}
    /\ thumbWriter' = c
    /\ UNCHANGED <<kind, gate, workers, pool, scanLock, thumbReaders>>

LockThumbsForWriting(c) ==
    /\ pc[c] = "admitted"
    /\ WritesThumbs(kind[c])
    /\ NeedsScan(kind[c]) => scanLock = c
    /\ thumbWriter = NoOne /\ thumbReaders = {}
    /\ thumbWriter' = c
    /\ UNCHANGED <<kind, gate, workers, pool, scanLock, thumbReaders>>

LockThumbsForReading(c) ==
    /\ pc[c] = "admitted"
    /\ ReadsThumbs(kind[c])
    /\ c \notin thumbReaders
    /\ thumbWriter = NoOne
    /\ thumbReaders' = thumbReaders \cup {c}
    /\ UNCHANGED <<kind, gate, workers, pool, scanLock, thumbWriter>>

\* The action the command runs under its locks returns, with Ok or Err.
Finish(c) ==
    /\ Running(c)
    /\ Unused(c)
    /\ pc' = [pc EXCEPT ![c] = "leaving"]
    /\ UNCHANGED <<kind, active, maintenance, workers, pool, locks>>

UnlockThumbs(c) ==
    /\ pc[c] = "leaving"
    /\ HoldsThumbs(c)
    /\ thumbWriter' = IF thumbWriter = c THEN NoOne ELSE thumbWriter
    /\ thumbReaders' = thumbReaders \ {c}
    /\ UNCHANGED <<kind, gate, workers, pool, scanLock>>

UnlockScan(c) ==
    /\ pc[c] = "leaving"
    /\ ~HoldsThumbs(c)
    /\ scanLock = c
    /\ scanLock' = NoOne
    /\ UNCHANGED <<kind, gate, workers, pool, thumbWriter, thumbReaders>>

-----------------------------------------------------------------------------
(* The connection pool *)

CheckoutsIn(cs, states) == {w \in Checkouts : cs[w[1]][w[2]] \in states}

\* The states after one waiter was woken, if there is one.
NotifyOne(cs) ==
    LET waiting == CheckoutsIn(cs, {"wait"})
    IN  IF waiting = {} THEN {cs}
        ELSE {[cs EXCEPT ![w[1]][w[2]] = "check"] : w \in waiting}

HasRoom == idle > 0 \/ total < MaxConnections

Request(c, n) ==
    /\ Running(c)
    /\ n <= Depth(kind[c])
    /\ conn[c][n] = "none"
    /\ n = 2 => conn[c][1] = "held"
    /\ conn' = [conn EXCEPT ![c][n] = "check"]
    /\ UNCHANGED <<kind, gate, workers, idle, total, locks>>

TakeIdle(c, n) ==
    /\ conn[c][n] \in {"check", "late"}
    /\ idle > 0
    /\ idle' = idle - 1
    /\ conn' = [conn EXCEPT ![c][n] = "held"]
    /\ UNCHANGED <<kind, gate, workers, total, locks>>

ReserveNew(c, n) ==
    /\ conn[c][n] \in {"check", "late"}
    /\ idle = 0
    /\ total < MaxConnections
    /\ total' = total + 1
    /\ conn' = [conn EXCEPT ![c][n] = "opening"]
    /\ UNCHANGED <<kind, gate, workers, idle, locks>>

\* The deadline may have passed by the time a thread looks at the pool.
WaitOrGiveUp(c, n) ==
    /\ conn[c][n] \in {"check", "late"}
    /\ ~HasRoom
    /\ \/ /\ conn[c][n] = "check"
          /\ conn' = [conn EXCEPT ![c][n] = "wait"]
       \/ conn' = [conn EXCEPT ![c][n] = "closed"]
    /\ UNCHANGED <<kind, gate, workers, idle, total, locks>>

WaitTimesOut(c, n) ==
    /\ conn[c][n] = "wait"
    /\ conn' = [conn EXCEPT ![c][n] = "late"]
    /\ UNCHANGED <<kind, gate, workers, idle, total, locks>>

Opened(c, n) ==
    /\ conn[c][n] = "opening"
    /\ conn' = [conn EXCEPT ![c][n] = "held"]
    /\ UNCHANGED <<kind, gate, workers, idle, total, locks>>

\* Mutant of OpenFails: a failed open keeps its slot of the pool.
OpenFailsKeepsSlot(c, n) ==
    /\ conn[c][n] = "opening"
    /\ conn' = [conn EXCEPT ![c][n] = "failing"]
    /\ UNCHANGED <<kind, gate, workers, idle, total, locks>>

OpenFails(c, n) ==
    /\ conn[c][n] = "opening"
    /\ total' = total - 1
    /\ conn' = [conn EXCEPT ![c][n] = "failing"]
    /\ UNCHANGED <<kind, gate, workers, idle, locks>>

NotifyAfterFailure(c, n) ==
    /\ conn[c][n] = "failing"
    /\ conn' \in NotifyOne([conn EXCEPT ![c][n] = "closed"])
    /\ UNCHANGED <<kind, gate, workers, idle, total, locks>>

\* Mutant of Return: only a connection that is put back wakes a waiter.
ReturnWakesForIdleOnly(c, n, autocommit) ==
    /\ conn[c][n] = "held"
    /\ n = 1 => conn[c][2] \in {"none", "closed"}
    /\ IF autocommit THEN idle' = idle + 1 /\ UNCHANGED total
                     ELSE total' = total - 1 /\ UNCHANGED idle
    /\ LET closed == [conn EXCEPT ![c][n] = "closed"]
       IN  conn' \in IF autocommit THEN NotifyOne(closed) ELSE {closed}
    /\ UNCHANGED <<kind, gate, workers, locks>>

\* A connection that is still inside a transaction is not put back.
Return(c, n, autocommit) ==
    /\ conn[c][n] = "held"
    /\ n = 1 => conn[c][2] \in {"none", "closed"}
    /\ IF autocommit THEN idle' = idle + 1 /\ UNCHANGED total
                     ELSE total' = total - 1 /\ UNCHANGED idle
    /\ conn' \in NotifyOne([conn EXCEPT ![c][n] = "closed"])
    /\ UNCHANGED <<kind, gate, workers, locks>>

-----------------------------------------------------------------------------
PoolStep(c) ==
    \E n \in Nesting :
        \/ TakeIdle(c, n) \/ ReserveNew(c, n) \/ WaitOrGiveUp(c, n)
        \/ WaitTimesOut(c, n) \/ Opened(c, n) \/ OpenFails(c, n)
        \/ NotifyAfterFailure(c, n)
        \/ \E autocommit \in BOOLEAN : Return(c, n, autocommit)

\* What a thread does when it is scheduled; asking for more is its choice.
Step(c) ==
    \/ Admit(c) \/ CloseAdmission(c) \/ Drain(c)
    \/ LockScan(c) \/ LockThumbsForWriting(c) \/ LockThumbsForReading(c)
    \/ Finish(c) \/ UnlockThumbs(c) \/ UnlockScan(c)
    \/ DropPermit(c) \/ DropMaintenancePermit(c)
    \/ PoolStep(c)

Next ==
    \E c \in Commands :
        \/ Step(c)
        \/ WorkerDone(c)
        \/ StartWorker(c)
        \/ \E n \in Nesting : Request(c, n)

Spec == Init /\ [][Next]_vars

(***************************************************************************)
(* Every thread that can run is eventually scheduled, the five-second      *)
(* timer of a waiting checkout fires, and a worker eventually ends.        *)
(***************************************************************************)
Fairness ==
    \A c \in Commands : WF_vars(Step(c)) /\ WF_vars(WorkerDone(c))

FairSpec == Spec /\ Fairness

-----------------------------------------------------------------------------
(* Properties *)

TypeOK ==
    /\ kind \in [Commands -> Kinds]
    /\ pc \in [Commands -> Phases]
    /\ active \in Nat
    /\ maintenance \in BOOLEAN
    /\ workers \in [Commands -> 0 .. MaxWorkers]
    /\ idle \in 0 .. MaxConnections
    /\ total \in 0 .. MaxConnections
    /\ conn \in [Commands -> [Nesting -> CheckoutStates]]
    /\ scanLock \in Commands \cup {NoOne}
    /\ thumbWriter \in Commands \cup {NoOne}
    /\ thumbReaders \subseteq Commands

LiveCommands == {c \in Commands : Live(c)}
CheckedOut == CheckoutsIn(conn, {"opening", "held"})
Waiting == CheckoutsIn(conn, {"wait"})
Awake == CheckoutsIn(conn, {"check", "late", "failing"})

(***************************************************************************)
(* While bundle export or restore owns the database, no other command, no  *)
(* worker a command left behind and no pooled connection can touch it:     *)
(* with_database_maintenance may replace media.db and thumbs/ under them.  *)
(***************************************************************************)
MaintenanceIsAlone ==
    \A c \in Commands : Owns(c) =>
        /\ maintenance
        /\ active = 0
        /\ \A d \in Commands : ~Live(d) /\ Unused(d) /\ (Owns(d) => d = c)
        /\ idle = 0 /\ total = 0

(***************************************************************************)
(* Pool.total counts the idle connections and the ones that are out or     *)
(* being opened, across timeouts, failed opens, connections thrown away    *)
(* inside a transaction and the pool that maintenance replaces: it neither *)
(* leaks a slot of MAX_CONNECTIONS nor wraps below zero.                   *)
(***************************************************************************)
PoolAccounting ==
    /\ total = idle + Cardinality(CheckedOut)
    /\ total <= MaxConnections

(***************************************************************************)
(* A checkout never sleeps next to a free connection: for each connection  *)
(* it could have, some thread is already on its way to look at the pool,   *)
(* although notify_one wakes one waiter and a newcomer may overtake it.    *)
(***************************************************************************)
NoLostWakeup ==
    Waiting # {} => idle + (MaxConnections - total) <= Cardinality(Awake)

(***************************************************************************)
(* Both together: no slot of Pool leaks and no connection lies unused      *)
(* while a checkout sleeps, whatever fails, times out or is drained.       *)
(***************************************************************************)
PoolIsSound == PoolAccounting /\ NoLostWakeup

(***************************************************************************)
(* The workflow locks are inside the gate: when the last admission is gone *)
(* nobody holds one, so the owner of maintenance never waits for a lock    *)
(* behind a command that waits for the gate.                               *)
(***************************************************************************)
LocksFreeWhenDrained ==
    active = 0 =>
        /\ \A c \in Commands : scanLock = c \/ HoldsThumbs(c) => Owns(c)
        /\ \A c \in Commands : pc[c] = "draining" =>
               scanLock = NoOne /\ thumbWriter = NoOne /\ thumbReaders = {}

(***************************************************************************)
(* Work that removes or renames files (with_scan_and_thumb_lock) and       *)
(* bundle work run while no scan, no thumbnail command and no other such   *)
(* work runs: the lock matrix of the system overview.                      *)
(***************************************************************************)
DestructiveWorkIsAlone ==
    \A c, d \in Commands :
        /\ c # d
        /\ Running(c) /\ kind[c] \in {"scanThumb", "maintenance"}
        /\ Running(d)
        => kind[c] = "scanThumb" /\ kind[d] = "plain"

(***************************************************************************)
(* No command hangs: gate, locks and pool never wait for one another in a  *)
(* circle, a closed gate is always reached and reopened, and commands that *)
(* nest checkouts under a full pool end with the busy error.               *)
(***************************************************************************)
EveryCommandEnds == \A c \in Commands : <>(pc[c] = "done")

\* The command closed admission and has not opened it again.
Closing(c) ==
    kind[c] = "maintenance" /\ pc[c] \in {"draining", "admitted", "leaving"}
Closer ==
    IF \E c \in Commands : Closing(c)
    THEN CHOOSE c \in Commands : Closing(c)
    ELSE NoOne
Owned == \E c \in Commands : Owns(c)

Gate == INSTANCE MaintenanceGate WITH
    Operations <- Commands,
    inside <- LiveCommands,
    closedBy <- Closer,
    owned <- Owned

(***************************************************************************)
(* Counter, permit clones and locks together implement the gate: nobody    *)
(* enters after admission was closed, and ownership begins only when every *)
(* admitted command and every one of its workers has left.                 *)
(***************************************************************************)
ImplementsGate == Gate!GateSpec
=============================================================================
