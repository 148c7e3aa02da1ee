------------------------ MODULE DatabaseRuntime_proofs ------------------------
(***************************************************************************)
(* Proofs about the database runtime: for every number of commands, pool   *)
(* size and number of workers, maintenance is alone, the pool is accounted *)
(* for and loses no wakeup, and the locks are free when the gate drained.  *)
(*                                                                         *)
(* The gate part of the invariant counts: active is the number of live     *)
(* commands.  The pool part is kept by counting checkouts by their state   *)
(* and showing how each action changes the two counts that matter.         *)
(***************************************************************************)
EXTENDS DatabaseRuntime, FiniteSetTheorems, TLAPS

\* Admissions are counted right and closed by exactly one command.
GateInv ==
    /\ active = Cardinality(LiveCommands)
    /\ maintenance <=> \E c \in Commands : Closing(c)
    /\ \A c, d \in Commands : Closing(c) /\ Closing(d) => c = d
    /\ \A c \in Commands : Owns(c) => active = 0
    /\ \A c \in Commands : pc[c] = "draining" => kind[c] = "maintenance"
    /\ \A c \in Commands : workers[c] > 0 =>
           kind[c] # "maintenance" /\ pc[c] \in {"admitted", "leaving", "done"}

\* A lock is held only by a command that needs it and is inside the gate.
LockInv ==
    /\ \A c \in Commands : scanLock = c =>
           NeedsScan(kind[c]) /\ pc[c] \in {"admitted", "leaving"}
    /\ \A c \in Commands : thumbWriter = c =>
           WritesThumbs(kind[c]) /\ pc[c] \in {"admitted", "leaving"}
    /\ \A c \in thumbReaders :
           ReadsThumbs(kind[c]) /\ pc[c] \in {"admitted", "leaving"}
    /\ thumbWriter # NoOne => thumbReaders = {}

\* Only running commands use the pool, which is empty under maintenance.
PoolInv ==
    /\ \A c \in Commands, n \in Nesting : conn[c][n] \notin {"none", "closed"} =>
           Running(c) /\ kind[c] # "maintenance"
    /\ \A c \in Commands : Owns(c) => idle = 0 /\ total = 0
    /\ PoolAccounting
    /\ NoLostWakeup

IInv == TypeOK /\ GateInv /\ LockInv /\ PoolInv

Conns == [Commands -> [Nesting -> CheckoutStates]]
Out == {"opening", "held"}          \* states that occupy a connection
Up == {"check", "late", "failing"}  \* states that will look or wake another
Count(cs, states) == Cardinality(CheckoutsIn(cs, states))
One(s, states) == IF s \in states THEN 1 ELSE 0

\* after is cs with the n-th checkout of c in state s.
Updated(cs, after, c, n, s) ==
    /\ after \in Conns
    /\ \A d \in Commands, m \in Nesting :
          after[d][m] = IF d = c /\ m = n THEN s ELSE cs[d][m]

\* What every pool action leaves alone.
PoolFrame(c) ==
    /\ Running(c) /\ kind[c] # "maintenance"
    /\ UNCHANGED <<kind, pc, active, maintenance, workers, scanLock, thumbWriter, thumbReaders>>

USE CommandsAssumption, BoundsAssumption
    DEF Kinds, Phases, CheckoutStates, gate, pool, locks

-----------------------------------------------------------------------------
(* Counting live commands and checkouts *)

\* Arithmetic: a number that is not positive is at most any natural number.
LEMMA NonPositive == \A x \in Int, y \in Nat : x <= 0 => x <= y
  OBVIOUS

\* The live commands can be counted.
LEMMA LiveFinite == IsFiniteSet(LiveCommands) /\ Cardinality(LiveCommands) \in Nat
  BY FS_Subset, FS_CardinalityType DEF LiveCommands

\* A runtime that was just opened satisfies the invariant.
LEMMA InitIInv == Init => IInv
<1> SUFFICES ASSUME Init PROVE IInv
  OBVIOUS
<1>1. TypeOK
  <2>1. conn \in [Commands -> [Nesting -> CheckoutStates]] BY DEF Init
  <2>2. pc \in [Commands -> Phases] /\ workers \in [Commands -> 0 .. MaxWorkers]
    BY DEF Init
  <2>3. idle \in 0 .. MaxConnections /\ total \in 0 .. MaxConnections /\ active \in Nat
    BY DEF Init
  <2>4. maintenance \in BOOLEAN /\ thumbReaders \subseteq Commands
    BY DEF Init
  <2> QED BY <2>1, <2>2, <2>3, <2>4 DEF Init, TypeOK
<1>2. LiveCommands = {} BY DEF Init, LiveCommands, Live, HasPermit
<1>3. Cardinality(LiveCommands) = 0 BY <1>2, FS_EmptySet
<1>4. GateInv BY <1>3 DEF Init, GateInv, Closing, Owns
<1>5. LockInv BY DEF Init, LockInv
<1>6. \A c \in Commands, n \in Nesting : conn[c][n] = "none" BY DEF Init
<1>7. CheckedOut = {} /\ Waiting = {}
  BY <1>6 DEF CheckedOut, Waiting, CheckoutsIn, Checkouts
<1>8. PoolInv
  <2>1. PoolAccounting BY <1>7, FS_EmptySet DEF PoolAccounting, Init
  <2>2. NoLostWakeup BY <1>7 DEF NoLostWakeup
  <2> QED BY <1>6, <2>1, <2>2 DEF PoolInv, Init
<1> QED BY <1>1, <1>4, <1>5, <1>8 DEF IInv

\* Any selection of checkouts can be counted.
LEMMA CheckoutsFinite ==
    \A cs, states : IsFiniteSet(CheckoutsIn(cs, states)) /\ Cardinality(CheckoutsIn(cs, states)) \in Nat
<1>1. IsFiniteSet(Nesting)
  <2>1. 1 \in Int /\ 2 \in Int OBVIOUS
  <2> QED BY <2>1, FS_Interval DEF Nesting
<1>2. IsFiniteSet(Checkouts) BY <1>1, FS_Product DEF Checkouts
<1>3. \A cs, states : CheckoutsIn(cs, states) \in SUBSET Checkouts BY DEF CheckoutsIn
<1> QED BY <1>2, <1>3, FS_Subset, FS_CardinalityType

\* Which checkouts are in some states after one checkout changed its state.
LEMMA UpdateCheckouts ==
    ASSUME NEW cs \in Conns, NEW c \in Commands, NEW n \in Nesting, NEW s, NEW states,
           NEW after, Updated(cs, after, c, n, s)
    PROVE  /\ CheckoutsIn(after, states)
                = IF s \in states THEN CheckoutsIn(cs, states) \cup {<<c, n>>}
                                  ELSE CheckoutsIn(cs, states) \ {<<c, n>>}
           /\ <<c, n>> \in CheckoutsIn(cs, states) <=> cs[c][n] \in states
  BY DEF CheckoutsIn, Checkouts, Updated

\* A count of checkouts is a natural number.
LEMMA CountType == \A cs, states : Count(cs, states) \in Nat
  BY CheckoutsFinite DEF Count

\* One checkout that changes its state changes a count by one, or not at all.
LEMMA UpdateCount ==
    ASSUME NEW cs \in Conns, NEW c \in Commands, NEW n \in Nesting, NEW s, NEW states,
           NEW after, Updated(cs, after, c, n, s)
    PROVE  Count(after, states) = Count(cs, states) + One(s, states) - One(cs[c][n], states)
<1> DEFINE w == <<c, n>>
           old == CheckoutsIn(cs, states)
<1>1. /\ CheckoutsIn(after, states) = IF s \in states THEN old \cup {w} ELSE old \ {w}
      /\ w \in old <=> cs[c][n] \in states
  BY UpdateCheckouts
<1>2. IsFiniteSet(old) /\ Cardinality(old) \in Nat BY CheckoutsFinite
<1> HIDE DEF w, old
<1>3. Cardinality(old \cup {w}) = IF w \in old THEN Cardinality(old) ELSE Cardinality(old) + 1
  BY <1>2, FS_AddElement
<1>4. Cardinality(old \ {w}) = IF w \in old THEN Cardinality(old) - 1 ELSE Cardinality(old)
  BY <1>2, FS_RemoveElement
<1>5. Cardinality(CheckoutsIn(after, states)) = Cardinality(old) + One(s, states) - One(cs[c][n], states)
  BY <1>1, <1>2, <1>3, <1>4 DEF One
<1> QED BY <1>5 DEF old, Count

\* A checkout that changes to another state than "wait" makes nobody wait.
LEMMA WaitingAfter ==
    ASSUME NEW cs \in Conns, NEW c \in Commands, NEW n \in Nesting, NEW s, s # "wait",
           NEW after, Updated(cs, after, c, n, s),
           CheckoutsIn(after, {"wait"}) # {}
    PROVE  CheckoutsIn(cs, {"wait"}) # {}
  BY DEF CheckoutsIn, Checkouts, Updated

\* notify_one changes no count of connections, and either somebody is now awake
\* who was not, or nobody waits any more.
LEMMA Notified ==
    ASSUME NEW cs \in Conns, NEW after \in NotifyOne(cs)
    PROVE  /\ after \in Conns
           /\ Count(after, Out) = Count(cs, Out)
           /\ CheckoutsIn(after, {"wait"}) # {} =>
                  /\ Count(after, Up) = Count(cs, Up) + 1
                  /\ CheckoutsIn(cs, {"wait"}) # {}
           /\ \A c \in Commands, n \in Nesting :
                  after[c][n] \notin {"none", "closed"} => cs[c][n] \notin {"none", "closed"}
<1>1. CASE CheckoutsIn(cs, {"wait"}) = {}
  BY <1>1 DEF NotifyOne
<1>2. CASE CheckoutsIn(cs, {"wait"}) # {}
  <2>1. PICK w \in CheckoutsIn(cs, {"wait"}) : after = [cs EXCEPT ![w[1]][w[2]] = "check"]
    BY <1>2 DEF NotifyOne
  <2>2. w[1] \in Commands /\ w[2] \in Nesting /\ cs[w[1]][w[2]] = "wait"
    BY DEF CheckoutsIn, Checkouts
  <2>3. Updated(cs, after, w[1], w[2], "check") BY <2>1, <2>2 DEF Updated, Conns
  <2>4. One("check", Out) = 0 /\ One("wait", Out) = 0 /\ One("check", Up) = 1 /\ One("wait", Up) = 0
    BY DEF One, Out, Up
  <2>5. Count(after, Out) = Count(cs, Out) + One("check", Out) - One("wait", Out)
    BY <2>2, <2>3, UpdateCount
  <2>6. Count(after, Up) = Count(cs, Up) + One("check", Up) - One("wait", Up)
    BY <2>2, <2>3, UpdateCount
  <2> QED BY <1>2, <2>2, <2>3, <2>4, <2>5, <2>6, CountType DEF Updated
<1> QED BY <1>1, <1>2

-----------------------------------------------------------------------------
(* What a pool action must do to keep the pool part of the invariant *)

\* An admitted command that runs keeps every maintenance owner out.
LEMMA BusyIsLive ==
    ASSUME TypeOK, GateInv, PoolInv, NEW c \in Commands, Running(c), kind[c] # "maintenance"
    PROVE  active # 0 /\ \A d \in Commands : ~Owns(d)
<1>1. c \in LiveCommands BY DEF LiveCommands, Live, HasPermit, Running
<1>2. active # 0 BY <1>1, LiveFinite, FS_EmptySet DEF GateInv
<1> QED BY <1>2 DEF GateInv

\* A pool action changes neither who owns the database nor who runs.
LEMMA FrameInv ==
    ASSUME TypeOK, GateInv, PoolInv, NEW c \in Commands, PoolFrame(c)
    PROVE  /\ \A d \in Commands : ~Owns(d)'
           /\ \A d \in Commands : Running(d)' <=> Running(d)
<1>1. \A d \in Commands : ~Owns(d) BY BusyIsLive DEF PoolFrame
<1> QED BY <1>1 DEF PoolFrame, Owns, Running, HoldsLocks

\* The pool part is kept by a step that changes total - idle as it changes the
\* connections out, and frees no more than it wakes.
LEMMA Balanced ==
    ASSUME TypeOK, GateInv, PoolInv, NEW c \in Commands,
           PoolFrame(c),
           conn' \in Conns,
           \A d \in Commands, m \in Nesting :
               d = c \/ (conn'[d][m] \notin {"none", "closed"} => conn[d][m] \notin {"none", "closed"}),
           idle' \in Nat, total' \in 0 .. MaxConnections,
           total' - idle' = total - idle + Count(conn', Out) - Count(conn, Out),
           \/ idle' + (MaxConnections - total') <= 0
           \/ Waiting' # {} =>
                 /\ Waiting # {}
                 /\ total - total' + idle' - idle <= Count(conn', Up) - Count(conn, Up)
    PROVE  TypeOK' /\ PoolInv'
<1>3. /\ Count(conn, Out) \in Nat /\ Count(conn, Up) \in Nat
      /\ Count(conn', Out) \in Nat /\ Count(conn', Up) \in Nat
  BY CountType
<1>4. total = idle + Count(conn, Out) BY DEF PoolInv, PoolAccounting, CheckedOut, Count, Out
<1>44. idle \in Nat /\ total \in Nat BY DEF TypeOK
<1>45. idle' \in Nat /\ total' \in Nat /\ MaxConnections \in Nat OBVIOUS
<1>5. total' = idle' + Count(conn', Out)
  BY <1>3, <1>4, <1>44
<1>6. PoolAccounting' BY <1>5 DEF PoolAccounting, CheckedOut, Count, Out
<1>7. NoLostWakeup'
  <2>1. Cardinality(Awake') = Count(conn', Up) BY DEF Awake, Count, Up
  <2>2. SUFFICES ASSUME Waiting' # {}
                 PROVE  idle' + (MaxConnections - total') <= Count(conn', Up)
    BY <2>1 DEF NoLostWakeup
  <2>3. CASE idle' + (MaxConnections - total') <= 0
    <3>1. idle' + (MaxConnections - total') \in Int BY <1>45
    <3> QED BY <1>3, <2>3, <3>1, NonPositive
  <2>4. CASE /\ Waiting # {}
             /\ total - total' + idle' - idle <= Count(conn', Up) - Count(conn, Up)
    <3>2. idle + (MaxConnections - total) <= Count(conn, Up)
      BY <2>4 DEF PoolInv, NoLostWakeup, Awake, Count, Up
    <3> QED BY <3>2, <1>45, <1>44, <2>4, <1>3
  <2> QED BY <2>2, <2>3, <2>4
<1>8. idle' \in 0 .. MaxConnections BY <1>3, <1>5
<1>9. TypeOK' BY <1>8 DEF TypeOK, Conns, PoolFrame
<1>10. \A d \in Commands, m \in Nesting : conn'[d][m] \notin {"none", "closed"} =>
           Running(d)' /\ kind'[d] # "maintenance"
  BY FrameInv DEF PoolInv, PoolFrame
<1>11. \A d \in Commands : Owns(d)' => idle' = 0 /\ total' = 0 BY FrameInv
<1> QED BY <1>6, <1>7, <1>9, <1>10, <1>11 DEF PoolInv

\* The same for a step that only moves one checkout to state s.
LEMMA BalancedUpdate ==
    ASSUME TypeOK, GateInv, PoolInv, NEW c \in Commands, NEW n \in Nesting, NEW s,
           PoolFrame(c),
           Updated(conn, conn', c, n, s),
           idle' \in Nat, total' \in 0 .. MaxConnections,
           total' - idle' = total - idle + One(s, Out) - One(conn[c][n], Out),
           \/ idle' + (MaxConnections - total') <= 0
           \/ /\ s # "wait"
              /\ total - total' + idle' - idle <= One(s, Up) - One(conn[c][n], Up)
    PROVE  TypeOK' /\ PoolInv'
<1>1. conn \in Conns BY DEF TypeOK, Conns
<1>2. conn' \in Conns BY DEF Updated
<1>3. Count(conn', Out) = Count(conn, Out) + One(s, Out) - One(conn[c][n], Out)
  BY <1>1, UpdateCount
<1>4. Count(conn', Up) = Count(conn, Up) + One(s, Up) - One(conn[c][n], Up)
  BY <1>1, UpdateCount
<1>5. /\ Count(conn, Out) \in Nat /\ Count(conn, Up) \in Nat
      /\ idle \in Nat /\ total \in Nat
  BY CountType DEF TypeOK
<1>6. /\ One(s, Out) \in 0 .. 1 /\ One(conn[c][n], Out) \in 0 .. 1
      /\ One(s, Up) \in 0 .. 1 /\ One(conn[c][n], Up) \in 0 .. 1
  BY DEF One
<1>7. total' - idle' = total - idle + Count(conn', Out) - Count(conn, Out)
  BY <1>3, <1>5, <1>6
<1>8. s # "wait" /\ Waiting' # {} => Waiting # {}
  BY <1>1, WaitingAfter DEF Waiting
<1>9. One(s, Up) - One(conn[c][n], Up) = Count(conn', Up) - Count(conn, Up)
  BY <1>4, <1>5, <1>6
<1>10. \A d \in Commands, m \in Nesting :
          d = c \/ (conn'[d][m] \notin {"none", "closed"} => conn[d][m] \notin {"none", "closed"})
  BY DEF Updated
<1> QED BY <1>2, <1>7, <1>8, <1>9, <1>10, Balanced

\* conn[c][n] becomes closed and one waiter is woken.
LEMMA BalancedNotify ==
    ASSUME TypeOK, GateInv, PoolInv, NEW c \in Commands, NEW n \in Nesting,
           PoolFrame(c),
           conn' \in NotifyOne([conn EXCEPT ![c][n] = "closed"]),
           idle' \in Nat, total' \in 0 .. MaxConnections,
           total' - idle' = total - idle - One(conn[c][n], Out),
           total - total' + idle' - idle <= 1 - One(conn[c][n], Up)
    PROVE  TypeOK' /\ PoolInv'
<1> DEFINE closed == [conn EXCEPT ![c][n] = "closed"]
<1>1. conn \in Conns BY DEF TypeOK, Conns
<1>2. Updated(conn, closed, c, n, "closed") BY <1>1 DEF Updated, Conns
<1> HIDE DEF closed
<1>3. closed \in Conns BY <1>2 DEF Updated
<1>4. conn' \in NotifyOne(closed) BY DEF closed
<1>5. /\ conn' \in Conns
      /\ Count(conn', Out) = Count(closed, Out)
      /\ CheckoutsIn(conn', {"wait"}) # {} =>
             /\ Count(conn', Up) = Count(closed, Up) + 1
             /\ CheckoutsIn(closed, {"wait"}) # {}
      /\ \A d \in Commands, m \in Nesting :
             conn'[d][m] \notin {"none", "closed"} => closed[d][m] \notin {"none", "closed"}
  BY <1>3, <1>4, Notified
<1>6. One("closed", Out) = 0 /\ One("closed", Up) = 0 BY DEF One, Out, Up
<1>7. Count(closed, Out) = Count(conn, Out) + One("closed", Out) - One(conn[c][n], Out)
  BY <1>1, <1>2, UpdateCount
<1>8. Count(closed, Up) = Count(conn, Up) + One("closed", Up) - One(conn[c][n], Up)
  BY <1>1, <1>2, UpdateCount
<1>9. /\ Count(conn, Out) \in Nat /\ Count(conn, Up) \in Nat
      /\ idle \in Nat /\ total \in Nat
  BY CountType DEF TypeOK
<1>10. One(conn[c][n], Out) \in 0 .. 1 /\ One(conn[c][n], Up) \in 0 .. 1
  BY DEF One
<1>11. total' - idle' = total - idle + Count(conn', Out) - Count(conn, Out)
  BY <1>5, <1>6, <1>7, <1>9, <1>10
<1>12. Waiting' # {} =>
          /\ Waiting # {}
          /\ total - total' + idle' - idle <= Count(conn', Up) - Count(conn, Up)
  <2>1. SUFFICES ASSUME CheckoutsIn(conn', {"wait"}) # {}
                 PROVE  /\ CheckoutsIn(conn, {"wait"}) # {}
                        /\ total - total' + idle' - idle <= Count(conn', Up) - Count(conn, Up)
    BY DEF Waiting
  <2>2. CheckoutsIn(conn, {"wait"}) # {} BY <2>1, <1>1, <1>2, <1>5, WaitingAfter
  <2>3. Count(conn', Up) - Count(conn, Up) = 1 - One(conn[c][n], Up)
    BY <2>1, <1>5, <1>6, <1>8, <1>9, <1>10
  <2> QED BY <2>2, <2>3
<1>13. \A d \in Commands, m \in Nesting :
          d = c \/ (conn'[d][m] \notin {"none", "closed"} => conn[d][m] \notin {"none", "closed"})
  BY <1>2, <1>5 DEF Updated
<1> QED BY <1>5, <1>11, <1>12, <1>13, Balanced

\* A checkout that is out has its place in total.
LEMMA OutIsCounted ==
    ASSUME TypeOK, PoolInv, NEW c \in Commands, NEW n \in Nesting, conn[c][n] \in Out
    PROVE  total >= idle + 1
<1>1. <<c, n>> \in CheckedOut BY DEF CheckedOut, CheckoutsIn, Checkouts, Out
<1>2. IsFiniteSet(CheckedOut) /\ Cardinality(CheckedOut) \in Nat
  BY CheckoutsFinite DEF CheckedOut
<1>3. Cardinality(CheckedOut) # 0 BY <1>1, <1>2, FS_EmptySet
<1> QED BY <1>2, <1>3 DEF PoolInv, PoolAccounting, TypeOK

-----------------------------------------------------------------------------
(* The pool actions *)

\* with_pooled_connection is called.
LEMMA RequestInv ==
    ASSUME TypeOK, GateInv, LockInv, PoolInv, NEW c \in Commands, NEW n \in Nesting, Request(c, n)
    PROVE  TypeOK' /\ PoolInv'
<1>1. PoolFrame(c) BY DEF Request, PoolInv, PoolFrame, Depth, Nesting, Running
<1>2. Updated(conn, conn', c, n, "check") BY DEF Request, Updated, TypeOK, Conns
<1>3. conn[c][n] \in {"none"} BY DEF Request
<1>4. /\ One("check", Out) = 0 /\ One("check", Up) = 1
      /\ One(conn[c][n], Out) = 0 /\ One(conn[c][n], Up) = 0
  BY <1>3 DEF One, Out, Up
<1>5. idle \in 0 .. MaxConnections /\ total \in 0 .. MaxConnections BY DEF TypeOK
<1>6. idle' \in Nat /\ total' \in 0 .. MaxConnections BY <1>5 DEF Request
<1>7. total' - idle' = total - idle + One("check", Out) - One(conn[c][n], Out)
  BY <1>4, <1>5 DEF Request
<1>8. total - total' + idle' - idle <= One("check", Up) - One(conn[c][n], Up)
  BY <1>4, <1>5 DEF Request
<1> QED BY <1>1, <1>2, <1>6, <1>7, <1>8, BalancedUpdate

\* checkout pops an idle connection.
LEMMA TakeIdleInv ==
    ASSUME TypeOK, GateInv, LockInv, PoolInv, NEW c \in Commands, NEW n \in Nesting, TakeIdle(c, n)
    PROVE  TypeOK' /\ PoolInv'
<1>1. PoolFrame(c) BY DEF TakeIdle, PoolInv, PoolFrame
<1>2. Updated(conn, conn', c, n, "held") BY DEF TakeIdle, Updated, TypeOK, Conns
<1>3. conn[c][n] \in {"check", "late"} BY DEF TakeIdle
<1>4. /\ One("held", Out) = 1 /\ One("held", Up) = 0
      /\ One(conn[c][n], Out) = 0 /\ One(conn[c][n], Up) = 1
  BY <1>3 DEF One, Out, Up
<1>5. idle \in 0 .. MaxConnections /\ total \in 0 .. MaxConnections BY DEF TypeOK
<1>6. idle' \in Nat /\ total' \in 0 .. MaxConnections BY <1>5 DEF TakeIdle
<1>7. total' - idle' = total - idle + One("held", Out) - One(conn[c][n], Out)
  BY <1>4, <1>5 DEF TakeIdle
<1>8. total - total' + idle' - idle <= One("held", Up) - One(conn[c][n], Up)
  BY <1>4, <1>5 DEF TakeIdle
<1> QED BY <1>1, <1>2, <1>6, <1>7, <1>8, BalancedUpdate

\* checkout reserves a slot for a new connection.
LEMMA ReserveNewInv ==
    ASSUME TypeOK, GateInv, LockInv, PoolInv, NEW c \in Commands, NEW n \in Nesting, ReserveNew(c, n)
    PROVE  TypeOK' /\ PoolInv'
<1>1. PoolFrame(c) BY DEF ReserveNew, PoolInv, PoolFrame
<1>2. Updated(conn, conn', c, n, "opening") BY DEF ReserveNew, Updated, TypeOK, Conns
<1>3. conn[c][n] \in {"check", "late"} BY DEF ReserveNew
<1>4. /\ One("opening", Out) = 1 /\ One("opening", Up) = 0
      /\ One(conn[c][n], Out) = 0 /\ One(conn[c][n], Up) = 1
  BY <1>3 DEF One, Out, Up
<1>5. idle \in 0 .. MaxConnections /\ total \in 0 .. MaxConnections BY DEF TypeOK
<1>6. idle' \in Nat /\ total' \in 0 .. MaxConnections BY <1>5 DEF ReserveNew
<1>7. total' - idle' = total - idle + One("opening", Out) - One(conn[c][n], Out)
  BY <1>4, <1>5 DEF ReserveNew
<1>8. total - total' + idle' - idle <= One("opening", Up) - One(conn[c][n], Up)
  BY <1>4, <1>5 DEF ReserveNew
<1> QED BY <1>1, <1>2, <1>6, <1>7, <1>8, BalancedUpdate

\* wait_timeout returns at the deadline.
LEMMA WaitTimesOutInv ==
    ASSUME TypeOK, GateInv, LockInv, PoolInv, NEW c \in Commands, NEW n \in Nesting, WaitTimesOut(c, n)
    PROVE  TypeOK' /\ PoolInv'
<1>1. PoolFrame(c) BY DEF WaitTimesOut, PoolInv, PoolFrame
<1>2. Updated(conn, conn', c, n, "late") BY DEF WaitTimesOut, Updated, TypeOK, Conns
<1>3. conn[c][n] \in {"wait"} BY DEF WaitTimesOut
<1>4. /\ One("late", Out) = 0 /\ One("late", Up) = 1
      /\ One(conn[c][n], Out) = 0 /\ One(conn[c][n], Up) = 0
  BY <1>3 DEF One, Out, Up
<1>5. idle \in 0 .. MaxConnections /\ total \in 0 .. MaxConnections BY DEF TypeOK
<1>6. idle' \in Nat /\ total' \in 0 .. MaxConnections BY <1>5 DEF WaitTimesOut
<1>7. total' - idle' = total - idle + One("late", Out) - One(conn[c][n], Out)
  BY <1>4, <1>5 DEF WaitTimesOut
<1>8. total - total' + idle' - idle <= One("late", Up) - One(conn[c][n], Up)
  BY <1>4, <1>5 DEF WaitTimesOut
<1> QED BY <1>1, <1>2, <1>6, <1>7, <1>8, BalancedUpdate

\* The new connection was opened.
LEMMA OpenedInv ==
    ASSUME TypeOK, GateInv, LockInv, PoolInv, NEW c \in Commands, NEW n \in Nesting, Opened(c, n)
    PROVE  TypeOK' /\ PoolInv'
<1>1. PoolFrame(c) BY DEF Opened, PoolInv, PoolFrame
<1>2. Updated(conn, conn', c, n, "held") BY DEF Opened, Updated, TypeOK, Conns
<1>3. conn[c][n] \in {"opening"} BY DEF Opened
<1>4. /\ One("held", Out) = 1 /\ One("held", Up) = 0
      /\ One(conn[c][n], Out) = 1 /\ One(conn[c][n], Up) = 0
  BY <1>3 DEF One, Out, Up
<1>5. idle \in 0 .. MaxConnections /\ total \in 0 .. MaxConnections BY DEF TypeOK
<1>6. idle' \in Nat /\ total' \in 0 .. MaxConnections BY <1>5 DEF Opened
<1>7. total' - idle' = total - idle + One("held", Out) - One(conn[c][n], Out)
  BY <1>4, <1>5 DEF Opened
<1>8. total - total' + idle' - idle <= One("held", Up) - One(conn[c][n], Up)
  BY <1>4, <1>5 DEF Opened
<1> QED BY <1>1, <1>2, <1>6, <1>7, <1>8, BalancedUpdate

\* Opening failed: the slot is given back.
LEMMA OpenFailsInv ==
    ASSUME TypeOK, GateInv, LockInv, PoolInv, NEW c \in Commands, NEW n \in Nesting, OpenFails(c, n)
    PROVE  TypeOK' /\ PoolInv'
<1>1. PoolFrame(c) BY DEF OpenFails, PoolInv, PoolFrame
<1>2. Updated(conn, conn', c, n, "failing") BY DEF OpenFails, Updated, TypeOK, Conns
<1>3. conn[c][n] \in {"opening"} BY DEF OpenFails
<1>4. /\ One("failing", Out) = 0 /\ One("failing", Up) = 1
      /\ One(conn[c][n], Out) = 1 /\ One(conn[c][n], Up) = 0
  BY <1>3 DEF One, Out, Up
<1>5. idle \in 0 .. MaxConnections /\ total \in 0 .. MaxConnections BY DEF TypeOK
<1>6. idle' \in Nat /\ total' \in 0 .. MaxConnections
  BY <1>3, <1>5, OutIsCounted DEF OpenFails, Out
<1>7. total' - idle' = total - idle + One("failing", Out) - One(conn[c][n], Out)
  BY <1>4, <1>5 DEF OpenFails
<1>8. total - total' + idle' - idle <= One("failing", Up) - One(conn[c][n], Up)
  BY <1>4, <1>5 DEF OpenFails
<1> QED BY <1>1, <1>2, <1>6, <1>7, <1>8, BalancedUpdate

\* The failed checkout wakes a waiter.
LEMMA NotifyAfterFailureInv ==
    ASSUME TypeOK, GateInv, LockInv, PoolInv, NEW c \in Commands, NEW n \in Nesting, NotifyAfterFailure(c, n)
    PROVE  TypeOK' /\ PoolInv'
<1>1. PoolFrame(c) BY DEF NotifyAfterFailure, PoolInv, PoolFrame
<1>2. One(conn[c][n], Out) = 0 /\ One(conn[c][n], Up) = 1
  BY DEF NotifyAfterFailure, One, Out, Up
<1>3. idle \in 0 .. MaxConnections /\ total \in 0 .. MaxConnections BY DEF TypeOK
<1>4. idle' = idle /\ total' = total BY DEF NotifyAfterFailure
<1>5. idle' \in Nat /\ total' \in 0 .. MaxConnections BY <1>3, <1>4
<1>6. total' - idle' = total - idle - One(conn[c][n], Out) BY <1>2, <1>3, <1>4
<1>7. total - total' + idle' - idle <= 1 - One(conn[c][n], Up) BY <1>2, <1>3, <1>4
<1>8. conn' \in NotifyOne([conn EXCEPT ![c][n] = "closed"]) BY DEF NotifyAfterFailure
<1> QED BY <1>1, <1>5, <1>6, <1>7, <1>8, BalancedNotify

\* PooledConnection is dropped.
LEMMA ReturnInv ==
    ASSUME TypeOK, GateInv, LockInv, PoolInv, NEW c \in Commands, NEW n \in Nesting,
           NEW autocommit \in BOOLEAN, Return(c, n, autocommit)
    PROVE  TypeOK' /\ PoolInv'
<1>1. PoolFrame(c) BY DEF Return, PoolInv, PoolFrame
<1>2. One(conn[c][n], Out) = 1 /\ One(conn[c][n], Up) = 0
  BY DEF Return, One, Out, Up
<1>3. idle \in 0 .. MaxConnections /\ total \in 0 .. MaxConnections BY DEF TypeOK
<1>4. total >= idle + 1 BY OutIsCounted DEF Return, Out
<1>5. \/ idle' = idle + 1 /\ total' = total
      \/ idle' = idle /\ total' = total - 1
  BY DEF Return
<1>6. idle' \in Nat /\ total' \in 0 .. MaxConnections BY <1>3, <1>4, <1>5
<1>7. total' - idle' = total - idle - One(conn[c][n], Out) BY <1>2, <1>3, <1>5
<1>8. total - total' + idle' - idle <= 1 - One(conn[c][n], Up) BY <1>2, <1>3, <1>5
<1>9. conn' \in NotifyOne([conn EXCEPT ![c][n] = "closed"]) BY DEF Return
<1> QED BY <1>1, <1>6, <1>7, <1>8, <1>9, BalancedNotify

\* checkout finds no room: it waits or returns the busy error.
LEMMA WaitOrGiveUpInv ==
    ASSUME TypeOK, GateInv, LockInv, PoolInv, NEW c \in Commands, NEW n \in Nesting, WaitOrGiveUp(c, n)
    PROVE  TypeOK' /\ PoolInv'
<1>1. PoolFrame(c) BY DEF WaitOrGiveUp, PoolInv, PoolFrame
<1>2. PICK s \in {"wait", "closed"} : conn' = [conn EXCEPT ![c][n] = s]
  BY DEF WaitOrGiveUp
<1>3. Updated(conn, conn', c, n, s) BY <1>2 DEF Updated, TypeOK, Conns
<1>4. /\ One(s, Out) = 0
      /\ One(conn[c][n], Out) = 0
  BY DEF One, Out, WaitOrGiveUp
<1>5. idle \in 0 .. MaxConnections /\ total \in 0 .. MaxConnections BY DEF TypeOK
<1>6. idle' = idle /\ total' = total /\ idle <= 0 /\ total >= MaxConnections
  BY <1>5 DEF WaitOrGiveUp, HasRoom
<1>7. idle' \in Nat /\ total' \in 0 .. MaxConnections BY <1>5, <1>6
<1>8. total' - idle' = total - idle + One(s, Out) - One(conn[c][n], Out) BY <1>4, <1>5, <1>6
<1>9. idle' + (MaxConnections - total') <= 0 BY <1>5, <1>6
<1> QED BY <1>1, <1>3, <1>7, <1>8, <1>9, BalancedUpdate

-----------------------------------------------------------------------------
(* The gate and lock actions, one lemma each *)

\* Gate and lock actions leave the pool alone.
LEMMA GatePoolInv ==
    ASSUME TypeOK, PoolInv, UNCHANGED <<kind, idle, total, conn>>,
           \A c \in Commands : Owns(c)' => Owns(c),
           \A c \in Commands, n \in Nesting :
               Running(c) /\ conn[c][n] \notin {"none", "closed"} => Running(c)'
    PROVE  PoolInv'
<1>1. PoolAccounting' BY DEF PoolInv, PoolAccounting, CheckedOut, CheckoutsIn, Checkouts
<1>2. NoLostWakeup' BY DEF PoolInv, NoLostWakeup, Awake, Waiting, CheckoutsIn, Checkouts
<1> QED BY <1>1, <1>2 DEF PoolInv

\* Lock and pool actions leave the gate alone.
LEMMA GateFrame ==
    ASSUME GateInv, UNCHANGED <<kind, pc, active, maintenance, workers>>
    PROVE  GateInv'
<1>1. LiveCommands' = LiveCommands
  BY DEF LiveCommands, Live, HasPermit
<1> QED BY <1>1 DEF GateInv, Closing, Owns

\* acquire_maintenance replaces the pool when nobody is admitted any more.
LEMMA DrainPool ==
    ASSUME TypeOK, GateInv, LockInv, PoolInv, NEW c \in Commands, Drain(c)
    PROVE  PoolInv'
<1>1. LiveCommands = {} BY LiveFinite, FS_EmptySet DEF Drain, GateInv
<1>2. \A d \in Commands, n \in Nesting : conn[d][n] \in {"none", "closed"}
  BY <1>1 DEF PoolInv, LiveCommands, Live, HasPermit, Running
<1>3. \A states : states \cap {"none", "closed"} = {} => CheckoutsIn(conn', states) = {}
  BY <1>2 DEF CheckoutsIn, Checkouts, Drain
<1>4. CheckedOut' = {} /\ Waiting' = {}
  BY <1>3 DEF CheckedOut, Waiting
<1>5. PoolAccounting'
  BY <1>4, FS_EmptySet DEF PoolAccounting, Drain
<1>6. NoLostWakeup' BY <1>4 DEF NoLostWakeup
<1>7. \A d \in Commands, n \in Nesting : conn'[d][n] \in {"none", "closed"}
  BY <1>2 DEF Drain
<1> QED BY <1>5, <1>6, <1>7 DEF PoolInv, Drain
\* Admit keeps the invariant.
LEMMA AdmitIInv == ASSUME IInv, NEW c \in Commands, Admit(c) PROVE IInv'
<1> USE DEF IInv
<1>1. TypeOK'
  BY DEF Admit, TypeOK
<1>2. GateInv'
  <2>1. LiveCommands' = LiveCommands \cup {c}
    BY DEF Admit, TypeOK, LiveCommands, Live, HasPermit, GateInv
  <2>2. c \notin LiveCommands
    BY DEF Admit, TypeOK, LiveCommands, Live, HasPermit, GateInv
  <2>3. Cardinality(LiveCommands') = Cardinality(LiveCommands) + 1
    BY <2>1, <2>2, LiveFinite, FS_AddElement
  <2> QED BY <2>3 DEF Admit, TypeOK, GateInv, Closing, Owns
<1>3. LockInv'
  BY DEF Admit, TypeOK, LockInv
<1>4. PoolInv'
  <2>1. \A d \in Commands : Owns(d)' => Owns(d) BY DEF Admit, TypeOK, Owns
  <2>2. ASSUME NEW d \in Commands, NEW n \in Nesting,
               Running(d), conn[d][n] \notin {"none", "closed"}
        PROVE  Running(d)'
    BY <2>2 DEF Admit, TypeOK, LockInv, Running, HoldsLocks
  <2>3. UNCHANGED <<kind, idle, total, conn>> BY DEF Admit
  <2> QED BY <2>1, <2>2, <2>3, GatePoolInv
<1> QED BY <1>1, <1>2, <1>3, <1>4

\* CloseAdmission keeps the invariant.
LEMMA CloseAdmissionIInv ==
    ASSUME IInv, NEW c \in Commands, CloseAdmission(c)
    PROVE  IInv'
<1> USE DEF IInv
<1>1. TypeOK'
  BY DEF CloseAdmission, TypeOK
<1>2. GateInv'
  <2>1. LiveCommands' = LiveCommands
    BY DEF CloseAdmission, TypeOK, LiveCommands, Live, HasPermit
  <2> QED BY <2>1 DEF CloseAdmission, TypeOK, GateInv, Closing, Owns
<1>3. LockInv'
  BY DEF CloseAdmission, TypeOK, LockInv
<1>4. PoolInv'
  <2>1. \A d \in Commands : Owns(d)' => Owns(d) BY DEF CloseAdmission, TypeOK, Owns
  <2>2. ASSUME NEW d \in Commands, NEW n \in Nesting,
               Running(d), conn[d][n] \notin {"none", "closed"}
        PROVE  Running(d)'
    BY <2>2 DEF CloseAdmission, TypeOK, LockInv, Running, HoldsLocks
  <2>3. UNCHANGED <<kind, idle, total, conn>> BY DEF CloseAdmission
  <2> QED BY <2>1, <2>2, <2>3, GatePoolInv
<1> QED BY <1>1, <1>2, <1>3, <1>4

\* Drain keeps the invariant.
LEMMA DrainIInv == ASSUME IInv, NEW c \in Commands, Drain(c) PROVE IInv'
<1> USE DEF IInv
<1>1. TypeOK'
  BY DEF Drain, TypeOK
<1>2. GateInv'
  <2>1. LiveCommands' = LiveCommands
    BY DEF Drain, TypeOK, LiveCommands, Live, HasPermit, GateInv
  <2>2. kind[c] = "maintenance" /\ active' = 0 /\ active = 0 BY DEF Drain, GateInv
  <2>3. \A d \in Commands : Closing(d)' <=> Closing(d)
    BY <2>2 DEF Drain, TypeOK, Closing
  <2>4. active' = Cardinality(LiveCommands') BY <2>1 DEF Drain, GateInv
  <2>5. maintenance' <=> \E d \in Commands : Closing(d)' BY <2>3 DEF Drain, GateInv
  <2> QED BY <2>2, <2>3, <2>4, <2>5 DEF Drain, TypeOK, GateInv
<1>3. LockInv'
  BY DEF Drain, TypeOK, LockInv
<1>4. PoolInv'
  BY DrainPool
<1> QED BY <1>1, <1>2, <1>3, <1>4

\* LockScan keeps the invariant.
LEMMA LockScanIInv == ASSUME IInv, NEW c \in Commands, LockScan(c) PROVE IInv'
<1> USE DEF IInv
<1>1. TypeOK'
  BY DEF LockScan, TypeOK
<1>2. GateInv'
  BY GateFrame DEF LockScan
<1>3. LockInv'
  BY DEF LockScan, TypeOK, LockInv
<1>4. PoolInv'
  <2>1. \A d \in Commands : Owns(d)' => Owns(d) BY DEF LockScan, TypeOK, Owns
  <2>2. ASSUME NEW d \in Commands, NEW n \in Nesting,
               Running(d), conn[d][n] \notin {"none", "closed"}
        PROVE  Running(d)'
    BY <2>2 DEF LockScan, TypeOK, LockInv, Running, HoldsLocks
  <2>3. UNCHANGED <<kind, idle, total, conn>> BY DEF LockScan
  <2> QED BY <2>1, <2>2, <2>3, GatePoolInv
<1> QED BY <1>1, <1>2, <1>3, <1>4

\* LockThumbsForWriting keeps the invariant.
LEMMA LockThumbsForWritingIInv ==
    ASSUME IInv, NEW c \in Commands, LockThumbsForWriting(c)
    PROVE  IInv'
<1> USE DEF IInv
<1>1. TypeOK'
  BY DEF LockThumbsForWriting, TypeOK
<1>2. GateInv'
  BY GateFrame DEF LockThumbsForWriting
<1>3. LockInv'
  BY DEF LockThumbsForWriting, TypeOK, LockInv
<1>4. PoolInv'
  <2>1. \A d \in Commands : Owns(d)' => Owns(d) BY DEF LockThumbsForWriting, TypeOK, Owns
  <2>2. ASSUME NEW d \in Commands, NEW n \in Nesting,
               Running(d), conn[d][n] \notin {"none", "closed"}
        PROVE  Running(d)'
    BY <2>2 DEF LockThumbsForWriting, TypeOK, LockInv, Running, HoldsLocks
  <2>3. UNCHANGED <<kind, idle, total, conn>> BY DEF LockThumbsForWriting
  <2> QED BY <2>1, <2>2, <2>3, GatePoolInv
<1> QED BY <1>1, <1>2, <1>3, <1>4

\* LockThumbsForReading keeps the invariant.
LEMMA LockThumbsForReadingIInv ==
    ASSUME IInv, NEW c \in Commands, LockThumbsForReading(c)
    PROVE  IInv'
<1> USE DEF IInv
<1>1. TypeOK'
  BY DEF LockThumbsForReading, TypeOK
<1>2. GateInv'
  BY GateFrame DEF LockThumbsForReading
<1>3. LockInv'
  BY DEF LockThumbsForReading, TypeOK, LockInv
<1>4. PoolInv'
  <2>1. \A d \in Commands : Owns(d)' => Owns(d) BY DEF LockThumbsForReading, TypeOK, Owns
  <2>2. ASSUME NEW d \in Commands, NEW n \in Nesting,
               Running(d), conn[d][n] \notin {"none", "closed"}
        PROVE  Running(d)'
    BY <2>2 DEF LockThumbsForReading, TypeOK, LockInv, Running, HoldsLocks
  <2>3. UNCHANGED <<kind, idle, total, conn>> BY DEF LockThumbsForReading
  <2> QED BY <2>1, <2>2, <2>3, GatePoolInv
<1> QED BY <1>1, <1>2, <1>3, <1>4

\* Finish keeps the invariant.
LEMMA FinishIInv == ASSUME IInv, NEW c \in Commands, Finish(c) PROVE IInv'
<1> USE DEF IInv
<1>1. TypeOK'
  BY DEF Finish, TypeOK
<1>2. GateInv'
  <2>1. LiveCommands' = LiveCommands
    BY DEF Finish, TypeOK, LiveCommands, Live, HasPermit, Running
  <2> QED BY <2>1 DEF Finish, TypeOK, GateInv, Closing, Owns, Running
<1>3. LockInv'
  BY DEF Finish, TypeOK, LockInv
<1>4. PoolInv'
  <2>1. \A d \in Commands : Owns(d)' => Owns(d) BY DEF Finish, TypeOK, Owns, Running
  <2>2. ASSUME NEW d \in Commands, NEW n \in Nesting,
               Running(d), conn[d][n] \notin {"none", "closed"}
        PROVE  Running(d)'
    BY <2>2 DEF Finish, TypeOK, LockInv, Running, HoldsLocks, Unused
  <2>3. UNCHANGED <<kind, idle, total, conn>> BY DEF Finish
  <2> QED BY <2>1, <2>2, <2>3, GatePoolInv
<1> QED BY <1>1, <1>2, <1>3, <1>4

\* UnlockThumbs keeps the invariant.
LEMMA UnlockThumbsIInv == ASSUME IInv, NEW c \in Commands, UnlockThumbs(c) PROVE IInv'
<1> USE DEF IInv
<1>1. TypeOK'
  BY DEF UnlockThumbs, TypeOK
<1>2. GateInv'
  BY GateFrame DEF UnlockThumbs
<1>3. LockInv'
  BY DEF UnlockThumbs, TypeOK, LockInv
<1>4. PoolInv'
  <2>1. \A d \in Commands : Owns(d)' => Owns(d) BY DEF UnlockThumbs, TypeOK, Owns
  <2>2. ASSUME NEW d \in Commands, NEW n \in Nesting,
               Running(d), conn[d][n] \notin {"none", "closed"}
        PROVE  Running(d)'
    BY <2>2 DEF UnlockThumbs, TypeOK, LockInv, Running, HoldsLocks
  <2>3. UNCHANGED <<kind, idle, total, conn>> BY DEF UnlockThumbs
  <2> QED BY <2>1, <2>2, <2>3, GatePoolInv
<1> QED BY <1>1, <1>2, <1>3, <1>4

\* UnlockScan keeps the invariant.
LEMMA UnlockScanIInv == ASSUME IInv, NEW c \in Commands, UnlockScan(c) PROVE IInv'
<1> USE DEF IInv
<1>1. TypeOK'
  BY DEF UnlockScan, TypeOK
<1>2. GateInv'
  BY GateFrame DEF UnlockScan
<1>3. LockInv'
  BY DEF UnlockScan, TypeOK, LockInv
<1>4. PoolInv'
  <2>1. \A d \in Commands : Owns(d)' => Owns(d) BY DEF UnlockScan, TypeOK, Owns
  <2>2. ASSUME NEW d \in Commands, NEW n \in Nesting,
               Running(d), conn[d][n] \notin {"none", "closed"}
        PROVE  Running(d)'
    BY <2>2 DEF UnlockScan, TypeOK, LockInv, Running, HoldsLocks
  <2>3. UNCHANGED <<kind, idle, total, conn>> BY DEF UnlockScan
  <2> QED BY <2>1, <2>2, <2>3, GatePoolInv
<1> QED BY <1>1, <1>2, <1>3, <1>4

\* DropPermit keeps the invariant.
LEMMA DropPermitIInv == ASSUME IInv, NEW c \in Commands, DropPermit(c) PROVE IInv'
<1> USE DEF IInv
<1>1. TypeOK'
  <2>1. c \in LiveCommands BY DEF DropPermit, LiveCommands, Live, HasPermit
  <2>2. active # 0 BY <2>1, LiveFinite, FS_EmptySet DEF GateInv
  <2>3. active' \in Nat BY <2>2 DEF DropPermit, TypeOK
  <2> QED BY <2>3 DEF DropPermit, TypeOK
<1>2. GateInv'
  <2>1. c \in LiveCommands BY DEF DropPermit, LiveCommands, Live, HasPermit
  <2>2. LiveCommands' = IF LastClone(c) THEN LiveCommands \ {c} ELSE LiveCommands
    BY DEF DropPermit, TypeOK, LiveCommands, Live, HasPermit, LastClone
  <2>3. active' = Cardinality(LiveCommands')
    BY <2>1, <2>2, LiveFinite, FS_RemoveElement DEF DropPermit, GateInv
  <2>4. active # 0
    BY <2>1, LiveFinite, FS_EmptySet DEF GateInv
  <2> QED BY <2>3, <2>4 DEF DropPermit, TypeOK, GateInv, Closing, Owns
<1>3. LockInv'
  BY DEF DropPermit, TypeOK, LockInv, HoldsThumbs
<1>4. PoolInv'
  <2>1. \A d \in Commands : Owns(d)' => Owns(d) BY DEF DropPermit, TypeOK, Owns
  <2>2. ASSUME NEW d \in Commands, NEW n \in Nesting,
               Running(d), conn[d][n] \notin {"none", "closed"}
        PROVE  Running(d)'
    BY <2>2 DEF DropPermit, TypeOK, LockInv, Running, HoldsLocks
  <2>3. UNCHANGED <<kind, idle, total, conn>> BY DEF DropPermit
  <2> QED BY <2>1, <2>2, <2>3, GatePoolInv
<1> QED BY <1>1, <1>2, <1>3, <1>4

\* DropMaintenancePermit keeps the invariant.
LEMMA DropMaintenancePermitIInv ==
    ASSUME IInv, NEW c \in Commands, DropMaintenancePermit(c)
    PROVE  IInv'
<1> USE DEF IInv
<1>1. TypeOK'
  BY DEF DropMaintenancePermit, TypeOK
<1>2. GateInv'
  <2>1. LiveCommands' = LiveCommands
    BY DEF DropMaintenancePermit, TypeOK, LiveCommands, Live, HasPermit
  <2> QED BY <2>1 DEF DropMaintenancePermit, TypeOK, GateInv, Closing, Owns
<1>3. LockInv'
  BY DEF DropMaintenancePermit, TypeOK, LockInv, HoldsThumbs
<1>4. PoolInv'
  <2>1. \A d \in Commands : Owns(d)' => Owns(d) BY DEF DropMaintenancePermit, TypeOK, Owns
  <2>2. ASSUME NEW d \in Commands, NEW n \in Nesting,
               Running(d), conn[d][n] \notin {"none", "closed"}
        PROVE  Running(d)'
    BY <2>2 DEF DropMaintenancePermit, TypeOK, LockInv, Running, HoldsLocks
  <2>3. UNCHANGED <<kind, idle, total, conn>> BY DEF DropMaintenancePermit
  <2> QED BY <2>1, <2>2, <2>3, GatePoolInv
<1> QED BY <1>1, <1>2, <1>3, <1>4

\* StartWorker keeps the invariant.
LEMMA StartWorkerIInv == ASSUME IInv, NEW c \in Commands, StartWorker(c) PROVE IInv'
<1> USE DEF IInv
<1>1. TypeOK'
  BY DEF StartWorker, TypeOK
<1>2. GateInv'
  <2>1. LiveCommands' = LiveCommands
    BY DEF StartWorker, TypeOK, LiveCommands, Live, HasPermit, Running, StartsWorkers
  <2> QED BY <2>1 DEF StartWorker, TypeOK, GateInv, Closing, Owns, Running, StartsWorkers
<1>3. LockInv'
  BY DEF StartWorker, TypeOK, LockInv
<1>4. PoolInv'
  <2>1. \A d \in Commands : Owns(d)' => Owns(d) BY DEF StartWorker, TypeOK, Owns
  <2>2. ASSUME NEW d \in Commands, NEW n \in Nesting,
               Running(d), conn[d][n] \notin {"none", "closed"}
        PROVE  Running(d)'
    BY <2>2 DEF StartWorker, TypeOK, LockInv, Running, HoldsLocks
  <2>3. UNCHANGED <<kind, idle, total, conn>> BY DEF StartWorker
  <2> QED BY <2>1, <2>2, <2>3, GatePoolInv
<1> QED BY <1>1, <1>2, <1>3, <1>4

\* WorkerDone keeps the invariant.
LEMMA WorkerDoneIInv == ASSUME IInv, NEW c \in Commands, WorkerDone(c) PROVE IInv'
<1> USE DEF IInv
<1>1. TypeOK'
  <2>1. c \in LiveCommands BY DEF WorkerDone, LiveCommands, Live, HasPermit
  <2>2. active # 0 BY <2>1, LiveFinite, FS_EmptySet DEF GateInv
  <2>3. active' \in Nat BY <2>2 DEF WorkerDone, TypeOK
  <2> QED BY <2>3 DEF WorkerDone, TypeOK
<1>2. GateInv'
  <2>1. c \in LiveCommands BY DEF WorkerDone, LiveCommands, Live
  <2>2. LiveCommands' = IF workers[c] = 1 /\ ~HasPermit(c) THEN LiveCommands \ {c} ELSE LiveCommands
    BY DEF WorkerDone, TypeOK, LiveCommands, Live, HasPermit
  <2>3. active' = Cardinality(LiveCommands')
    BY <2>1, <2>2, LiveFinite, FS_RemoveElement DEF WorkerDone, GateInv
  <2>4. active # 0
    BY <2>1, LiveFinite, FS_EmptySet DEF GateInv
  <2> QED BY <2>3, <2>4 DEF WorkerDone, TypeOK, GateInv, Closing, Owns
<1>3. LockInv'
  BY DEF WorkerDone, TypeOK, LockInv
<1>4. PoolInv'
  <2>1. \A d \in Commands : Owns(d)' => Owns(d) BY DEF WorkerDone, TypeOK, Owns
  <2>2. ASSUME NEW d \in Commands, NEW n \in Nesting,
               Running(d), conn[d][n] \notin {"none", "closed"}
        PROVE  Running(d)'
    BY <2>2 DEF WorkerDone, TypeOK, LockInv, Running, HoldsLocks
  <2>3. UNCHANGED <<kind, idle, total, conn>> BY DEF WorkerDone
  <2> QED BY <2>1, <2>2, <2>3, GatePoolInv
<1> QED BY <1>1, <1>2, <1>3, <1>4

\* One pool action of one checkout keeps the whole invariant.
LEMMA PoolIInv ==
    ASSUME IInv, NEW c \in Commands, NEW n \in Nesting,
           \/ Request(c, n) \/ TakeIdle(c, n) \/ ReserveNew(c, n) \/ WaitOrGiveUp(c, n)
           \/ WaitTimesOut(c, n) \/ Opened(c, n) \/ OpenFails(c, n)
           \/ NotifyAfterFailure(c, n)
           \/ \E autocommit \in BOOLEAN : Return(c, n, autocommit)
    PROVE  IInv'
<1> USE DEF IInv
<1>1. TypeOK' /\ PoolInv'
  BY RequestInv, TakeIdleInv, ReserveNewInv, WaitOrGiveUpInv, WaitTimesOutInv,
     OpenedInv, OpenFailsInv, NotifyAfterFailureInv, ReturnInv
<1>2. UNCHANGED <<kind, pc, active, maintenance, workers, scanLock, thumbWriter, thumbReaders>>
  BY DEF Request, TakeIdle, ReserveNew, WaitOrGiveUp, WaitTimesOut, Opened,
         OpenFails, NotifyAfterFailure, Return
<1>3. GateInv' BY <1>2, GateFrame
<1>4. LockInv' BY <1>2 DEF LockInv
<1> QED BY <1>1, <1>3, <1>4

-----------------------------------------------------------------------------
(* The gate is implemented *)

\* Closer is the one command that closed admission, or NoOne.
LEMMA CloserIs ==
    ASSUME GateInv
    PROVE  /\ \A c \in Commands : Closing(c) => Closer = c
           /\ (\A c \in Commands : ~Closing(c)) => Closer = NoOne
  BY DEF Closer, GateInv

\* The same of the state after a step.
LEMMA CloserIsAfter ==
    ASSUME GateInv'
    PROVE  /\ \A c \in Commands : Closing(c)' => Closer' = c
           /\ (\A c \in Commands : ~Closing(c)') => Closer' = NoOne
  BY DEF Closer, GateInv

\* Initially the gate is open and nobody is inside.
LEMMA InitGate == ASSUME Init PROVE Gate!GateInit
<1>1. LiveCommands = {} /\ Owned = FALSE
  BY DEF Init, LiveCommands, Live, HasPermit, Owned, Owns
<1>2. Closer = NoOne BY InitIInv, CloserIs DEF IInv, Init, Closing
<1> QED BY <1>1, <1>2 DEF Gate!GateInit

\* The gate does not see a step that changes neither who is live nor who
\* closes or owns it.
LEMMA GateStutter ==
    ASSUME IInv, IInv', LiveCommands' = LiveCommands,
           \A c \in Commands : (Closing(c)' <=> Closing(c)) /\ (Owns(c)' <=> Owns(c))
    PROVE  UNCHANGED Gate!gateVars
<1>1. Closer' = Closer BY CloserIs, CloserIsAfter DEF IInv
<1>2. Owned' = Owned BY DEF Owned
<1> QED BY <1>1, <1>2 DEF Gate!gateVars

\* acquire_operation is Enter.
LEMMA AdmitEnters ==
    ASSUME IInv, IInv', NEW c \in Commands, Admit(c) PROVE Gate!Enter(c)
<1> USE DEF IInv
<1>1. /\ LiveCommands' = LiveCommands \cup {c}
      /\ c \notin LiveCommands
  BY DEF Admit, TypeOK, LiveCommands, Live, HasPermit, GateInv
<1>2. \A d \in Commands : ~Closing(d) /\ ~Closing(d)'
  BY DEF Admit, TypeOK, GateInv, Closing
<1>3. Closer = NoOne /\ Closer' = NoOne BY <1>2, CloserIs, CloserIsAfter
<1>4. Owned' = Owned BY DEF Admit, TypeOK, Owned, Owns
<1> QED BY <1>1, <1>3, <1>4 DEF Gate!Enter

\* The first half of acquire_maintenance is Close.
LEMMA CloseAdmissionCloses ==
    ASSUME IInv, IInv', NEW c \in Commands, CloseAdmission(c) PROVE Gate!Close(c)
<1> USE DEF IInv
<1>1. /\ LiveCommands' = LiveCommands
      /\ c \notin LiveCommands
  BY DEF CloseAdmission, TypeOK, LiveCommands, Live, HasPermit, GateInv
<1>2. \A d \in Commands : ~Closing(d) BY DEF CloseAdmission, GateInv
<1>3. Closing(c)' BY DEF CloseAdmission, TypeOK, Closing
<1>4. Closer = NoOne /\ Closer' = c BY <1>2, <1>3, CloserIs, CloserIsAfter
<1>5. Owned' = Owned BY DEF CloseAdmission, TypeOK, Owned, Owns
<1> QED BY <1>1, <1>4, <1>5 DEF Gate!Close

\* The second half, when the last admission ended, is Own.
LEMMA DrainOwns ==
    ASSUME IInv, IInv', NEW c \in Commands, Drain(c) PROVE Gate!Own(c)
<1> USE DEF IInv
<1>1. kind[c] = "maintenance" BY DEF Drain, GateInv
<1>2. LiveCommands = {} BY LiveFinite, FS_EmptySet DEF Drain, GateInv
<1>3. LiveCommands' = LiveCommands
  BY <1>1 DEF Drain, TypeOK, LiveCommands, Live, HasPermit
<1>4. Closing(c) /\ Closing(c)' /\ Owns(c)'
  BY <1>1 DEF Drain, TypeOK, Closing, Owns
<1>5. Closer = c /\ Closer' = c BY <1>4, CloserIs, CloserIsAfter
<1>6. \A d \in Commands : ~Owns(d)
  BY <1>4 DEF Drain, GateInv, Closing, Owns
<1>7. Owned = FALSE /\ Owned' = TRUE BY <1>4, <1>6 DEF Owned
<1> QED BY <1>2, <1>3, <1>5, <1>7 DEF Gate!Own

\* Dropping the maintenance permit is Reopen.
LEMMA DropMaintenancePermitReopens ==
    ASSUME IInv, IInv', NEW c \in Commands, DropMaintenancePermit(c) PROVE Gate!Reopen(c)
<1> USE DEF IInv
<1>1. LiveCommands' = LiveCommands
  BY DEF DropMaintenancePermit, TypeOK, LiveCommands, Live, HasPermit
<1>2. Closing(c) /\ Owns(c) BY DEF DropMaintenancePermit, Closing, Owns
<1>3. \A d \in Commands : ~Closing(d)' BY DEF DropMaintenancePermit, GateInv
<1>4. \A d \in Commands : ~Owns(d)' BY <1>3 DEF Closing, Owns
<1>5. Closer = c /\ Closer' = NoOne BY <1>2, <1>3, CloserIs, CloserIsAfter
<1>6. Owned = TRUE /\ Owned' = FALSE BY <1>2, <1>4 DEF Owned
<1> QED BY <1>1, <1>5, <1>6 DEF Gate!Reopen

\* A step after which c alone may no longer be live is a Leave or a stutter.
LEMMA Leaves ==
    ASSUME IInv, IInv', NEW c \in Commands, c \in LiveCommands,
           LiveCommands' \in {LiveCommands, LiveCommands \ {c}},
           \A d \in Commands : (Closing(d)' <=> Closing(d)) /\ (Owns(d)' <=> Owns(d))
    PROVE  [Gate!Leave(c)]_Gate!gateVars
<1>1. CASE LiveCommands' = LiveCommands
  BY <1>1, GateStutter
<1>2. CASE LiveCommands' = LiveCommands \ {c}
  <2>1. Closer' = Closer BY CloserIs, CloserIsAfter DEF IInv
  <2>2. Owned' = Owned BY DEF Owned
  <2> QED BY <1>2, <2>1, <2>2 DEF Gate!Leave
<1> QED BY <1>1, <1>2

\* Dropping the permit of a command without workers is Leave.
LEMMA DropPermitLeaves ==
    ASSUME IInv, IInv', NEW c \in Commands, DropPermit(c)
    PROVE  [Gate!Leave(c)]_Gate!gateVars
<1> USE DEF IInv
<1>1. c \in LiveCommands BY DEF DropPermit, LiveCommands, Live, HasPermit
<1>2. LiveCommands' = IF LastClone(c) THEN LiveCommands \ {c} ELSE LiveCommands
  BY DEF DropPermit, TypeOK, LiveCommands, Live, HasPermit, LastClone
<1>3. \A d \in Commands : (Closing(d)' <=> Closing(d)) /\ (Owns(d)' <=> Owns(d))
  BY DEF DropPermit, TypeOK, Closing, Owns
<1> QED BY <1>1, <1>2, <1>3, Leaves

\* The end of the last worker of a finished command is Leave.
LEMMA WorkerDoneLeaves ==
    ASSUME IInv, IInv', NEW c \in Commands, WorkerDone(c)
    PROVE  [Gate!Leave(c)]_Gate!gateVars
<1> USE DEF IInv
<1>1. c \in LiveCommands BY DEF WorkerDone, LiveCommands, Live
<1>2. LiveCommands' = IF workers[c] = 1 /\ ~HasPermit(c)
                      THEN LiveCommands \ {c} ELSE LiveCommands
  BY DEF WorkerDone, TypeOK, LiveCommands, Live, HasPermit
<1>3. \A d \in Commands : (Closing(d)' <=> Closing(d)) /\ (Owns(d)' <=> Owns(d))
  BY DEF WorkerDone, Closing, Owns
<1> QED BY <1>1, <1>2, <1>3, Leaves

\* Every other action is invisible at the gate.
LEMMA StartWorkerIsInvisible ==
    ASSUME IInv, IInv', NEW c \in Commands, StartWorker(c)
    PROVE  UNCHANGED Gate!gateVars
<1>1. LiveCommands' = LiveCommands
  BY DEF IInv, StartWorker, TypeOK, LiveCommands, Live, HasPermit, Running, StartsWorkers
<1>2. \A d \in Commands : (Closing(d)' <=> Closing(d)) /\ (Owns(d)' <=> Owns(d))
  BY DEF StartWorker, Closing, Owns
<1> QED BY <1>1, <1>2, GateStutter

\* A command that finished its work is still inside.
LEMMA FinishIsInvisible ==
    ASSUME IInv, IInv', NEW c \in Commands, Finish(c)
    PROVE  UNCHANGED Gate!gateVars
<1>1. LiveCommands' = LiveCommands
  BY DEF IInv, Finish, TypeOK, LiveCommands, Live, HasPermit, Running
<1>2. \A d \in Commands : (Closing(d)' <=> Closing(d)) /\ (Owns(d)' <=> Owns(d))
  BY DEF IInv, TypeOK, Finish, Closing, Owns, Running
<1> QED BY <1>1, <1>2, GateStutter

\* Steps on locks and pool are invisible at the gate.
LEMMA LockOrPoolIsInvisible ==
    ASSUME IInv, IInv', UNCHANGED <<kind, pc, workers>>
    PROVE  UNCHANGED Gate!gateVars
<1>1. LiveCommands' = LiveCommands BY DEF LiveCommands, Live, HasPermit
<1>2. \A d \in Commands : (Closing(d)' <=> Closing(d)) /\ (Owns(d)' <=> Owns(d))
  BY DEF Closing, Owns
<1> QED BY <1>1, <1>2, GateStutter

\* Every step is a step of the gate or a stutter.
LEMMA NextGate == IInv /\ IInv' /\ [Next]_vars => [Gate!GateNext]_Gate!gateVars
<1> SUFFICES ASSUME IInv, IInv', [Next]_vars
             PROVE  [Gate!GateNext]_Gate!gateVars
  OBVIOUS
<1>1. CASE UNCHANGED vars
  BY <1>1, LockOrPoolIsInvisible DEF vars
<1>2. ASSUME NEW c \in Commands, Step(c) PROVE [Gate!GateNext]_Gate!gateVars
  <2>1. CASE Admit(c) BY <2>1, AdmitEnters DEF Gate!GateNext
  <2>2. CASE CloseAdmission(c) BY <2>2, CloseAdmissionCloses DEF Gate!GateNext
  <2>3. CASE Drain(c) BY <2>3, DrainOwns DEF Gate!GateNext
  <2>4. CASE DropPermit(c) BY <2>4, DropPermitLeaves DEF Gate!GateNext
  <2>5. CASE DropMaintenancePermit(c)
    BY <2>5, DropMaintenancePermitReopens DEF Gate!GateNext
  <2>6. CASE Finish(c) BY <2>6, FinishIsInvisible
  <2>7. CASE LockScan(c) \/ LockThumbsForWriting(c) \/ LockThumbsForReading(c)
             \/ UnlockThumbs(c) \/ UnlockScan(c) \/ PoolStep(c)
    <3>1. UNCHANGED <<kind, pc, workers>>
      BY <2>7 DEF LockScan, LockThumbsForWriting, LockThumbsForReading,
                  UnlockThumbs, UnlockScan, PoolStep, TakeIdle, ReserveNew,
                  WaitOrGiveUp, WaitTimesOut, Opened, OpenFails,
                  NotifyAfterFailure, Return
    <3> QED BY <3>1, LockOrPoolIsInvisible
  <2> QED BY <1>2, <2>1, <2>2, <2>3, <2>4, <2>5, <2>6, <2>7 DEF Step
<1>3. ASSUME NEW c \in Commands, WorkerDone(c) PROVE [Gate!GateNext]_Gate!gateVars
  BY <1>3, WorkerDoneLeaves DEF Gate!GateNext
<1>4. ASSUME NEW c \in Commands, StartWorker(c) PROVE [Gate!GateNext]_Gate!gateVars
  BY <1>4, StartWorkerIsInvisible
<1>5. ASSUME NEW c \in Commands, NEW n \in Nesting, Request(c, n)
      PROVE  [Gate!GateNext]_Gate!gateVars
  BY <1>5, LockOrPoolIsInvisible DEF Request
<1> QED BY <1>1, <1>2, <1>3, <1>4, <1>5 DEF Next

-----------------------------------------------------------------------------
(* The theorems *)

\* IInv is inductive: every step of every thread keeps it.
THEOREM NextIInv == IInv /\ [Next]_vars => IInv'
<1> SUFFICES ASSUME IInv, [Next]_vars PROVE IInv'
  OBVIOUS
<1>1. CASE UNCHANGED vars
  <2>1. UNCHANGED <<kind, pc, active, maintenance, workers, idle, total, conn,
                    scanLock, thumbWriter, thumbReaders>>
    BY <1>1 DEF vars
  <2>2. TypeOK' /\ LockInv' BY <2>1 DEF IInv, TypeOK, LockInv
  <2>3. GateInv' BY <2>1, GateFrame DEF IInv
  <2>4. PoolInv' BY <2>1, GatePoolInv DEF IInv, Owns, Running, HoldsLocks
  <2> QED BY <2>2, <2>3, <2>4 DEF IInv
<1>2. ASSUME NEW c \in Commands, Step(c) PROVE IInv'
  BY <1>2, AdmitIInv, CloseAdmissionIInv, DrainIInv, LockScanIInv,
     LockThumbsForWritingIInv, LockThumbsForReadingIInv, FinishIInv,
     UnlockThumbsIInv, UnlockScanIInv, DropPermitIInv,
     DropMaintenancePermitIInv, PoolIInv DEF Step, PoolStep
<1>3. ASSUME NEW c \in Commands, NEW n \in Nesting, Request(c, n) PROVE IInv'
  BY <1>3, PoolIInv
<1> QED BY <1>1, <1>2, <1>3, StartWorkerIInv, WorkerDoneIInv DEF Next

\* The invariant implies each property the runs check.
LEMMA IInvImplies ==
    ASSUME IInv
    PROVE  MaintenanceIsAlone /\ LocksFreeWhenDrained /\ DestructiveWorkIsAlone
<1> USE DEF IInv
<1>1. ASSUME active = 0
      PROVE  \A c \in Commands : ~Live(c)
  <2>1. LiveCommands = {} BY <1>1, LiveFinite, FS_EmptySet DEF GateInv
  <2> QED BY <2>1 DEF LiveCommands
<1>2. MaintenanceIsAlone
  <2> SUFFICES ASSUME NEW c \in Commands, Owns(c)
               PROVE  /\ maintenance /\ active = 0 /\ idle = 0 /\ total = 0
                      /\ \A d \in Commands : ~Live(d) /\ Unused(d) /\ (Owns(d) => d = c)
    BY DEF MaintenanceIsAlone
  <2>1. active = 0 /\ idle = 0 /\ total = 0 BY DEF GateInv, PoolInv
  <2>2. \A d \in Commands : ~Live(d) BY <1>1, <2>1
  <2>3. \A d \in Commands : Unused(d)
    BY <2>2 DEF PoolInv, Unused, Live, HasPermit, Running
  <2>4. maintenance /\ \A d \in Commands : Owns(d) => d = c
    BY DEF GateInv, Closing, Owns
  <2> QED BY <2>1, <2>2, <2>3, <2>4
<1>3. LocksFreeWhenDrained
  <2> SUFFICES ASSUME active = 0
               PROVE  /\ \A c \in Commands : scanLock = c \/ HoldsThumbs(c) => Owns(c)
                      /\ \A c \in Commands : pc[c] = "draining" =>
                             scanLock = NoOne /\ thumbWriter = NoOne /\ thumbReaders = {}
    BY DEF LocksFreeWhenDrained
  <2>1. \A c \in Commands : scanLock = c \/ HoldsThumbs(c) => Owns(c)
    BY <1>1 DEF LockInv, HoldsThumbs, Owns, Live, HasPermit
  <2>2. ASSUME NEW c \in Commands, pc[c] = "draining"
        PROVE  scanLock = NoOne /\ thumbWriter = NoOne /\ thumbReaders = {}
    <3>1. \A d \in Commands : ~Owns(d) BY <2>2 DEF GateInv, Closing, Owns
    <3> QED BY <2>1, <3>1 DEF TypeOK, HoldsThumbs
  <2> QED BY <2>1, <2>2
<1>4. DestructiveWorkIsAlone
  <2> SUFFICES ASSUME NEW c \in Commands, NEW d \in Commands, c # d, Running(c),
                      kind[c] \in {"scanThumb", "maintenance"}, Running(d)
               PROVE  kind[c] = "scanThumb" /\ kind[d] = "plain"
    BY DEF DestructiveWorkIsAlone
  <2>1. scanLock = c /\ thumbWriter = c /\ thumbReaders = {}
    BY DEF Running, HoldsLocks, NeedsScan, WritesThumbs, LockInv
  <2>2. kind[d] = "plain"
    BY <2>1 DEF Running, HoldsLocks, NeedsScan, WritesThumbs, ReadsThumbs, TypeOK
  <2>3. kind[c] # "maintenance"
    <3> SUFFICES ASSUME kind[c] = "maintenance" PROVE FALSE
      OBVIOUS
    <3>1. Owns(c) BY DEF Owns, Running
    <3>2. ~Live(d) BY <1>1, <3>1 DEF GateInv
    <3> QED BY <2>2, <3>2 DEF Live, HasPermit, Running
  <2> QED BY <2>2, <2>3
<1> QED BY <1>2, <1>3, <1>4

\* The inductive invariant holds in every reachable state.
THEOREM IInvHolds == Spec => []IInv
  BY InitIInv, NextIInv, PTL DEF Spec

\* Every variable keeps its type: no counter of db_pool.rs goes below zero and
\* the pool stays within MAX_CONNECTIONS.
THEOREM TypeCorrect == Spec => []TypeOK
<1>1. IInv => TypeOK BY DEF IInv
<1> QED BY <1>1, IInvHolds, PTL

\* While with_database_maintenance owns the database nothing else touches it.
THEOREM MaintenanceAlone == Spec => []MaintenanceIsAlone
<1>1. IInv => MaintenanceIsAlone BY IInvImplies
<1> QED BY <1>1, IInvHolds, PTL

\* Pool.total is exact, however checkouts fail, time out or are thrown away.
THEOREM PoolIsAccounted == Spec => []PoolAccounting
<1>1. IInv => PoolAccounting BY DEF IInv, PoolInv
<1> QED BY <1>1, IInvHolds, PTL

\* notify_one loses no wakeup: no checkout sleeps next to a free connection.
THEOREM NoWakeupIsLost == Spec => []NoLostWakeup
<1>1. IInv => NoLostWakeup BY DEF IInv, PoolInv
<1> QED BY <1>1, IInvHolds, PTL

\* The pool is exact and loses no wakeup.
THEOREM PoolAlwaysSound == Spec => []PoolIsSound
<1>1. PoolAccounting /\ NoLostWakeup => PoolIsSound BY DEF PoolIsSound
<1> QED BY <1>1, PoolIsAccounted, NoWakeupIsLost, PTL

\* The workflow locks are free when the last admission ended.
THEOREM LocksAreInsideTheGate == Spec => []LocksFreeWhenDrained
<1>1. IInv => LocksFreeWhenDrained BY IInvImplies
<1> QED BY <1>1, IInvHolds, PTL

\* Destructive work excludes scans, thumbnail work and other destructive work.
THEOREM DestructiveWorkAlone == Spec => []DestructiveWorkIsAlone
<1>1. IInv => DestructiveWorkIsAlone BY IInvImplies
<1> QED BY <1>1, IInvHolds, PTL
\* The permit counter, the permit clones of the workers and the locks together
\* implement the gate: nobody enters once it is closed, and it is owned only
\* when every command and worker inside has left.
THEOREM GateIsImplemented == Spec => ImplementsGate
<1>1. IInv /\ IInv' /\ [Next]_vars => [Gate!GateNext]_Gate!gateVars
  BY NextGate
<1>2. Init => Gate!GateInit BY InitGate
<1> QED
  BY <1>1, <1>2, IInvHolds, PTL DEF Spec, ImplementsGate, Gate!GateSpec
=============================================================================
