------------------------ MODULE ThumbScheduler_proofs ------------------------
(***************************************************************************)
(* Proofs about the thumbnail scheduler, for any keys, any number of       *)
(* callers, any pool and any limits.  The inductive invariant              *)
(* SchedulerInv says where a key, a waiter and a wake-up may be; that no   *)
(* wake-up is lost rests on a count: the jobs that could start now are     *)
(* never more than the workers awake and the notifications still to come.  *)
(***************************************************************************)
EXTENDS ThumbScheduler, SequenceTheorems, FiniteSetTheorems,
        WellFoundedInduction, TLAPS

-----------------------------------------------------------------------------
(* Queues and waiter lists *)

\* A list of bounded length is a sequence that is not too long.
LEMMA BoundedSeqs ==
    ASSUME NEW S, NEW n \in Nat
    PROVE  \A s : s \in BoundedSeq(S, n) <=> s \in Seq(S) /\ Len(s) <= n
<1> TAKE s
<1>1. ASSUME s \in BoundedSeq(S, n)
      PROVE  s \in Seq(S) /\ Len(s) <= n
  <2>1. PICK m \in 0 .. n : s \in [1 .. m -> S]
    BY <1>1 DEF BoundedSeq, SeqOf
  <2>2. s \in Seq(S) /\ Len(s) = m
    BY <2>1, SeqDef
  <2> QED
    BY <2>1, <2>2
<1>2. ASSUME s \in Seq(S), Len(s) <= n
      PROVE  s \in BoundedSeq(S, n)
  <2>1. Len(s) \in 0 .. n /\ s \in [1 .. Len(s) -> S]
    BY <1>2, LenProperties
  <2> QED
    BY <2>1 DEF BoundedSeq, SeqOf
<1> QED
  BY <1>1, <1>2

\* A nonempty set of positions has a first one.
LEMMA MinIsLeast ==
    ASSUME NEW S \in SUBSET Nat, S # {}
    PROVE  Min(S) \in S /\ \A x \in S : Min(S) <= x
<1>1. PICK m \in S : \A u \in S : ~(<<u, m>> \in OpToRel(<, Nat))
  BY NatLessThanWellFounded, WFMin
<1>2. \A u \in S : m =< u
  <2> TAKE u \in S
  <2>1. u \in Nat /\ m \in Nat /\ ~(<<u, m>> \in OpToRel(<, Nat))
    BY <1>1
  <2> QED
    BY <2>1 DEF OpToRel
<1> QED
  BY <1>2 DEF Min

\* Removing one position shifts the later ones.
LEMMA RemoveAtShifts ==
    ASSUME NEW S, NEW q \in Seq(S), NEW i \in 1 .. Len(q)
    PROVE  /\ RemoveAt(q, i) \in Seq(S)
           /\ Len(RemoveAt(q, i)) = Len(q) - 1
           /\ \A j \in 1 .. i - 1 : RemoveAt(q, i)[j] = q[j]
           /\ \A j \in i .. Len(q) - 1 : RemoveAt(q, i)[j] = q[j + 1]
<1> DEFINE a == SubSeq(q, 1, i - 1)
           b == SubSeq(q, i + 1, Len(q))
<1>0. Len(q) \in Nat /\ i \in Nat /\ i - 1 \in Int /\ i + 1 \in Int /\ 1 \in Int
  BY LenProperties
<1>1. \A j \in 1 .. Len(q) : q[j] \in S
  BY ElementOfSeq
<1>2. a \in Seq(S) /\ Len(a) = i - 1 /\ \A j \in 1 .. i - 1 : a[j] = q[j]
  <2>1. \A j \in 1 .. i - 1 : q[j] \in S
    BY <1>0, <1>1
  <2>2. /\ a \in Seq(S)
        /\ Len(a) = IF 1 <= i - 1 THEN i - 1 - 1 + 1 ELSE 0
        /\ \A j \in 1 .. i - 1 - 1 + 1 : a[j] = q[1 + j - 1]
    BY <1>0, <2>1, SubSeqProperties
  <2> HIDE DEF a
  <2> QED
    BY <1>0, <2>2
<1>3. /\ b \in Seq(S) /\ Len(b) = Len(q) - i
      /\ \A j \in 1 .. Len(q) - i : b[j] = q[i + j]
  <2>1. \A j \in i + 1 .. Len(q) : q[j] \in S
    BY <1>0, <1>1
  <2>2. /\ b \in Seq(S)
        /\ Len(b) = IF i + 1 <= Len(q) THEN Len(q) - (i + 1) + 1 ELSE 0
        /\ \A j \in 1 .. Len(q) - (i + 1) + 1 : b[j] = q[i + 1 + j - 1]
    BY <1>0, <2>1, SubSeqProperties
  <2> HIDE DEF b
  <2>3. \A j \in 1 .. Len(q) - i : b[j] = q[i + j]
    <3> TAKE j \in 1 .. Len(q) - i
    <3>1. j \in 1 .. Len(q) - (i + 1) + 1 /\ i + 1 + j - 1 = i + j
      BY <1>0
    <3> QED
      BY <2>2, <3>1
  <2> QED
    BY <1>0, <2>2, <2>3
<1> HIDE DEF a, b
<1>4. /\ a \o b \in Seq(S)
      /\ Len(a \o b) = Len(a) + Len(b)
      /\ \A j \in 1 .. Len(a) + Len(b) :
           (a \o b)[j] = IF j <= Len(a) THEN a[j] ELSE b[j - Len(a)]
  BY <1>2, <1>3, ConcatProperties
<1>5. RemoveAt(q, i) = a \o b
  BY DEF RemoveAt, a, b
<1>6. \A j \in i .. Len(q) - 1 : (a \o b)[j] = q[j + 1]
  <2> TAKE j \in i .. Len(q) - 1
  <2>1. /\ j \in 1 .. Len(a) + Len(b) /\ ~(j <= Len(a))
        /\ j - Len(a) \in 1 .. Len(q) - i /\ i + (j - Len(a)) = j + 1
    BY <1>0, <1>2, <1>3
  <2> QED
    BY <1>3, <1>4, <2>1
<1>7. \A j \in 1 .. i - 1 : (a \o b)[j] = q[j]
  BY <1>0, <1>2, <1>3, <1>4
<1>8. Len(a \o b) = Len(q) - 1
  BY <1>0, <1>2, <1>3, <1>4
<1> QED
  BY <1>4, <1>5, <1>6, <1>7, <1>8

\* A queue without repetitions loses exactly the key at the position removed.
LEMMA RemovedKey ==
    ASSUME NEW S, NEW q \in Seq(S), NEW i \in 1 .. Len(q), IsInjective(q)
    PROVE  /\ RemoveAt(q, i) \in Seq(S) /\ IsInjective(RemoveAt(q, i))
           /\ \A k : Contains(RemoveAt(q, i), k) <=> Contains(q, k) /\ k # q[i]
<1> DEFINE t == RemoveAt(q, i)
<1>0. /\ Len(q) \in Nat /\ DOMAIN q = 1 .. Len(q)
      /\ t \in Seq(S) /\ Len(t) = Len(q) - 1 /\ DOMAIN t = 1 .. Len(q) - 1
      /\ \A j \in 1 .. i - 1 : t[j] = q[j]
      /\ \A j \in i .. Len(q) - 1 : t[j] = q[j + 1]
  BY RemoveAtShifts, LenProperties
<1>1. \A x, y \in 1 .. Len(q) : q[x] = q[y] => x = y
  BY <1>0 DEF IsInjective
<1> HIDE DEF t
<1>2. \A j \in 1 .. Len(q) - 1 : \E x \in 1 .. Len(q) :
         t[j] = q[x] /\ x # i /\ x = (IF j < i THEN j ELSE j + 1)
  <2> TAKE j \in 1 .. Len(q) - 1
  <2>1. CASE j < i
    BY <1>0, <2>1
  <2>2. CASE ~(j < i)
    BY <1>0, <2>2
  <2> QED
    BY <2>1, <2>2
<1>3. IsInjective(t)
  <2> SUFFICES ASSUME NEW x \in 1 .. Len(q) - 1, NEW y \in 1 .. Len(q) - 1,
                      t[x] = t[y]
               PROVE  x = y
    BY <1>0 DEF IsInjective
  <2> QED
    BY <1>0, <1>1, <1>2
<1>4. \A k : Contains(t, k) => Contains(q, k) /\ k # q[i]
  BY <1>0, <1>1, <1>2 DEF Contains
<1>5. \A k : Contains(q, k) /\ k # q[i] => Contains(t, k)
  <2> SUFFICES ASSUME NEW k, NEW x \in 1 .. Len(q), q[x] = k, x # i
               PROVE  \E j \in 1 .. Len(q) - 1 : t[j] = k
    BY <1>0 DEF Contains
  <2>1. CASE x < i
    BY <1>0, <2>1
  <2>2. CASE x > i
    <3>1. x - 1 \in i .. Len(q) - 1 /\ x - 1 \in 1 .. Len(q) - 1 /\ x - 1 + 1 = x
      BY <1>0, <2>2
    <3> QED
      BY <1>0, <3>1
  <2>3. x < i \/ x > i
    BY <1>0
  <2> QED
    BY <2>1, <2>2, <2>3
<1> QED
  BY <1>0, <1>3, <1>4, <1>5 DEF t

\* position and remove(idx): a queued key leaves the queue, the others stay.
LEMMA RemovedFirst ==
    ASSUME NEW S, NEW q \in Seq(S), NEW e, Contains(q, e), IsInjective(q)
    PROVE  /\ RemoveFirst(q, e) \in Seq(S) /\ IsInjective(RemoveFirst(q, e))
           /\ \A k : Contains(RemoveFirst(q, e), k) <=> Contains(q, k) /\ k # e
<1> DEFINE I == {i \in 1 .. Len(q) : q[i] = e}
           p == Min(I)
<1>0. Len(q) \in Nat
  BY LenProperties
<1>1. I \in SUBSET Nat /\ I # {}
  BY <1>0 DEF Contains
<1>2. p \in I
  BY <1>1, MinIsLeast
<1>3. RemoveFirst(q, e) = RemoveAt(q, p)
  BY <1>1 DEF RemoveFirst, SelectInSeq, Contains
<1>4. p \in 1 .. Len(q) /\ q[p] = e
  BY <1>2
<1> HIDE DEF p
<1> QED
  BY <1>3, <1>4, RemovedKey

\* A key put at the end of a queue that does not hold it.
LEMMA AppendedKey ==
    ASSUME NEW S, NEW q \in Seq(S), NEW e \in S, ~Contains(q, e), IsInjective(q)
    PROVE  /\ Append(q, e) \in Seq(S) /\ IsInjective(Append(q, e))
           /\ \A k : Contains(Append(q, e), k) <=> Contains(q, k) \/ k = e
<1> DEFINE t == Append(q, e)
<1>0. /\ Len(q) \in Nat /\ DOMAIN q = 1 .. Len(q)
      /\ t \in Seq(S) /\ Len(t) = Len(q) + 1 /\ DOMAIN t = 1 .. Len(q) + 1
      /\ \A i \in 1 .. Len(q) : t[i] = q[i]
      /\ t[Len(q) + 1] = e
  BY AppendProperties, LenProperties
<1>1. \A x, y \in 1 .. Len(q) : q[x] = q[y] => x = y
  BY <1>0 DEF IsInjective
<1>2. \A x \in 1 .. Len(q) : q[x] # e
  BY DEF Contains
<1> HIDE DEF t
<1>3. \A x \in 1 .. Len(q) + 1 : x \in 1 .. Len(q) \/ x = Len(q) + 1
  BY <1>0
<1>4. IsInjective(t)
  <2> SUFFICES ASSUME NEW x \in 1 .. Len(q) + 1, NEW y \in 1 .. Len(q) + 1,
                      t[x] = t[y]
               PROVE  x = y
    BY <1>0 DEF IsInjective
  <2> QED
    BY <1>0, <1>1, <1>2, <1>3
<1>5. \A k : Contains(t, k) <=> Contains(q, k) \/ k = e
  BY <1>0, <1>3 DEF Contains
<1> QED
  BY <1>0, <1>4, <1>5 DEF t

\* An empty queue holds no key.
LEMMA EmptyQueue ==
    ASSUME NEW S
    PROVE  << >> \in Seq(S) /\ IsInjective(<< >>) /\ \A k : ~Contains(<< >>, k)
<1>1. << >> \in Seq(S) /\ Len(<< >>) = 0
  BY EmptySeq
<1>2. DOMAIN << >> = 1 .. 0
  BY <1>1, LenProperties
<1> QED
  BY <1>1, <1>2 DEF IsInjective, Contains

\* pop_runnable_key finds a queued key that may run if there is one.
LEMMA FirstAdmittedFinds ==
    ASSUME NEW S, NEW q \in Seq(S)
    PROVE  /\ FirstAdmitted(q) = 0 => \A k : Contains(q, k) => ~Admitted(k)
           /\ FirstAdmitted(q) # 0 =>
                /\ FirstAdmitted(q) \in 1 .. Len(q)
                /\ Admitted(q[FirstAdmitted(q)])
                /\ Contains(q, q[FirstAdmitted(q)])
<1> DEFINE I == {i \in 1 .. Len(q) : Admitted(q[i])}
<1>0. Len(q) \in Nat
  BY LenProperties
<1>1. FirstAdmitted(q) = IF I # {} THEN Min(I) ELSE 0
  BY DEF FirstAdmitted, SelectInSeq
<1>2. CASE I = {}
  BY <1>1, <1>2 DEF Contains
<1>3. CASE I # {}
  <2>1. I \in SUBSET Nat
    BY <1>0
  <2>2. FirstAdmitted(q) \in I
    BY <1>1, <1>3, <2>1, MinIsLeast
  <2> QED
    BY <1>0, <2>2 DEF Contains
<1> QED
  BY <1>2, <1>3

-----------------------------------------------------------------------------
(* The inductive invariant *)

WaiterList == BoundedSeq(Requests, MaxWaiters) \ {<< >>}
Job == [priority : Priorities, waiters : WaiterList]

Shape ==
    /\ concurrency \in Concurrencies
    /\ IsFiniteSet(DOMAIN jobs)
    /\ DOMAIN jobs \subseteq Keys
    /\ Cardinality(DOMAIN jobs) <= MaxPending
    /\ jobs \in [DOMAIN jobs -> Job]
    /\ high_queue \in Seq(Keys) /\ low_queue \in Seq(Keys)
    /\ active_jobs \in Nat /\ active_videos \in Nat
    /\ bulk_scopes = IF bulk \in {"entering", "inside"} THEN 1 ELSE 0
    /\ worker \in [Threads -> WorkerStates]
    /\ request \in [Requests -> {"new", "notifying", "accepted", "refused"}]
    /\ results \in [Requests -> Nat]
    /\ bulk \in {"idle", "entering", "inside", "leaving"}

(* A job is queued once or rendered by one worker, and nothing else is. *)
InHigh(key) == Contains(high_queue, key)
InLow(key) == Contains(low_queue, key)
Renders(w, key) == worker[w] = Rendering(key)

Places ==
    /\ IsInjective(high_queue) /\ IsInjective(low_queue)
    /\ \A key \in Keys : ~(InHigh(key) /\ InLow(key))
    /\ \A key \in Keys : InHigh(key) \/ InLow(key) => key \in DOMAIN jobs
    /\ \A key \in Keys, w \in Threads :
         Renders(w, key) => key \in DOMAIN jobs /\ ~InHigh(key) /\ ~InLow(key)
    /\ \A key \in DOMAIN jobs :
         InHigh(key) \/ InLow(key) \/ \E w \in Threads : Renders(w, key)
    /\ \A key \in Keys, v, w \in Threads : Renders(v, key) /\ Renders(w, key) => v = w

Renderings == {w \in Threads : worker[w].at = "rendering"}
VideoRenderings == {w \in Threads : \E key \in Videos : worker[w] = Rendering(key)}

Counted ==
    /\ active_jobs = Cardinality(Renderings)
    /\ active_videos = Cardinality(VideoRenderings)

(* The queue a key waits in is that of its job's priority. *)
Sorted ==
    \A key \in DOMAIN jobs :
       /\ InHigh(key) => jobs[key].priority = "High"
       /\ InLow(key) => jobs[key].priority = "Low"

(* A caller waits in one place of one list, from its acceptance to its     *)
(* result.                                                                 *)
HeldByJob(r, key, i) ==
    key \in DOMAIN jobs /\ i \in 1 .. Len(jobs[key].waiters) /\ jobs[key].waiters[i] = r
HeldByWorker(r, w, i) ==
    /\ worker[w].at = "answering"
    /\ i \in 1 .. Len(worker[w].waiters) /\ worker[w].waiters[i] = r

Held(r) ==
    \/ \E key \in Keys, i \in 1 .. MaxWaiters : HeldByJob(r, key, i)
    \/ \E w \in Threads, i \in 1 .. MaxWaiters : HeldByWorker(r, w, i)

HeldOnce(r) ==
    /\ \A k, l \in Keys, i, j \in 1 .. MaxWaiters :
         HeldByJob(r, k, i) /\ HeldByJob(r, l, j) => k = l /\ i = j
    /\ \A v, w \in Threads, i, j \in 1 .. MaxWaiters :
         HeldByWorker(r, v, i) /\ HeldByWorker(r, w, j) => v = w /\ i = j
    /\ \A k \in Keys, w \in Threads, i, j \in 1 .. MaxWaiters :
         ~(HeldByJob(r, k, i) /\ HeldByWorker(r, w, j))

Pending(r) == request[r] \in {"notifying", "accepted"}

Callers ==
    \A r \in Requests :
       /\ HeldOnce(r)
       /\ Held(r) => Pending(r) /\ results[r] = 0
       /\ Pending(r) => results[r] = 1 \/ (Held(r) /\ results[r] = 0)
       /\ ~Pending(r) => results[r] = 0

(* The jobs that could start now are no more than the workers awake and    *)
(* the callers still to notify, unless nobody sleeps or everybody is about *)
(* to be woken.  The three alternatives bound the jobs that could start:   *)
(* by the threads admitted, by the keys queued, and by the images queued   *)
(* and the videos admitted.                                                *)
QueuedIn(kind) == {key \in kind \cap DOMAIN jobs : InHigh(key) \/ InLow(key)}
AwakeThreads == {w \in Threads : worker[w] = Awake}
Notifying == {r \in Requests : request[r] = "notifying"}
Wakeups == Cardinality(AwakeThreads) + Cardinality(Notifying)

Covered ==
    LET images == Cardinality(QueuedIn(Images))
        videos == Cardinality(QueuedIn(Videos))
    IN \/ TotalLimit <= active_jobs + Wakeups
       \/ images + videos <= Wakeups
       \/ (images <= Wakeups /\ images + VideoCap <= Wakeups + active_videos)

Roused == Sleeping = {} \/ bulk \in {"entering", "leaving"} \/ Covered

SchedulerInv == Shape /\ Places /\ Counted /\ Sorted /\ Callers /\ Roused

-----------------------------------------------------------------------------
(* What the parts of the state are *)

\* The four kinds of worker states are told apart by their program point.
LEMMA WorkerKinds ==
    /\ Awake.at = "awake" /\ Waiting.at = "waiting"
    /\ \A key : Rendering(key).at = "rendering" /\ Rendering(key).key = key
    /\ \A list : Answering(list).at = "answering" /\ Answering(list).waiters = list
BY DEF Awake, Waiting, Rendering, Answering

LEMMA WorkerCases ==
    ASSUME NEW s \in WorkerStates
    PROVE  /\ s.at \in {"awake", "waiting", "rendering", "answering"}
           /\ s.at = "awake" => s = Awake
           /\ s.at = "waiting" => s = Waiting
           /\ s.at = "rendering" => \E key \in Keys : s = Rendering(key)
           /\ s.at = "answering" => s.waiters \in WaiterList /\ s = Answering(s.waiters)
<1>1. \/ s = Awake \/ s = Waiting
      \/ \E key \in Keys : s = Rendering(key)
      \/ \E list \in WaiterList : s = Answering(list)
  BY DEF WorkerStates, WaiterList
<1> QED
  BY <1>1, WorkerKinds

LEMMA WorkerStatesHold ==
    /\ Awake \in WorkerStates /\ Waiting \in WorkerStates
    /\ \A key \in Keys : Rendering(key) \in WorkerStates
    /\ \A list \in WaiterList : Answering(list) \in WorkerStates
BY DEF WorkerStates, WaiterList

\* notify_all wakes the sleepers and nobody else notices.
LEMMA NotifyAllWakes ==
    ASSUME NEW f \in [Threads -> WorkerStates]
    PROVE  /\ NotifyAll(f) \in [Threads -> WorkerStates]
           /\ \A w \in Threads :
                /\ f[w].at = "waiting" => NotifyAll(f)[w] = Awake
                /\ f[w].at # "waiting" => NotifyAll(f)[w] = f[w]
BY WorkerStatesHold DEF NotifyAll

LEMMA WaiterListsAre ==
    \A s : s \in WaiterList <=>
             s \in Seq(Requests) /\ Len(s) \in 1 .. MaxWaiters
<1>0. MaxWaiters \in Nat
  BY BoundsAssumption
<1> TAKE s
<1>1. s \in Seq(Requests) => Len(s) \in Nat /\ (Len(s) = 0 <=> s = << >>)
  <2> SUFFICES ASSUME s \in Seq(Requests)
               PROVE  Len(s) \in Nat /\ (Len(s) = 0 <=> s = << >>)
    OBVIOUS
  <2> QED
    BY EmptySeq, LenProperties
<1> QED
  BY <1>0, <1>1, BoundedSeqs DEF WaiterList

\* Limits and threads are natural numbers, and there are finitely many threads.
LEMMA Limits ==
    ASSUME Shape
    PROVE  /\ TotalLimit \in Nat /\ VideoCap \in Nat
           /\ concurrency.browsing \in Nat /\ concurrency.bulk \in Nat
           /\ IsFiniteSet(Threads) /\ IsFiniteSet(Requests)
           /\ bulk_scopes \in Nat
           /\ MaxPending \in Nat /\ MaxWaiters \in Nat \ {0}
<1>1. /\ concurrency.browsing \in Nat /\ concurrency.bulk \in Nat
      /\ NumRequests \in Nat /\ VideoLimit \in Nat
      /\ MaxPending \in Nat /\ MaxWaiters \in Nat \ {0}
  BY ConcurrenciesAssumption, BoundsAssumption DEF Shape
<1>2. bulk_scopes \in Nat
  BY DEF Shape
<1>3. TotalLimit \in Nat /\ VideoCap \in Nat
  BY <1>1 DEF TotalLimit, VideoCap
<1> DEFINE n == IF concurrency.browsing > concurrency.bulk
                THEN concurrency.browsing ELSE concurrency.bulk
<1>4. n \in Nat /\ Threads = 1 .. n
  BY <1>1 DEF Threads
<1> HIDE DEF n
<1>5. IsFiniteSet(Threads)
  BY <1>4, FS_Interval
<1>6. IsFiniteSet(Requests)
  BY <1>1, FS_Interval DEF Requests
<1> QED
  BY <1>1, <1>2, <1>3, <1>5, <1>6

\* The pool is fixed when the scheduler is made.
LEMMA ThreadsStay ==
    ASSUME [Next]_vars
    PROVE  concurrency' = concurrency /\ Threads' = Threads
<1>1. concurrency' = concurrency
  BY DEF Next, vars, Caller, WorkerStep, RefuseJob, RefuseWaiter, Refuse, Join,
         Insert, NotifyOne, TakeHigh, TakeLow, StartJob, Sleep, WakeSpuriously,
         Finish, Answer, EnterBulk, LeaveBulk, NotifyBulk
<1> QED
  BY <1>1 DEF Threads

-----------------------------------------------------------------------------
(* What each step does, in the terms of the invariant *)

(* A worker takes a queued key that may run, from the low queue only if no *)
(* key of the high one may.                                                *)
Takes(w, key) ==
    /\ worker[w] = Awake /\ active_jobs < TotalLimit /\ Admitted(key)
    /\ InHigh(key) \/ (InLow(key) /\ \A k \in Keys : InHigh(k) => ~Admitted(k))
    /\ high_queue' \in Seq(Keys) /\ IsInjective(high_queue')
    /\ low_queue' \in Seq(Keys) /\ IsInjective(low_queue')
    /\ \A k \in Keys : /\ InHigh(k)' <=> InHigh(k) /\ k # key
                       /\ InLow(k)' <=> InLow(k) /\ k # key
    /\ StartJob(w, key)

LEMMA TakeEffect ==
    ASSUME Shape, Places, NEW w \in Threads, TakeHigh(w) \/ TakeLow(w)
    PROVE  \E key \in Keys : Takes(w, key)
<1>0. /\ high_queue \in Seq(Keys) /\ IsInjective(high_queue)
      /\ low_queue \in Seq(Keys) /\ IsInjective(low_queue)
      /\ \A k \in Keys : ~(InHigh(k) /\ InLow(k))
  BY DEF Shape, Places
<1>1. CASE TakeHigh(w)
  <2> DEFINE i == FirstAdmitted(high_queue)
             key == high_queue[i]
  <2>1. /\ worker[w] = Awake /\ active_jobs < TotalLimit /\ i # 0
        /\ high_queue' = RemoveAt(high_queue, i) /\ low_queue' = low_queue
        /\ StartJob(w, key)
    BY <1>1 DEF TakeHigh
  <2>2. i \in 1 .. Len(high_queue) /\ Admitted(key) /\ InHigh(key)
    BY <1>0, <2>1, FirstAdmittedFinds DEF InHigh
  <2>3. key \in Keys
    BY <1>0, <2>2, ElementOfSeq
  <2>4. /\ RemoveAt(high_queue, i) \in Seq(Keys) /\ IsInjective(RemoveAt(high_queue, i))
        /\ \A k : Contains(RemoveAt(high_queue, i), k)
                    <=> Contains(high_queue, k) /\ k # high_queue[i]
    BY <1>0, <2>2, RemovedKey
  <2> HIDE DEF i
  <2>5. \A k \in Keys : InHigh(k)' <=> InHigh(k) /\ k # key
    BY <2>1, <2>4 DEF InHigh
  <2>6. \A k \in Keys : InLow(k)' <=> InLow(k) /\ k # key
    BY <1>0, <2>1, <2>2, <2>3 DEF InLow
  <2>7. Takes(w, key)
    BY <1>0, <2>1, <2>2, <2>4, <2>5, <2>6 DEF Takes
  <2> QED
    BY <2>3, <2>7
<1>2. CASE TakeLow(w)
  <2> DEFINE i == FirstAdmitted(low_queue)
             key == low_queue[i]
  <2>1. /\ worker[w] = Awake /\ active_jobs < TotalLimit /\ i # 0
        /\ low_queue' = RemoveAt(low_queue, i) /\ high_queue' = high_queue
        /\ StartJob(w, key)
    BY <1>2 DEF TakeLow
  <2>2. i \in 1 .. Len(low_queue) /\ Admitted(key) /\ InLow(key)
    BY <1>0, <2>1, FirstAdmittedFinds DEF InLow
  <2>3. key \in Keys
    BY <1>0, <2>2, ElementOfSeq
  <2>4. /\ RemoveAt(low_queue, i) \in Seq(Keys) /\ IsInjective(RemoveAt(low_queue, i))
        /\ \A k : Contains(RemoveAt(low_queue, i), k)
                    <=> Contains(low_queue, k) /\ k # low_queue[i]
    BY <1>0, <2>2, RemovedKey
  <2> HIDE DEF i
  <2>5. \A k \in Keys : InLow(k)' <=> InLow(k) /\ k # key
    BY <2>1, <2>4 DEF InLow
  <2>6. \A k \in Keys : InHigh(k)' <=> InHigh(k) /\ k # key
    BY <1>0, <2>1, <2>2, <2>3 DEF InHigh
  <2>7. \A k \in Keys : InHigh(k) => ~Admitted(k)
    <3>1. FirstAdmitted(high_queue) = 0
      BY <1>2 DEF TakeLow
    <3> QED
      BY <1>0, <3>1, FirstAdmittedFinds DEF InHigh
  <2>8. Takes(w, key)
    BY <1>0, <2>1, <2>2, <2>4, <2>5, <2>6, <2>7 DEF Takes
  <2> QED
    BY <2>3, <2>8
<1> QED
  BY <1>1, <1>2

(* A caller is let in: its key is queued now, or moved up, or stays where  *)
(* it is, and the caller is last in the job's list.                        *)
Raised(key, priority) == Promotes(key, priority) /\ InLow(key)
Accepts(r, key, priority) ==
    /\ request[r] = "new"
    /\ DOMAIN jobs' = DOMAIN jobs \cup {key}
    /\ jobs' = [k \in DOMAIN jobs' |-> jobs'[k]]
    /\ \A k \in DOMAIN jobs : k # key => jobs'[k] = jobs[k]
    /\ jobs'[key] \in Job
    /\ high_queue' \in Seq(Keys) /\ IsInjective(high_queue')
    /\ low_queue' \in Seq(Keys) /\ IsInjective(low_queue')
    /\ UNCHANGED <<concurrency, counters, worker, results, bulk>>

JoinsJob(r, key, priority) ==
    /\ Accepts(r, key, priority)
    /\ key \in DOMAIN jobs /\ Len(jobs[key].waiters) < MaxWaiters
    /\ jobs'[key].waiters = Append(jobs[key].waiters, r)
    /\ jobs'[key].priority =
         IF Promotes(key, priority) THEN "High" ELSE jobs[key].priority
    /\ \A k \in Keys :
         /\ InHigh(k)' <=> InHigh(k) \/ (k = key /\ Raised(key, priority))
         /\ InLow(k)' <=> InLow(k) /\ ~(k = key /\ Raised(key, priority))
    /\ request' = [request EXCEPT ![r] = "accepted"]

MakesJob(r, key, priority) ==
    /\ Accepts(r, key, priority)
    /\ key \notin DOMAIN jobs /\ Cardinality(DOMAIN jobs) < MaxPending
    /\ jobs'[key] = [priority |-> priority, waiters |-> <<r>>]
    /\ \A k \in Keys :
         /\ InHigh(k)' <=> InHigh(k) \/ (k = key /\ priority = "High")
         /\ InLow(k)' <=> InLow(k) \/ (k = key /\ priority = "Low")
    /\ request' = [request EXCEPT ![r] = "notifying"]

LEMMA JoinEffect ==
    ASSUME Shape, Places, NEW r \in Requests, NEW key \in Keys,
           NEW priority \in Priorities, Join(r, key, priority)
    PROVE  JoinsJob(r, key, priority)
<1>0. /\ high_queue \in Seq(Keys) /\ IsInjective(high_queue)
      /\ low_queue \in Seq(Keys) /\ IsInjective(low_queue)
      /\ \A k \in Keys : ~(InHigh(k) /\ InLow(k))
      /\ jobs \in [DOMAIN jobs -> Job]
  BY DEF Shape, Places
<1>1. /\ request[r] = "new" /\ key \in DOMAIN jobs
      /\ Len(jobs[key].waiters) < MaxWaiters
      /\ UNCHANGED <<concurrency, counters, worker, results, bulk>>
      /\ request' = [request EXCEPT ![r] = "accepted"]
  BY DEF Join, IsNext
<1>2. jobs' = [jobs EXCEPT
                 ![key].priority = IF Promotes(key, priority) THEN "High" ELSE @,
                 ![key].waiters = Append(@, r)]
  BY DEF Join
<1>3. /\ jobs[key] \in Job /\ jobs[key].waiters \in WaiterList
      /\ jobs[key].priority \in Priorities
  BY <1>0, <1>1 DEF Job
<1>4. Append(jobs[key].waiters, r) \in WaiterList
  <2>1. /\ jobs[key].waiters \in Seq(Requests)
        /\ Len(jobs[key].waiters) \in Nat
        /\ MaxWaiters \in Nat
    BY <1>3, WaiterListsAre, BoundsAssumption
  <2>2. /\ Append(jobs[key].waiters, r) \in Seq(Requests)
        /\ Len(Append(jobs[key].waiters, r)) = Len(jobs[key].waiters) + 1
    BY <2>1, AppendProperties
  <2>3. Len(Append(jobs[key].waiters, r)) \in 1 .. MaxWaiters
    BY <1>1, <2>1, <2>2
  <2> QED
    BY <2>2, <2>3, WaiterListsAre
<1>5. /\ DOMAIN jobs' = DOMAIN jobs \cup {key}
      /\ jobs' = [k \in DOMAIN jobs' |-> jobs'[k]]
      /\ \A k \in DOMAIN jobs : k # key => jobs'[k] = jobs[k]
  BY <1>0, <1>1, <1>2
<1>6. /\ jobs'[key] \in Job
      /\ jobs'[key].waiters = Append(jobs[key].waiters, r)
      /\ jobs'[key].priority =
           IF Promotes(key, priority) THEN "High" ELSE jobs[key].priority
  <2> DEFINE high == IF Promotes(key, priority) THEN "High" ELSE jobs[key].priority
             list == Append(jobs[key].waiters, r)
             first == [jobs EXCEPT ![key].priority = high]
  <2>1. high \in Priorities
    BY <1>3 DEF Priorities
  <2>2. first[key] = [jobs[key] EXCEPT !.priority = high] /\ key \in DOMAIN first
    BY <1>0, <1>1
  <2>3. first[key] \in Job /\ first[key].priority = high
        /\ first[key].waiters = jobs[key].waiters
    BY <1>3, <2>1, <2>2 DEF Job
  <2>4. jobs' = [first EXCEPT ![key].waiters = list]
    BY <1>0, <1>1, <1>2, <1>3
  <2> HIDE DEF first, high
  <2>5. jobs'[key] = [first[key] EXCEPT !.waiters = list]
    BY <2>2, <2>4
  <2>6. jobs'[key] \in Job /\ jobs'[key].waiters = list /\ jobs'[key].priority = high
    BY <1>4, <2>3, <2>5 DEF Job
  <2> QED
    BY <2>6 DEF high
<1>7. /\ high_queue' \in Seq(Keys) /\ IsInjective(high_queue')
      /\ low_queue' \in Seq(Keys) /\ IsInjective(low_queue')
      /\ \A k \in Keys :
           /\ InHigh(k)' <=> InHigh(k) \/ (k = key /\ Raised(key, priority))
           /\ InLow(k)' <=> InLow(k) /\ ~(k = key /\ Raised(key, priority))
  <2>1. CASE Raised(key, priority)
    <3>1. /\ low_queue' = RemoveFirst(low_queue, key)
          /\ high_queue' = Append(high_queue, key)
          /\ Contains(low_queue, key) /\ ~Contains(high_queue, key)
      BY <1>0, <2>1 DEF Join, Raised, InLow, InHigh
    <3>2. /\ low_queue' \in Seq(Keys) /\ IsInjective(low_queue')
          /\ \A k : Contains(low_queue', k) <=> Contains(low_queue, k) /\ k # key
      BY <1>0, <3>1, RemovedFirst
    <3>3. /\ high_queue' \in Seq(Keys) /\ IsInjective(high_queue')
          /\ \A k : Contains(high_queue', k) <=> Contains(high_queue, k) \/ k = key
      BY <1>0, <3>1, AppendedKey
    <3> QED
      BY <2>1, <3>2, <3>3 DEF InLow, InHigh
  <2>2. CASE ~Raised(key, priority)
    <3>1. high_queue' = high_queue /\ low_queue' = low_queue
      BY <2>2 DEF Join, Raised, InLow, queues
    <3> QED
      BY <1>0, <2>2, <3>1 DEF InLow, InHigh
  <2> QED
    BY <2>1, <2>2
<1> QED
  BY <1>1, <1>5, <1>6, <1>7 DEF JoinsJob, Accepts

LEMMA InsertEffect ==
    ASSUME Shape, Places, NEW r \in Requests, NEW key \in Keys,
           NEW priority \in Priorities, Insert(r, key, priority)
    PROVE  MakesJob(r, key, priority)
<1>0. /\ high_queue \in Seq(Keys) /\ IsInjective(high_queue)
      /\ low_queue \in Seq(Keys) /\ IsInjective(low_queue)
      /\ key \notin DOMAIN jobs => ~Contains(high_queue, key) /\ ~Contains(low_queue, key)
  BY DEF Shape, Places, InHigh, InLow
<1>1. /\ request[r] = "new" /\ key \notin DOMAIN jobs
      /\ Cardinality(DOMAIN jobs) < MaxPending
      /\ UNCHANGED <<concurrency, counters, worker, results, bulk>>
      /\ request' = [request EXCEPT ![r] = "notifying"]
  BY DEF Insert, IsNext
<1>2. /\ DOMAIN jobs' = DOMAIN jobs \cup {key}
      /\ jobs' = [k \in DOMAIN jobs' |-> jobs'[k]]
      /\ \A k \in DOMAIN jobs : k # key => jobs'[k] = jobs[k]
      /\ jobs'[key] = [priority |-> priority, waiters |-> <<r>>]
  BY DEF Insert
<1>3. <<r>> \in WaiterList
  <2>1. <<r>> \in Seq(Requests) /\ Len(<<r>>) = 1
    OBVIOUS
  <2>2. 1 \in 1 .. MaxWaiters
    BY BoundsAssumption
  <2> QED
    BY <2>1, <2>2, WaiterListsAre
<1>4. jobs'[key] \in Job
  BY <1>2, <1>3 DEF Job
<1>5. /\ high_queue' \in Seq(Keys) /\ IsInjective(high_queue')
      /\ low_queue' \in Seq(Keys) /\ IsInjective(low_queue')
      /\ \A k \in Keys :
           /\ InHigh(k)' <=> InHigh(k) \/ (k = key /\ priority = "High")
           /\ InLow(k)' <=> InLow(k) \/ (k = key /\ priority = "Low")
  <2>1. CASE priority = "High"
    <3>1. high_queue' = Append(high_queue, key) /\ low_queue' = low_queue
      BY <2>1 DEF Insert
    <3>2. /\ high_queue' \in Seq(Keys) /\ IsInjective(high_queue')
          /\ \A k : Contains(high_queue', k) <=> Contains(high_queue, k) \/ k = key
      BY <1>0, <1>1, <3>1, AppendedKey
    <3> QED
      BY <1>0, <2>1, <3>1, <3>2 DEF InLow, InHigh
  <2>2. CASE priority = "Low"
    <3>1. low_queue' = Append(low_queue, key) /\ high_queue' = high_queue
      BY <2>2 DEF Insert
    <3>2. /\ low_queue' \in Seq(Keys) /\ IsInjective(low_queue')
          /\ \A k : Contains(low_queue', k) <=> Contains(low_queue, k) \/ k = key
      BY <1>0, <1>1, <3>1, AppendedKey
    <3> QED
      BY <1>0, <2>2, <3>1, <3>2 DEF InLow, InHigh
  <2> QED
    BY <2>1, <2>2 DEF Priorities
<1> QED
  BY <1>1, <1>2, <1>4, <1>5 DEF MakesJob, Accepts

(* The kinds of steps. *)
Refuses(r) == request[r] = "new" /\ Refuse(r)

LEMMA StepKinds ==
    ASSUME Shape, Places, [Next]_vars
    PROVE  \/ \E r \in Requests : Refuses(r)
           \/ \E r \in Requests, key \in Keys, priority \in Priorities :
                JoinsJob(r, key, priority)
           \/ \E r \in Requests, key \in Keys, priority \in Priorities :
                MakesJob(r, key, priority)
           \/ \E r \in Requests : NotifyOne(r)
           \/ \E w \in Threads, key \in Keys : Takes(w, key)
           \/ \E w \in Threads : Sleep(w)
           \/ \E w \in Threads : Answer(w)
           \/ \E w \in Threads : WakeSpuriously(w)
           \/ \E w \in Threads, key \in Keys : Finish(w, key)
           \/ EnterBulk \/ LeaveBulk \/ NotifyBulk \/ UNCHANGED vars
<1>1. ASSUME NEW r \in Requests, Caller(r)
      PROVE  \/ Refuses(r)
             \/ \E key \in Keys, priority \in Priorities : JoinsJob(r, key, priority)
             \/ \E key \in Keys, priority \in Priorities : MakesJob(r, key, priority)
             \/ NotifyOne(r)
  <2>1. ASSUME NEW key \in Keys, RefuseJob(r, key) \/ RefuseWaiter(r, key)
        PROVE  Refuses(r)
    BY <2>1 DEF RefuseJob, RefuseWaiter, IsNext, Refuses
  <2> QED
    BY <1>1, <2>1, JoinEffect, InsertEffect DEF Caller
<1>2. ASSUME NEW w \in Threads, WorkerStep(w)
      PROVE  \/ \E key \in Keys : Takes(w, key)
             \/ Sleep(w) \/ Answer(w) \/ \E key \in Keys : Finish(w, key)
  BY <1>2, TakeEffect DEF WorkerStep
<1>3. CASE UNCHANGED vars
  BY <1>3
<1>4. CASE Next
  BY <1>1, <1>2, <1>4 DEF Next
<1> QED
  BY <1>3, <1>4

(* Most steps do no more to the workers than wake some. *)
Wakes ==
    \A w \in Threads :
       worker'[w] = worker[w] \/ (worker[w] = Waiting /\ worker'[w] = Awake)

LEMMA WakingSteps ==
    ASSUME Shape
    PROVE  /\ \A r \in Requests : Refuses(r) => Wakes
           /\ \A r \in Requests, key \in Keys, priority \in Priorities :
                JoinsJob(r, key, priority) \/ MakesJob(r, key, priority) => Wakes
           /\ \A r \in Requests : NotifyOne(r) => Wakes
           /\ \A w \in Threads : WakeSpuriously(w) => Wakes
           /\ EnterBulk \/ LeaveBulk \/ NotifyBulk \/ UNCHANGED vars => Wakes
<1>0. worker \in [Threads -> WorkerStates]
  BY DEF Shape
<1>1. \A r \in Requests : Refuses(r) => Wakes
  BY DEF Refuses, Refuse, Wakes
<1>2. \A r \in Requests, key \in Keys, priority \in Priorities :
         JoinsJob(r, key, priority) \/ MakesJob(r, key, priority) => Wakes
  BY DEF JoinsJob, MakesJob, Accepts, Wakes
<1>3. ASSUME NEW r \in Requests, NotifyOne(r)
      PROVE  Wakes
  <2>1. CASE Sleeping = {}
    BY <1>3, <2>1 DEF NotifyOne, Wakes
  <2>2. CASE Sleeping # {}
    <3>1. PICK v \in Sleeping : worker' = [worker EXCEPT ![v] = Awake]
      BY <1>3, <2>2 DEF NotifyOne
    <3>2. v \in Threads /\ worker[v] = Waiting
      BY <1>0, <3>1, WorkerCases DEF Sleeping
    <3> QED
      BY <1>0, <3>1, <3>2 DEF Wakes
  <2> QED
    BY <2>1, <2>2
<1>4. \A w \in Threads : WakeSpuriously(w) => Wakes
  BY <1>0 DEF WakeSpuriously, Wakes
<1>5. NotifyBulk => Wakes
  <2> SUFFICES ASSUME worker' = NotifyAll(worker), NEW w \in Threads
               PROVE  worker'[w] = worker[w] \/ (worker[w] = Waiting /\ worker'[w] = Awake)
    BY DEF NotifyBulk, Wakes
  <2>1. worker[w].at = "waiting" => worker[w] = Waiting
    BY <1>0, WorkerCases
  <2> QED
    BY <1>0, <2>1, NotifyAllWakes
<1>6. EnterBulk \/ LeaveBulk \/ UNCHANGED vars => Wakes
  BY DEF EnterBulk, LeaveBulk, vars, Wakes
<1> QED
  BY <1>1, <1>2, <1>3, <1>4, <1>5, <1>6

(* What a step leaves alone. *)
SameRenders ==
    \A w \in Threads, key \in Keys : Renders(w, key)' <=> Renders(w, key)
SameAnswers ==
    \A w \in Threads :
       /\ worker'[w].at = "answering" <=> worker[w].at = "answering"
       /\ worker[w].at = "answering" => worker'[w] = worker[w]

LEMMA WakesChangeLittle ==
    ASSUME Wakes
    PROVE  SameRenders /\ SameAnswers
BY WorkerKinds DEF Wakes, SameRenders, SameAnswers, Renders

LEMMA SleepChangesLittle ==
    ASSUME Shape, NEW w \in Threads, Sleep(w)
    PROVE  SameRenders /\ SameAnswers
<1>0. worker \in [Threads -> WorkerStates]
  BY DEF Shape
<1>1. \A v \in Threads : worker'[v] = worker[v] \/ (worker[v] = Awake /\ worker'[v] = Waiting)
  BY <1>0 DEF Sleep
<1> QED
  BY <1>1, WorkerKinds DEF SameRenders, SameAnswers, Renders

\* The workers' states stay worker states.
LEMMA WorkersTyped ==
    ASSUME Shape, Places, [Next]_vars
    PROVE  worker' \in [Threads -> WorkerStates]
<1>0. worker \in [Threads -> WorkerStates]
  BY DEF Shape
<1>1. ASSUME NEW w \in Threads, NEW s \in WorkerStates,
             worker' = [worker EXCEPT ![w] = s]
      PROVE  worker' \in [Threads -> WorkerStates]
  BY <1>0, <1>1
<1>2. CASE worker' = worker
  BY <1>0, <1>2
<1>3. ASSUME NEW r \in Requests, NotifyOne(r)
      PROVE  worker' \in [Threads -> WorkerStates]
  <2>1. CASE Sleeping = {}
    BY <1>0, <1>3, <2>1 DEF NotifyOne
  <2>2. CASE Sleeping # {}
    <3>1. PICK v \in Sleeping : worker' = [worker EXCEPT ![v] = Awake]
      BY <1>3, <2>2 DEF NotifyOne
    <3> QED
      BY <1>1, <3>1, WorkerStatesHold DEF Sleeping
  <2> QED
    BY <2>1, <2>2
<1>4. ASSUME NEW w \in Threads, NEW key \in Keys, Takes(w, key)
      PROVE  worker' \in [Threads -> WorkerStates]
  BY <1>1, <1>4, WorkerStatesHold DEF Takes, StartJob
<1>5. ASSUME NEW w \in Threads, Sleep(w) \/ WakeSpuriously(w)
      PROVE  worker' \in [Threads -> WorkerStates]
  BY <1>1, <1>5, WorkerStatesHold DEF Sleep, WakeSpuriously
<1>6. ASSUME NEW w \in Threads, NEW key \in Keys, Finish(w, key)
      PROVE  worker' \in [Threads -> WorkerStates]
  <2>1. key \in DOMAIN jobs
    BY <1>6 DEF Finish, Places, Renders
  <2>2. jobs[key].waiters \in WaiterList
    BY <2>1 DEF Shape, Job
  <2> DEFINE f == [worker EXCEPT ![w] = Answering(jobs[key].waiters)]
  <2>3. f \in [Threads -> WorkerStates]
    BY <1>0, <2>2, WorkerStatesHold
  <2>4. worker' = NotifyAll(f)
    BY <1>6 DEF Finish
  <2> HIDE DEF f
  <2> QED
    BY <2>3, <2>4, NotifyAllWakes
<1>7. ASSUME NEW w \in Threads, Answer(w)
      PROVE  worker' \in [Threads -> WorkerStates]
  <2> DEFINE list == worker[w].waiters
  <2>1. list \in WaiterList
    BY <1>0, <1>7, WorkerCases DEF Answer
  <2>2. worker' = [worker EXCEPT ![w] = IF Len(list) = 1 THEN Awake
                                        ELSE Answering(Tail(list))]
    BY <1>7 DEF Answer
  <2> HIDE DEF list
  <2>3. CASE Len(list) = 1
    BY <1>1, <2>2, <2>3, WorkerStatesHold
  <2>4. CASE Len(list) # 1
    <3>1. list \in Seq(Requests) /\ Len(list) \in 1 .. MaxWaiters /\ MaxWaiters \in Nat
      BY <2>1, WaiterListsAre, BoundsAssumption
    <3>2. list # << >>
      BY <2>1 DEF WaiterList
    <3>3. Tail(list) \in Seq(Requests) /\ Len(Tail(list)) = Len(list) - 1
      BY <3>1, <3>2, HeadTailProperties
    <3>4. Len(Tail(list)) \in 1 .. MaxWaiters
      BY <2>4, <3>1, <3>3
    <3>5. Tail(list) \in WaiterList
      BY <3>3, <3>4, WaiterListsAre
    <3>6. worker' = [worker EXCEPT ![w] = Answering(Tail(list))]
      BY <2>2, <2>4
    <3> QED
      BY <1>1, <3>5, <3>6, WorkerStatesHold
  <2> QED
    BY <2>3, <2>4
<1>8. CASE NotifyBulk
  BY <1>0, <1>8, NotifyAllWakes DEF NotifyBulk
<1>9. CASE EnterBulk \/ LeaveBulk \/ UNCHANGED vars
  BY <1>2, <1>9 DEF EnterBulk, LeaveBulk, vars
<1>10. ASSUME NEW r \in Requests, Refuses(r)
       PROVE  worker' \in [Threads -> WorkerStates]
  BY <1>2, <1>10 DEF Refuses, Refuse
<1>11. ASSUME NEW r \in Requests, NEW key \in Keys, NEW priority \in Priorities,
              JoinsJob(r, key, priority) \/ MakesJob(r, key, priority)
       PROVE  worker' \in [Threads -> WorkerStates]
  BY <1>2, <1>11 DEF JoinsJob, MakesJob, Accepts
<1> QED
  BY <1>3, <1>4, <1>5, <1>6, <1>7, <1>8, <1>9, <1>10, <1>11, StepKinds

\* The end of a render: the job's waiters move to the worker, nobody sleeps.
LEMMA FinishEffect ==
    ASSUME Shape, Places, NEW w \in Threads, NEW key \in Keys, Finish(w, key)
    PROVE  /\ worker[w] = Rendering(key) /\ key \in DOMAIN jobs
           /\ DOMAIN jobs' = DOMAIN jobs \ {key}
           /\ \A k \in DOMAIN jobs : k # key => jobs'[k] = jobs[k]
           /\ worker'[w] = Answering(jobs[key].waiters)
           /\ \A v \in Threads : v # w =>
                /\ worker[v].at = "waiting" => worker'[v] = Awake
                /\ worker[v].at # "waiting" => worker'[v] = worker[v]
<1>0. worker \in [Threads -> WorkerStates]
  BY DEF Shape
<1>1. worker[w] = Rendering(key) /\ key \in DOMAIN jobs
  BY DEF Finish, Places, Renders
<1>2. /\ DOMAIN jobs' = DOMAIN jobs \ {key}
      /\ \A k \in DOMAIN jobs : k # key => jobs'[k] = jobs[k]
  BY DEF Finish
<1>3. jobs[key].waiters \in WaiterList
  BY <1>1 DEF Shape, Job
<1> DEFINE f == [worker EXCEPT ![w] = Answering(jobs[key].waiters)]
<1>4. /\ f \in [Threads -> WorkerStates]
      /\ f[w] = Answering(jobs[key].waiters)
      /\ \A v \in Threads : v # w => f[v] = worker[v]
  BY <1>0, <1>3, WorkerStatesHold
<1>5. worker' = NotifyAll(f)
  BY DEF Finish
<1> HIDE DEF f
<1>6. /\ f[w].at # "waiting" => worker'[w] = f[w]
      /\ \A v \in Threads : /\ f[v].at = "waiting" => worker'[v] = Awake
                            /\ f[v].at # "waiting" => worker'[v] = f[v]
  BY <1>4, <1>5, NotifyAllWakes
<1>7. worker'[w] = Answering(jobs[key].waiters)
  BY <1>4, <1>6, WorkerKinds
<1> QED
  BY <1>1, <1>2, <1>4, <1>6, <1>7

\* One send: the first waiter leaves the worker's list.
LEMMA AnswerEffect ==
    ASSUME Shape, NEW w \in Threads, Answer(w)
    PROVE  /\ worker[w].at = "answering" /\ worker[w].waiters \in WaiterList
           /\ Len(worker[w].waiters) = 1 => worker'[w] = Awake
           /\ Len(worker[w].waiters) # 1 => worker'[w] = Answering(Tail(worker[w].waiters))
           /\ \A v \in Threads : v # w => worker'[v] = worker[v]
           /\ SameRenders
<1> DEFINE list == worker[w].waiters
           next == IF Len(list) = 1 THEN Awake ELSE Answering(Tail(list))
<1>0. worker \in [Threads -> WorkerStates]
  BY DEF Shape
<1>1. worker[w].at = "answering" /\ list \in WaiterList
  BY <1>0, WorkerCases DEF Answer
<1>2. worker' = [worker EXCEPT ![w] = next]
  BY DEF Answer
<1>3. worker'[w] = next /\ \A v \in Threads : v # w => worker'[v] = worker[v]
  BY <1>0, <1>2
<1>4. next.at # "rendering" /\ worker[w].at # "rendering"
  BY <1>1, WorkerKinds
<1> HIDE DEF next
<1>5. SameRenders
  BY <1>3, <1>4, WorkerKinds DEF SameRenders, Renders
<1> QED
  BY <1>1, <1>3, <1>5 DEF next

-----------------------------------------------------------------------------
(* The counters *)

\* The workers that render are those that render some key.
LEMMA RenderingKeys ==
    ASSUME NEW f \in [Threads -> WorkerStates]
    PROVE  {w \in Threads : f[w].at = "rendering"}
             = {w \in Threads : \E key \in Keys : f[w] = Rendering(key)}
<1>1. \A w \in Threads :
         f[w].at = "rendering" <=> \E key \in Keys : f[w] = Rendering(key)
  BY WorkerCases, WorkerKinds
<1> QED
  BY <1>1

LEMMA SameRendersSameCount ==
    ASSUME Shape, Counted, SameRenders, worker' \in [Threads -> WorkerStates],
           Threads' = Threads, UNCHANGED <<active_jobs, active_videos>>
    PROVE  Counted'
<1>1. Renderings = {w \in Threads : \E key \in Keys : Renders(w, key)}
  BY RenderingKeys DEF Renderings, Shape, Renders
<1>2. Renderings' = {w \in Threads : \E key \in Keys : worker'[w] = Rendering(key)}
  <2>1. Renderings' = {w \in Threads : worker'[w].at = "rendering"}
    BY DEF Renderings
  <2> QED
    BY <2>1, RenderingKeys
<1>3. Renderings' = Renderings
  BY <1>1, <1>2 DEF SameRenders, Renders
<1>4. VideoRenderings' = VideoRenderings
  BY DEF VideoRenderings, SameRenders, Renders, Keys
<1> QED
  BY <1>3, <1>4 DEF Counted

LEMMA CountedNext ==
    ASSUME Shape, Places, Counted, [Next]_vars
    PROVE  Counted' /\ active_jobs' \in Nat /\ active_videos' \in Nat
<1>0. /\ worker \in [Threads -> WorkerStates]
      /\ worker' \in [Threads -> WorkerStates]
      /\ Threads' = Threads /\ IsFiniteSet(Threads)
  BY ThreadsStay, WorkersTyped, Limits DEF Shape
<1>1. IsFiniteSet(Renderings) /\ IsFiniteSet(VideoRenderings)
  BY <1>0, FS_Subset DEF Renderings, VideoRenderings
<1>2. Cardinality(Renderings) \in Nat /\ Cardinality(VideoRenderings) \in Nat
  BY <1>1, FS_CardinalityType
<1>3. Renderings' = {w \in Threads : worker'[w].at = "rendering"}
  BY <1>0 DEF Renderings
<1>4. VideoRenderings' =
        {w \in Threads : \E key \in Videos : worker'[w] = Rendering(key)}
  BY <1>0 DEF VideoRenderings
<1>5. CASE Wakes /\ UNCHANGED <<active_jobs, active_videos>>
  BY <1>0, <1>2, <1>5, WakesChangeLittle, SameRendersSameCount DEF Counted
<1>6. ASSUME NEW w \in Threads, NEW key \in Keys, Takes(w, key)
      PROVE  Counted' /\ active_jobs' \in Nat /\ active_videos' \in Nat
  <2>1. /\ worker[w] = Awake /\ worker'[w] = Rendering(key)
        /\ \A v \in Threads : v # w => worker'[v] = worker[v]
        /\ active_jobs' = active_jobs + 1
        /\ active_videos' = active_videos + (IF key \in Videos THEN 1 ELSE 0)
    BY <1>0, <1>6 DEF Takes, StartJob
  <2>2. w \notin Renderings /\ w \notin VideoRenderings
    BY <2>1, WorkerKinds DEF Renderings, VideoRenderings
  <2>3. Renderings' = Renderings \cup {w}
    BY <1>3, <2>1, WorkerKinds DEF Renderings
  <2>4. Cardinality(Renderings \cup {w}) = Cardinality(Renderings) + 1
    BY <1>1, <2>2, FS_AddElement
  <2>5. CASE key \in Videos
    <3>1. VideoRenderings' = VideoRenderings \cup {w}
      BY <1>4, <2>1, <2>5 DEF VideoRenderings
    <3>2. Cardinality(VideoRenderings \cup {w}) = Cardinality(VideoRenderings) + 1
      BY <1>1, <2>2, FS_AddElement
    <3> QED
      BY <1>2, <2>1, <2>3, <2>4, <2>5, <3>1, <3>2 DEF Counted
  <2>6. CASE key \notin Videos
    <3>1. \A k \in Videos : Rendering(key) # Rendering(k)
      BY <2>6, WorkerKinds
    <3>2. VideoRenderings' = VideoRenderings
      BY <1>4, <2>1, <2>2, <3>1 DEF VideoRenderings
    <3> QED
      BY <1>2, <2>1, <2>3, <2>4, <2>6, <3>2 DEF Counted
  <2> QED
    BY <2>5, <2>6
<1>7. ASSUME NEW w \in Threads, NEW key \in Keys, Finish(w, key)
      PROVE  Counted' /\ active_jobs' \in Nat /\ active_videos' \in Nat
  <2>1. /\ worker[w] = Rendering(key) /\ worker'[w].at = "answering"
        /\ \A v \in Threads : v # w =>
             /\ worker[v].at = "waiting" => worker'[v] = Awake
             /\ worker[v].at # "waiting" => worker'[v] = worker[v]
    <3>1. worker[w] = Rendering(key) /\ worker'[w] = Answering(jobs[key].waiters)
      BY <1>7, FinishEffect
    <3>2. \A v \in Threads : v # w =>
            /\ worker[v].at = "waiting" => worker'[v] = Awake
            /\ worker[v].at # "waiting" => worker'[v] = worker[v]
      BY <1>7, FinishEffect
    <3> QED
      BY <3>1, <3>2, WorkerKinds
  <2>0. /\ active_jobs' = active_jobs - 1
        /\ active_videos' =
             active_videos - (IF key \in Videos /\ active_videos > 0 THEN 1 ELSE 0)
    BY <1>7 DEF Finish
  <2>2. w \in Renderings /\ (key \in Videos <=> w \in VideoRenderings)
    BY <2>1, WorkerKinds DEF Renderings, VideoRenderings
  <2>3. Renderings' = Renderings \ {w}
    BY <1>3, <2>1, WorkerKinds DEF Renderings
  <2>4. VideoRenderings' = VideoRenderings \ {w}
    BY <1>4, <2>1, WorkerKinds DEF VideoRenderings
  <2>5. /\ Cardinality(Renderings \ {w}) = Cardinality(Renderings) - 1
        /\ Cardinality(Renderings \ {w}) \in Nat
    <3>1. IsFiniteSet(Renderings \ {w})
      BY <1>1, FS_RemoveElement
    <3> QED
      BY <1>1, <2>2, <3>1, FS_RemoveElement, FS_CardinalityType
  <2>6. CASE key \in Videos
    <3>1. /\ Cardinality(VideoRenderings \ {w}) = Cardinality(VideoRenderings) - 1
          /\ Cardinality(VideoRenderings \ {w}) \in Nat
      <4>1. IsFiniteSet(VideoRenderings \ {w})
        BY <1>1, FS_RemoveElement
      <4> QED
        BY <1>1, <2>2, <2>6, <4>1, FS_RemoveElement, FS_CardinalityType
    <3>2. active_videos > 0
      BY <1>2, <3>1 DEF Counted
    <3> QED
      BY <1>2, <2>0, <2>3, <2>4, <2>5, <2>6, <3>1, <3>2 DEF Counted
  <2>7. CASE key \notin Videos
    <3>1. VideoRenderings' = VideoRenderings
      BY <2>2, <2>4, <2>7
    <3> QED
      BY <1>2, <2>0, <2>3, <2>5, <2>7, <3>1 DEF Counted
  <2> QED
    BY <2>6, <2>7
<1>8. ASSUME NEW w \in Threads, Sleep(w) \/ Answer(w)
      PROVE  Counted' /\ active_jobs' \in Nat /\ active_videos' \in Nat
  <2>1. SameRenders
    BY <1>8, SleepChangesLittle, AnswerEffect
  <2>2. UNCHANGED <<active_jobs, active_videos>>
    BY <1>8 DEF Sleep, Answer, counters
  <2> QED
    BY <1>0, <1>2, <2>1, <2>2, SameRendersSameCount DEF Counted
<1>9. \A r \in Requests, key \in Keys, priority \in Priorities :
         JoinsJob(r, key, priority) \/ MakesJob(r, key, priority)
           => UNCHANGED <<active_jobs, active_videos>>
  BY DEF JoinsJob, MakesJob, Accepts, counters
<1>10. /\ \A r \in Requests : Refuses(r) \/ NotifyOne(r)
             => UNCHANGED <<active_jobs, active_videos>>
       /\ \A w \in Threads : WakeSpuriously(w) => UNCHANGED <<active_jobs, active_videos>>
       /\ EnterBulk \/ LeaveBulk \/ NotifyBulk \/ UNCHANGED vars
             => UNCHANGED <<active_jobs, active_videos>>
  BY DEF Refuses, Refuse, NotifyOne, WakeSpuriously, EnterBulk, LeaveBulk,
         NotifyBulk, vars, counters
<1> QED
  BY <1>5, <1>6, <1>7, <1>8, <1>9, <1>10, StepKinds, WakingSteps

-----------------------------------------------------------------------------
(* Types and bounds *)

LEMMA ShapeNext ==
    ASSUME Shape, Places, Counted, [Next]_vars
    PROVE  Shape'
<1>0. /\ concurrency' \in Concurrencies
      /\ worker' \in [Threads -> WorkerStates] /\ Threads' = Threads
      /\ active_jobs' \in Nat /\ active_videos' \in Nat
  BY ThreadsStay, WorkersTyped, CountedNext DEF Shape
<1> DEFINE JobsOK ==
             /\ IsFiniteSet(DOMAIN jobs')
             /\ DOMAIN jobs' \subseteq Keys
             /\ Cardinality(DOMAIN jobs') <= MaxPending
             /\ jobs' \in [DOMAIN jobs' -> Job]
           QueuesOK == high_queue' \in Seq(Keys) /\ low_queue' \in Seq(Keys)
           BulkOK == /\ bulk_scopes' = IF bulk' \in {"entering", "inside"} THEN 1 ELSE 0
                     /\ bulk' \in {"idle", "entering", "inside", "leaving"}
           CallersOK ==
             /\ request' \in [Requests -> {"new", "notifying", "accepted", "refused"}]
             /\ results' \in [Requests -> Nat]
<1>1. JobsOK /\ QueuesOK /\ BulkOK /\ CallersOK => Shape'
  BY <1>0 DEF Shape
<1>2. UNCHANGED jobs => JobsOK
  BY DEF Shape
<1>3. UNCHANGED queues => QueuesOK
  BY DEF Shape, queues
<1>4. UNCHANGED <<bulk_scopes, bulk>> => BulkOK
  BY DEF Shape
<1>5. UNCHANGED results /\ (UNCHANGED request \/ \E r \in Requests :
          \E s \in {"notifying", "accepted", "refused"} : request' = [request EXCEPT ![r] = s])
        => CallersOK
  BY DEF Shape
<1>6. CASE UNCHANGED vars
  BY <1>1, <1>2, <1>3, <1>4, <1>5, <1>6 DEF vars, queues
<1>7. ASSUME NEW r \in Requests, Refuses(r) \/ NotifyOne(r)
      PROVE  Shape'
  BY <1>1, <1>2, <1>3, <1>4, <1>5, <1>7 DEF Refuses, Refuse, NotifyOne, counters
<1>8. ASSUME NEW r \in Requests, NEW key \in Keys, NEW priority \in Priorities,
             JoinsJob(r, key, priority) \/ MakesJob(r, key, priority)
      PROVE  Shape'
  <2>1. /\ DOMAIN jobs' = DOMAIN jobs \cup {key}
        /\ \A k \in DOMAIN jobs : k # key => jobs'[k] = jobs[k]
        /\ jobs'[key] \in Job /\ QueuesOK
        /\ UNCHANGED <<bulk_scopes, bulk, results>>
    BY <1>8 DEF JoinsJob, MakesJob, Accepts, counters
  <2>2. jobs' \in [DOMAIN jobs' -> Job]
    <3>1. \A k \in DOMAIN jobs' : jobs'[k] \in Job
      BY <2>1 DEF Shape
    <3>2. jobs' = [k \in DOMAIN jobs' |-> jobs'[k]]
      BY <1>8 DEF JoinsJob, MakesJob, Accepts
    <3> QED
      BY <3>1, <3>2
  <2>3. /\ IsFiniteSet(DOMAIN jobs \cup {key})
        /\ Cardinality(DOMAIN jobs \cup {key}) <= MaxPending
    <3>1. IsFiniteSet(DOMAIN jobs) /\ Cardinality(DOMAIN jobs) \in Nat
      BY FS_CardinalityType DEF Shape
    <3>2. CASE key \in DOMAIN jobs
      <4>1. DOMAIN jobs \cup {key} = DOMAIN jobs
        BY <3>2
      <4> QED
        BY <4>1 DEF Shape
    <3>3. CASE key \notin DOMAIN jobs
      <4>1. Cardinality(DOMAIN jobs) < MaxPending
        BY <1>8, <3>3 DEF JoinsJob, MakesJob
      <4>2. /\ IsFiniteSet(DOMAIN jobs \cup {key})
            /\ Cardinality(DOMAIN jobs \cup {key}) = Cardinality(DOMAIN jobs) + 1
        BY <3>1, <3>3, FS_AddElement
      <4> QED
        BY <3>1, <4>1, <4>2, BoundsAssumption
    <3> QED
      BY <3>2, <3>3
  <2>4. JobsOK
    BY <2>1, <2>2, <2>3 DEF Shape
  <2>5. CallersOK
    BY <1>5, <1>8, <2>1 DEF JoinsJob, MakesJob
  <2> HIDE DEF JobsOK, QueuesOK, CallersOK, BulkOK
  <2> QED
    BY <1>1, <1>4, <2>1, <2>4, <2>5
<1>9. ASSUME NEW w \in Threads, NEW key \in Keys, Takes(w, key)
      PROVE  Shape'
  BY <1>1, <1>2, <1>4, <1>5, <1>9 DEF Takes, StartJob
<1>10. ASSUME NEW w \in Threads, Sleep(w) \/ WakeSpuriously(w)
       PROVE  Shape'
  BY <1>1, <1>2, <1>3, <1>4, <1>5, <1>10 DEF Sleep, WakeSpuriously, counters
<1>11. ASSUME NEW w \in Threads, Answer(w)
       PROVE  Shape'
  <2>1. UNCHANGED <<jobs, bulk_scopes, bulk, request>> /\ UNCHANGED queues
    BY <1>11 DEF Answer, counters
  <2>2. CallersOK
    <3>1. results' = [results EXCEPT ![Head(worker[w].waiters)] = @ + 1]
      BY <1>11 DEF Answer
    <3>2. results' \in [Requests -> Nat]
      <4>1. \A r \in Requests : results'[r] \in Nat
        BY <3>1 DEF Shape
      <4>2. results' = [r \in Requests |-> results'[r]]
        BY <3>1 DEF Shape
      <4> QED
        BY <4>1, <4>2
    <3> QED
      BY <2>1, <3>2 DEF Shape
  <2> HIDE DEF JobsOK, QueuesOK, CallersOK, BulkOK
  <2> QED
    BY <1>1, <1>2, <1>3, <1>4, <2>1, <2>2
<1>12. ASSUME NEW w \in Threads, NEW key \in Keys, Finish(w, key)
       PROVE  Shape'
  <2>1. jobs' = [k \in DOMAIN jobs \ {key} |-> jobs[k]]
    BY <1>12 DEF Finish
  <2>2. UNCHANGED <<bulk_scopes, bulk, request, results>> /\ UNCHANGED queues
    BY <1>12 DEF Finish
  <2>3. DOMAIN jobs' = DOMAIN jobs \ {key} /\ jobs' \in [DOMAIN jobs' -> Job]
    BY <2>1 DEF Shape
  <2>4. IsFiniteSet(DOMAIN jobs \ {key}) /\ Cardinality(DOMAIN jobs \ {key}) <= MaxPending
    <3>1. /\ DOMAIN jobs \ {key} \in SUBSET DOMAIN jobs
          /\ IsFiniteSet(DOMAIN jobs) /\ Cardinality(DOMAIN jobs) \in Nat
      BY FS_CardinalityType DEF Shape
    <3>2. /\ IsFiniteSet(DOMAIN jobs \ {key})
          /\ Cardinality(DOMAIN jobs \ {key}) <= Cardinality(DOMAIN jobs)
      BY <3>1, FS_Subset
    <3>3. Cardinality(DOMAIN jobs \ {key}) \in Nat
      BY <3>2, FS_CardinalityType
    <3> QED
      BY <3>1, <3>2, <3>3, BoundsAssumption DEF Shape
  <2>5. JobsOK
    BY <2>3, <2>4 DEF Shape
  <2> HIDE DEF JobsOK, QueuesOK, CallersOK, BulkOK
  <2> QED
    BY <1>1, <1>3, <1>4, <1>5, <2>2, <2>5
<1>13. CASE EnterBulk \/ LeaveBulk \/ NotifyBulk
  <2>1. UNCHANGED <<jobs, request, results>> /\ UNCHANGED queues
    BY <1>13 DEF EnterBulk, LeaveBulk, NotifyBulk
  <2>2. BulkOK
    BY <1>13 DEF EnterBulk, LeaveBulk, NotifyBulk, Shape, counters
  <2> HIDE DEF JobsOK, QueuesOK, CallersOK, BulkOK
  <2> QED
    BY <1>1, <1>2, <1>3, <1>5, <2>1, <2>2
<1> QED
  BY <1>6, <1>7, <1>8, <1>9, <1>10, <1>11, <1>12, <1>13, StepKinds

-----------------------------------------------------------------------------
(* One place for every job *)

\* Places in the terms of the next state, for the steps that change them.
LEMMA PlacesFrom ==
    ASSUME Threads' = Threads,
           IsInjective(high_queue'), IsInjective(low_queue'),
           \A key \in Keys : ~(InHigh(key)' /\ InLow(key)'),
           \A key \in Keys : InHigh(key)' \/ InLow(key)' => key \in DOMAIN jobs',
           \A key \in Keys, w \in Threads : Renders(w, key)' =>
              key \in DOMAIN jobs' /\ ~InHigh(key)' /\ ~InLow(key)',
           \A key \in DOMAIN jobs' :
              InHigh(key)' \/ InLow(key)' \/ \E w \in Threads : Renders(w, key)',
           \A key \in Keys, v, w \in Threads :
              Renders(v, key)' /\ Renders(w, key)' => v = w
    PROVE  Places'
BY DEF Places

LEMMA PlacesNext ==
    ASSUME Shape, Places, [Next]_vars
    PROVE  Places'
<1>0. /\ Threads' = Threads /\ worker \in [Threads -> WorkerStates]
      /\ DOMAIN jobs \subseteq Keys
  BY ThreadsStay DEF Shape
<1>1. ASSUME UNCHANGED queues, UNCHANGED jobs, SameRenders
      PROVE  Places'
  <2>1. \A key \in Keys : (InHigh(key)' <=> InHigh(key)) /\ (InLow(key)' <=> InLow(key))
    BY <1>1 DEF InHigh, InLow, queues
  <2>2. high_queue' = high_queue /\ low_queue' = low_queue /\ jobs' = jobs
    BY <1>1 DEF queues
  <2> QED
    BY <1>0, <1>1, <2>1, <2>2, PlacesFrom DEF Places, SameRenders
<1>2. ASSUME NEW r \in Requests, NEW key \in Keys, NEW priority \in Priorities,
             JoinsJob(r, key, priority)
      PROVE  Places'
  <2>1. /\ IsInjective(high_queue') /\ IsInjective(low_queue')
        /\ DOMAIN jobs' = DOMAIN jobs
        /\ \A k \in Keys :
             /\ InHigh(k)' <=> InHigh(k) \/ (k = key /\ Raised(key, priority))
             /\ InLow(k)' <=> InLow(k) /\ ~(k = key /\ Raised(key, priority))
        /\ SameRenders
    <3>1. DOMAIN jobs' = DOMAIN jobs
      BY <1>2 DEF JoinsJob, Accepts
    <3>2. SameRenders
      BY <1>2, WakingSteps, WakesChangeLittle
    <3> QED
      BY <1>2, <3>1, <3>2 DEF JoinsJob, Accepts
  <2>2. Raised(key, priority) => InLow(key)
    BY DEF Raised
  <2> QED
    BY <1>0, <2>1, <2>2, PlacesFrom DEF Places, SameRenders
<1>3. ASSUME NEW r \in Requests, NEW key \in Keys, NEW priority \in Priorities,
             MakesJob(r, key, priority)
      PROVE  Places'
  <2>1. /\ IsInjective(high_queue') /\ IsInjective(low_queue')
        /\ key \notin DOMAIN jobs /\ DOMAIN jobs' = DOMAIN jobs \cup {key}
        /\ \A k \in Keys :
             /\ InHigh(k)' <=> InHigh(k) \/ (k = key /\ priority = "High")
             /\ InLow(k)' <=> InLow(k) \/ (k = key /\ priority = "Low")
        /\ SameRenders
    <3>1. SameRenders
      BY <1>3, WakingSteps, WakesChangeLittle
    <3> QED
      BY <1>3, <3>1 DEF MakesJob, Accepts
  <2>2. priority = "High" \/ priority = "Low"
    BY DEF Priorities
  <2> QED
    BY <1>0, <2>1, <2>2, PlacesFrom DEF Places, SameRenders
<1>4. ASSUME NEW w \in Threads, NEW key \in Keys, Takes(w, key)
      PROVE  Places'
  <2>1. /\ IsInjective(high_queue') /\ IsInjective(low_queue')
        /\ InHigh(key) \/ InLow(key)
        /\ \A k \in Keys : /\ InHigh(k)' <=> InHigh(k) /\ k # key
                           /\ InLow(k)' <=> InLow(k) /\ k # key
        /\ jobs' = jobs
    BY <1>4 DEF Takes, StartJob
  <2>2. /\ worker[w] = Awake /\ worker'[w] = Rendering(key)
        /\ \A v \in Threads : v # w => worker'[v] = worker[v]
    BY <1>0, <1>4 DEF Takes, StartJob
  <2>3. \A v \in Threads, k \in Keys :
           Renders(v, k)' <=> Renders(v, k) \/ (v = w /\ k = key)
    BY <2>2, WorkerKinds DEF Renders
  <2> QED
    BY <1>0, <2>1, <2>3, PlacesFrom DEF Places
<1>5. ASSUME NEW w \in Threads, NEW key \in Keys, Finish(w, key)
      PROVE  Places'
  <2>1. /\ worker[w] = Rendering(key) /\ DOMAIN jobs' = DOMAIN jobs \ {key}
        /\ worker'[w] = Answering(jobs[key].waiters)
        /\ \A v \in Threads : v # w =>
             /\ worker[v].at = "waiting" => worker'[v] = Awake
             /\ worker[v].at # "waiting" => worker'[v] = worker[v]
    BY <1>5, FinishEffect
  <2>2. \A v \in Threads, k \in Keys : Renders(v, k)' <=> Renders(v, k) /\ v # w
    BY <2>1, WorkerKinds DEF Renders
  <2>3. high_queue' = high_queue /\ low_queue' = low_queue
    BY <1>5 DEF Finish, queues
  <2>4. \A k \in Keys : (InHigh(k)' <=> InHigh(k)) /\ (InLow(k)' <=> InLow(k))
    BY <2>3 DEF InHigh, InLow
  <2>5. Renders(w, key) /\ \A k \in Keys : Renders(w, k) => k = key
    BY <2>1, WorkerKinds DEF Renders
  <2> QED
    BY <1>0, <2>1, <2>2, <2>3, <2>4, <2>5, PlacesFrom DEF Places
<1>6. ASSUME NEW w \in Threads, Sleep(w) \/ Answer(w)
      PROVE  Places'
  <2>1. SameRenders
    BY <1>6, SleepChangesLittle, AnswerEffect DEF Shape
  <2>2. UNCHANGED queues /\ UNCHANGED jobs
    BY <1>6 DEF Sleep, Answer
  <2> QED
    BY <1>1, <2>1, <2>2
<1>7. ASSUME NEW r \in Requests, Refuses(r) \/ NotifyOne(r)
      PROVE  Places'
  <2>1. SameRenders
    BY <1>7, WakingSteps, WakesChangeLittle
  <2> QED
    BY <1>1, <1>7, <2>1 DEF Refuses, Refuse, NotifyOne
<1>8. ASSUME NEW w \in Threads, WakeSpuriously(w)
      PROVE  Places'
  <2>1. SameRenders
    BY <1>8, WakingSteps, WakesChangeLittle
  <2> QED
    BY <1>1, <1>8, <2>1 DEF WakeSpuriously
<1>9. CASE EnterBulk \/ LeaveBulk \/ NotifyBulk \/ UNCHANGED vars
  <2>1. SameRenders
    BY <1>9, WakingSteps, WakesChangeLittle
  <2> QED
    BY <1>1, <1>9, <2>1 DEF EnterBulk, LeaveBulk, NotifyBulk, vars, queues
<1> QED
  BY <1>2, <1>3, <1>4, <1>5, <1>6, <1>7, <1>8, <1>9, StepKinds

\* A key's queue is that of its job's priority.
LEMMA SortedNext ==
    ASSUME Shape, Places, Sorted, [Next]_vars
    PROVE  Sorted'
<1>0. DOMAIN jobs \subseteq Keys
  BY DEF Shape
<1>1. ASSUME UNCHANGED queues, UNCHANGED jobs
      PROVE  Sorted'
  BY <1>1 DEF Sorted, InHigh, InLow, queues
<1>2. ASSUME NEW r \in Requests, NEW key \in Keys, NEW priority \in Priorities,
             JoinsJob(r, key, priority)
      PROVE  Sorted'
  <2>1. /\ DOMAIN jobs' = DOMAIN jobs /\ key \in DOMAIN jobs
        /\ \A k \in DOMAIN jobs : k # key => jobs'[k] = jobs[k]
        /\ jobs'[key].priority =
             IF Promotes(key, priority) THEN "High" ELSE jobs[key].priority
        /\ \A k \in Keys :
             /\ InHigh(k)' <=> InHigh(k) \/ (k = key /\ Raised(key, priority))
             /\ InLow(k)' <=> InLow(k) /\ ~(k = key /\ Raised(key, priority))
    <3>1. DOMAIN jobs' = DOMAIN jobs
      BY <1>2 DEF JoinsJob, Accepts
    <3> QED
      BY <1>2, <3>1 DEF JoinsJob, Accepts
  <2>2. /\ Raised(key, priority) <=> Promotes(key, priority) /\ InLow(key)
        /\ ~(InHigh(key) /\ InLow(key))
        /\ Promotes(key, priority) => jobs[key].priority = "Low"
    BY DEF Raised, Promotes, Places
  <2> QED
    BY <1>0, <2>1, <2>2 DEF Sorted
<1>3. ASSUME NEW r \in Requests, NEW key \in Keys, NEW priority \in Priorities,
             MakesJob(r, key, priority)
      PROVE  Sorted'
  <2>1. /\ DOMAIN jobs' = DOMAIN jobs \cup {key} /\ key \notin DOMAIN jobs
        /\ \A k \in DOMAIN jobs : k # key => jobs'[k] = jobs[k]
        /\ jobs'[key].priority = priority
        /\ \A k \in Keys :
             /\ InHigh(k)' <=> InHigh(k) \/ (k = key /\ priority = "High")
             /\ InLow(k)' <=> InLow(k) \/ (k = key /\ priority = "Low")
    BY <1>3 DEF MakesJob, Accepts
  <2>2. ~InHigh(key) /\ ~InLow(key)
    BY <2>1 DEF Places
  <2> QED
    BY <1>0, <2>1, <2>2 DEF Sorted
<1>4. ASSUME NEW w \in Threads, NEW key \in Keys, Takes(w, key)
      PROVE  Sorted'
  BY <1>0, <1>4 DEF Takes, StartJob, Sorted
<1>5. ASSUME NEW w \in Threads, NEW key \in Keys, Finish(w, key)
      PROVE  Sorted'
  <2>1. /\ DOMAIN jobs' = DOMAIN jobs \ {key} /\ UNCHANGED queues
        /\ \A k \in DOMAIN jobs : k # key => jobs'[k] = jobs[k]
    BY <1>5 DEF Finish
  <2> QED
    BY <2>1 DEF Sorted, InHigh, InLow, queues
<1>6. ASSUME NEW w \in Threads, Sleep(w) \/ Answer(w) \/ WakeSpuriously(w)
      PROVE  Sorted'
  BY <1>1, <1>6 DEF Sleep, Answer, WakeSpuriously
<1>7. ASSUME NEW r \in Requests, Refuses(r) \/ NotifyOne(r)
      PROVE  Sorted'
  BY <1>1, <1>7 DEF Refuses, Refuse, NotifyOne
<1>8. CASE EnterBulk \/ LeaveBulk \/ NotifyBulk \/ UNCHANGED vars
  BY <1>1, <1>8 DEF EnterBulk, LeaveBulk, NotifyBulk, vars, queues
<1> QED
  BY <1>2, <1>3, <1>4, <1>5, <1>6, <1>7, <1>8, StepKinds

-----------------------------------------------------------------------------
(* One answer for every caller *)

\* A waiter's place in a list is within the limit.
LEMMA PlacesInLists ==
    ASSUME Shape
    PROVE  /\ \A r, key, i : HeldByJob(r, key, i) => i \in 1 .. MaxWaiters
           /\ \A r, i : \A w \in Threads : HeldByWorker(r, w, i) => i \in 1 .. MaxWaiters
<1>0. worker \in [Threads -> WorkerStates] /\ MaxWaiters \in Nat
  BY BoundsAssumption DEF Shape
<1>1. ASSUME NEW r, NEW key, NEW i, HeldByJob(r, key, i)
      PROVE  i \in 1 .. MaxWaiters
  <2>1. jobs[key].waiters \in WaiterList /\ i \in 1 .. Len(jobs[key].waiters)
    BY <1>1 DEF HeldByJob, Shape, Job
  <2>2. Len(jobs[key].waiters) \in 1 .. MaxWaiters
    BY <2>1, WaiterListsAre
  <2> QED
    BY <1>0, <2>1, <2>2
<1>2. ASSUME NEW r, NEW i, NEW w \in Threads, HeldByWorker(r, w, i)
      PROVE  i \in 1 .. MaxWaiters
  <2>1. worker[w].waiters \in WaiterList /\ i \in 1 .. Len(worker[w].waiters)
    BY <1>0, <1>2, WorkerCases DEF HeldByWorker
  <2>2. Len(worker[w].waiters) \in 1 .. MaxWaiters
    BY <2>1, WaiterListsAre
  <2> QED
    BY <1>0, <2>1, <2>2
<1> QED
  BY <1>1, <1>2

\* The lists and the callers' fates stay.
LEMMA CallersStay ==
    ASSUME Callers, Threads' = Threads, UNCHANGED results,
           \A r \in Requests : Pending(r)' <=> Pending(r),
           \A r \in Requests, key \in Keys, i \in 1 .. MaxWaiters :
              HeldByJob(r, key, i)' <=> HeldByJob(r, key, i),
           \A r \in Requests, w \in Threads, i \in 1 .. MaxWaiters :
              HeldByWorker(r, w, i)' <=> HeldByWorker(r, w, i)
    PROVE  Callers'
<1>1. ASSUME NEW r \in Requests
      PROVE  (Held(r)' <=> Held(r)) /\ (HeldOnce(r)' <=> HeldOnce(r))
  BY DEF Held, HeldOnce
<1> QED
  BY <1>1 DEF Callers

\* A caller joins one list at one place.
LEMMA CallerJoins ==
    ASSUME Callers, Threads' = Threads, UNCHANGED results,
           NEW r \in Requests, NEW key \in Keys, NEW n \in 1 .. MaxWaiters,
           ~Pending(r), Pending(r)',
           \A x \in Requests : x # r => (Pending(x)' <=> Pending(x)),
           \A x \in Requests, k \in Keys, i \in 1 .. MaxWaiters :
              HeldByJob(x, k, i)' <=> HeldByJob(x, k, i) \/ (x = r /\ k = key /\ i = n),
           \A x \in Requests, w \in Threads, i \in 1 .. MaxWaiters :
              HeldByWorker(x, w, i)' <=> HeldByWorker(x, w, i)
    PROVE  Callers'
<1>1. ASSUME NEW x \in Requests, x # r
      PROVE  (Held(x)' <=> Held(x)) /\ (HeldOnce(x)' <=> HeldOnce(x))
  BY <1>1 DEF Held, HeldOnce
<1>2. ~Held(r) /\ results[r] = 0
  BY DEF Callers
<1>3. /\ \A k \in Keys, i \in 1 .. MaxWaiters : HeldByJob(r, k, i)' <=> k = key /\ i = n
      /\ \A w \in Threads, i \in 1 .. MaxWaiters : ~HeldByWorker(r, w, i)'
  BY <1>2 DEF Held
<1>4. Held(r)' /\ HeldOnce(r)'
  BY <1>3 DEF Held, HeldOnce
<1> QED
  BY <1>1, <1>2, <1>4 DEF Callers

\* A job's list goes to the worker that rendered it.
LEMMA ListMoves ==
    ASSUME Callers, Threads' = Threads, UNCHANGED results,
           NEW w \in Threads, NEW key \in Keys,
           \A r \in Requests : Pending(r)' <=> Pending(r),
           \A r \in Requests, k \in Keys, i \in 1 .. MaxWaiters :
              HeldByJob(r, k, i)' <=> HeldByJob(r, k, i) /\ k # key,
           \A r \in Requests, i \in 1 .. MaxWaiters : ~HeldByWorker(r, w, i),
           \A r \in Requests, v \in Threads, i \in 1 .. MaxWaiters :
              HeldByWorker(r, v, i)' <=>
                HeldByWorker(r, v, i) \/ (v = w /\ HeldByJob(r, key, i))
    PROVE  Callers'
<1>1. ASSUME NEW r \in Requests
      PROVE  Held(r)' <=> Held(r)
  BY DEF Held
<1>2. ASSUME NEW r \in Requests
      PROVE  HeldOnce(r)'
  <2>1. HeldOnce(r)
    BY DEF Callers
  <2> QED
    BY <2>1 DEF HeldOnce
<1> QED
  BY <1>1, <1>2 DEF Callers

\* The first of a worker's list is sent its result.
LEMMA FirstIsAnswered ==
    ASSUME Shape, Callers, Threads' = Threads,
           NEW w \in Threads, NEW h \in Requests,
           results' = [results EXCEPT ![h] = @ + 1],
           \A r \in Requests : Pending(r)' <=> Pending(r),
           \A r \in Requests, k \in Keys, i \in 1 .. MaxWaiters :
              HeldByJob(r, k, i)' <=> HeldByJob(r, k, i),
           HeldByWorker(h, w, 1),
           \A r \in Requests : HeldByWorker(r, w, 1) => r = h,
           \A r \in Requests, v \in Threads, i \in 1 .. MaxWaiters : v # w =>
              (HeldByWorker(r, v, i)' <=> HeldByWorker(r, v, i)),
           \A r \in Requests, i \in 1 .. MaxWaiters :
              HeldByWorker(r, w, i)' <=> HeldByWorker(r, w, i + 1)
    PROVE  Callers'
<1>0. MaxWaiters \in Nat \ {0} /\ 1 \in 1 .. MaxWaiters
  BY BoundsAssumption
<1>1. \A r \in Requests, i \in 1 .. MaxWaiters :
         HeldByWorker(r, w, i)' => i + 1 \in 1 .. MaxWaiters /\ HeldByWorker(r, w, i + 1)
  BY PlacesInLists
<1>2. ASSUME NEW r \in Requests
      PROVE  HeldOnce(r)'
  <2>1. HeldOnce(r)
    BY DEF Callers
  <2>2. \A k, l \in Keys, i, j \in 1 .. MaxWaiters :
           HeldByJob(r, k, i)' /\ HeldByJob(r, l, j)' => k = l /\ i = j
    BY <2>1 DEF HeldOnce
  <2>3. \A u, v \in Threads, i, j \in 1 .. MaxWaiters :
           HeldByWorker(r, u, i)' /\ HeldByWorker(r, v, j)' => u = v /\ i = j
    <3> SUFFICES ASSUME NEW u \in Threads, NEW v \in Threads,
                        NEW i \in 1 .. MaxWaiters, NEW j \in 1 .. MaxWaiters,
                        HeldByWorker(r, u, i)', HeldByWorker(r, v, j)'
                 PROVE  u = v /\ i = j
      OBVIOUS
    <3> DEFINE a == IF u = w THEN i + 1 ELSE i
               b == IF v = w THEN j + 1 ELSE j
    <3>1. a \in 1 .. MaxWaiters /\ HeldByWorker(r, u, a)
      BY <1>1
    <3>2. b \in 1 .. MaxWaiters /\ HeldByWorker(r, v, b)
      BY <1>1
    <3> HIDE DEF a, b
    <3>3. u = v /\ a = b
      BY <2>1, <3>1, <3>2 DEF HeldOnce
    <3> QED
      BY <3>3 DEF a, b
  <2>4. \A k \in Keys, v \in Threads, i, j \in 1 .. MaxWaiters :
           ~(HeldByJob(r, k, i)' /\ HeldByWorker(r, v, j)')
    BY <1>1, <2>1 DEF HeldOnce
  <2> QED
    BY <2>2, <2>3, <2>4 DEF HeldOnce
<1>3. ~Held(h)'
  <2>1. HeldOnce(h)
    BY DEF Callers
  <2>2. \A k \in Keys, i \in 1 .. MaxWaiters : ~HeldByJob(h, k, i)
    BY <1>0, <2>1 DEF HeldOnce
  <2>3. \A v \in Threads, i \in 1 .. MaxWaiters : HeldByWorker(h, v, i) => v = w /\ i = 1
    BY <1>0, <2>1 DEF HeldOnce
  <2>4. \A v \in Threads, i \in 1 .. MaxWaiters : ~HeldByWorker(h, v, i)'
    BY <1>0, <1>1, <2>3
  <2> QED
    BY <2>2, <2>4 DEF Held
<1>4. ASSUME NEW r \in Requests, r # h
      PROVE  Held(r)' <=> Held(r)
  <2>1. \A i \in 1 .. MaxWaiters : HeldByWorker(r, w, i) =>
           i - 1 \in 1 .. MaxWaiters /\ HeldByWorker(r, w, i - 1)'
    <3> SUFFICES ASSUME NEW i \in 1 .. MaxWaiters, HeldByWorker(r, w, i)
                 PROVE  i - 1 \in 1 .. MaxWaiters /\ HeldByWorker(r, w, i - 1)'
      OBVIOUS
    <3>1. i # 1
      BY <1>4
    <3>2. i - 1 \in 1 .. MaxWaiters /\ (i - 1) + 1 = i
      BY <1>0, <3>1
    <3>3. HeldByWorker(r, w, i - 1)' <=> HeldByWorker(r, w, (i - 1) + 1)
      BY <3>2
    <3> QED
      BY <3>2, <3>3
  <2> QED
    BY <1>1, <2>1 DEF Held
<1>5. Held(h) /\ Pending(h) /\ results[h] = 0
  BY <1>0 DEF Held, Callers
<1>6. results'[h] = 1 /\ \A r \in Requests : r # h => results'[r] = results[r]
  BY <1>5 DEF Shape
<1> QED
  BY <1>2, <1>3, <1>4, <1>5, <1>6 DEF Callers

LEMMA CallersNext ==
    ASSUME Shape, Places, Callers, [Next]_vars
    PROVE  Callers'
<1>0. /\ Threads' = Threads /\ worker \in [Threads -> WorkerStates]
      /\ DOMAIN jobs \subseteq Keys /\ MaxWaiters \in Nat
      /\ request \in [Requests -> {"new", "notifying", "accepted", "refused"}]
  BY ThreadsStay, BoundsAssumption DEF Shape
<1>1. UNCHANGED jobs =>
        \A r \in Requests, key \in Keys, i \in 1 .. MaxWaiters :
           HeldByJob(r, key, i)' <=> HeldByJob(r, key, i)
  BY DEF HeldByJob
<1>2. SameAnswers =>
        \A r \in Requests, w \in Threads, i \in 1 .. MaxWaiters :
           HeldByWorker(r, w, i)' <=> HeldByWorker(r, w, i)
  BY DEF HeldByWorker, SameAnswers
<1>3. UNCHANGED request => \A r \in Requests : Pending(r)' <=> Pending(r)
  BY DEF Pending
<1>4. ASSUME NEW r \in Requests, Refuses(r) \/ NotifyOne(r)
      PROVE  Callers'
  <2>1. SameAnswers
    BY <1>4, WakingSteps, WakesChangeLittle
  <2>2. UNCHANGED <<jobs, results>>
    BY <1>4 DEF Refuses, Refuse, NotifyOne
  <2>3. \A x \in Requests : Pending(x)' <=> Pending(x)
    BY <1>0, <1>4 DEF Refuses, Refuse, NotifyOne, Pending
  <2> QED
    BY <1>0, <1>1, <1>2, <2>1, <2>2, <2>3, CallersStay
<1>5. ASSUME NEW r \in Requests, NEW key \in Keys, NEW priority \in Priorities,
             JoinsJob(r, key, priority) \/ MakesJob(r, key, priority)
      PROVE  Callers'
  <2>1. SameAnswers
    BY <1>5, WakingSteps, WakesChangeLittle
  <2>2. /\ ~Pending(r) /\ Pending(r)' /\ UNCHANGED results
        /\ \A x \in Requests : x # r => (Pending(x)' <=> Pending(x))
    BY <1>0, <1>5 DEF JoinsJob, MakesJob, Accepts, Pending
  <2>3. CASE JoinsJob(r, key, priority)
    <3> DEFINE list == jobs[key].waiters
               n == Len(list) + 1
    <3>1. /\ key \in DOMAIN jobs /\ Len(list) < MaxWaiters
          /\ DOMAIN jobs' = DOMAIN jobs
          /\ jobs'[key].waiters = Append(list, r)
          /\ \A k \in DOMAIN jobs : k # key => jobs'[k] = jobs[k]
      <4>1. DOMAIN jobs' = DOMAIN jobs
        BY <2>3 DEF JoinsJob, Accepts
      <4> QED
        BY <2>3, <4>1 DEF JoinsJob, Accepts
    <3>2. list \in Seq(Requests) /\ Len(list) \in Nat
      <4>1. list \in WaiterList
        BY <3>1 DEF Shape, Job
      <4> QED
        BY <1>0, <4>1, WaiterListsAre
    <3>3. /\ Len(Append(list, r)) = n
          /\ \A i \in 1 .. Len(list) : Append(list, r)[i] = list[i]
          /\ Append(list, r)[n] = r
      BY <3>2, AppendProperties
    <3>4. n \in 1 .. MaxWaiters
      BY <1>0, <3>1, <3>2
    <3>5. \A x \in Requests, i \in 1 .. MaxWaiters :
             HeldByJob(x, key, i)' <=> HeldByJob(x, key, i) \/ (x = r /\ i = n)
      <4> SUFFICES ASSUME NEW x \in Requests, NEW i \in 1 .. MaxWaiters
                   PROVE  i \in 1 .. n /\ Append(list, r)[i] = x
                            <=> (i \in 1 .. Len(list) /\ list[i] = x) \/ (x = r /\ i = n)
        BY <3>1, <3>3 DEF HeldByJob
      <4>1. i \in 1 .. n <=> i \in 1 .. Len(list) \/ i = n
        BY <1>0, <3>2
      <4>2. n \notin 1 .. Len(list)
        BY <3>2
      <4> HIDE DEF list, n
      <4> QED
        BY <3>3, <4>1, <4>2
    <3>6. \A x \in Requests, k \in Keys, i \in 1 .. MaxWaiters : k # key =>
             (HeldByJob(x, k, i)' <=> HeldByJob(x, k, i))
      BY <3>1 DEF HeldByJob
    <3> HIDE DEF n, list
    <3>7. \A x \in Requests, k \in Keys, i \in 1 .. MaxWaiters :
             HeldByJob(x, k, i)' <=>
               HeldByJob(x, k, i) \/ (x = r /\ k = key /\ i = n)
      BY <3>5, <3>6
    <3>8. PICK m \in 1 .. MaxWaiters : m = n
      BY <3>4
    <3>9. \A x \in Requests, k \in Keys, i \in 1 .. MaxWaiters :
             HeldByJob(x, k, i)' <=>
               HeldByJob(x, k, i) \/ (x = r /\ k = key /\ i = m)
      BY <3>7, <3>8
    <3> QED
      BY <1>0, <1>2, <2>1, <2>2, <3>9, CallerJoins
  <2>4. CASE MakesJob(r, key, priority)
    <3>1. /\ key \notin DOMAIN jobs /\ DOMAIN jobs' = DOMAIN jobs \cup {key}
          /\ jobs'[key].waiters = <<r>>
          /\ \A k \in DOMAIN jobs : k # key => jobs'[k] = jobs[k]
      BY <2>4 DEF MakesJob, Accepts
    <3>2. 1 \in 1 .. MaxWaiters
      BY BoundsAssumption
    <3>3. \A x \in Requests, i \in 1 .. MaxWaiters :
             HeldByJob(x, key, i)' <=> x = r /\ i = 1
      <4> SUFFICES ASSUME NEW x \in Requests, NEW i \in 1 .. MaxWaiters
                   PROVE  i \in 1 .. Len(<<r>>) /\ <<r>>[i] = x <=> x = r /\ i = 1
        BY <3>1 DEF HeldByJob
      <4> QED
        OBVIOUS
    <3>4. \A x \in Requests, k \in Keys, i \in 1 .. MaxWaiters : k # key =>
             (HeldByJob(x, k, i)' <=> HeldByJob(x, k, i))
      BY <3>1 DEF HeldByJob
    <3>5. \A x \in Requests, i \in 1 .. MaxWaiters : ~HeldByJob(x, key, i)
      BY <3>1 DEF HeldByJob
    <3>6. \A x \in Requests, k \in Keys, i \in 1 .. MaxWaiters :
             HeldByJob(x, k, i)' <=>
               HeldByJob(x, k, i) \/ (x = r /\ k = key /\ i = 1)
      BY <3>3, <3>4, <3>5
    <3> QED
      BY <1>0, <1>2, <2>1, <2>2, <3>2, <3>6, CallerJoins
  <2> QED
    BY <1>5, <2>3, <2>4
<1>6. ASSUME NEW w \in Threads, NEW key \in Keys, Finish(w, key)
      PROVE  Callers'
  <2>1. /\ worker[w] = Rendering(key) /\ key \in DOMAIN jobs
        /\ DOMAIN jobs' = DOMAIN jobs \ {key}
        /\ \A k \in DOMAIN jobs : k # key => jobs'[k] = jobs[k]
        /\ worker'[w] = Answering(jobs[key].waiters)
        /\ \A v \in Threads : v # w =>
             /\ worker[v].at = "waiting" => worker'[v] = Awake
             /\ worker[v].at # "waiting" => worker'[v] = worker[v]
    BY <1>6, FinishEffect
  <2>2. UNCHANGED <<request, results>>
    BY <1>6 DEF Finish
  <2>3. \A r \in Requests, k \in Keys, i \in 1 .. MaxWaiters :
           HeldByJob(r, k, i)' <=> HeldByJob(r, k, i) /\ k # key
    BY <2>1 DEF HeldByJob
  <2>4. \A r \in Requests, i \in 1 .. MaxWaiters : ~HeldByWorker(r, w, i)
    BY <2>1, WorkerKinds DEF HeldByWorker
  <2>5. \A r \in Requests, i \in 1 .. MaxWaiters :
           HeldByWorker(r, w, i)' <=> HeldByJob(r, key, i)
    BY <2>1, WorkerKinds DEF HeldByWorker, HeldByJob
  <2>6. \A r \in Requests, v \in Threads, i \in 1 .. MaxWaiters : v # w =>
           (HeldByWorker(r, v, i)' <=> HeldByWorker(r, v, i))
    BY <2>1, WorkerKinds DEF HeldByWorker
  <2>7. \A r \in Requests, v \in Threads, i \in 1 .. MaxWaiters :
           HeldByWorker(r, v, i)' <=>
             HeldByWorker(r, v, i) \/ (v = w /\ HeldByJob(r, key, i))
    BY <2>4, <2>5, <2>6
  <2> QED
    BY <1>0, <1>3, <2>2, <2>3, <2>4, <2>7, ListMoves
<1>7. ASSUME NEW w \in Threads, Answer(w)
      PROVE  Callers'
  <2> DEFINE list == worker[w].waiters
             h == Head(list)
  <2>1. /\ worker[w].at = "answering" /\ list \in WaiterList
        /\ Len(list) = 1 => worker'[w] = Awake
        /\ Len(list) # 1 => worker'[w] = Answering(Tail(list))
        /\ \A v \in Threads : v # w => worker'[v] = worker[v]
    BY <1>7, AnswerEffect
  <2>2. UNCHANGED <<jobs, request>> /\ results' = [results EXCEPT ![h] = @ + 1]
    BY <1>7 DEF Answer
  <2>3. /\ list \in Seq(Requests) /\ list # << >> /\ Len(list) \in 1 .. MaxWaiters
        /\ Len(list) \in Nat
    BY <1>0, <2>1, WaiterListsAre DEF WaiterList
  <2>4. h = list[1] /\ h \in Requests
    BY <2>3, ElementOfSeq
  <2>5. /\ Len(Tail(list)) = Len(list) - 1
        /\ \A i \in 1 .. Len(list) - 1 : Tail(list)[i] = list[i + 1]
    BY <2>3, HeadTailProperties
  <2> HIDE DEF list, h
  <2>6. \A r \in Requests, i \in 1 .. MaxWaiters :
           HeldByWorker(r, w, i)' <=> HeldByWorker(r, w, i + 1)
    <3> SUFFICES ASSUME NEW r \in Requests, NEW i \in 1 .. MaxWaiters
                 PROVE  HeldByWorker(r, w, i)'
                          <=> i + 1 \in 1 .. Len(list) /\ list[i + 1] = r
      BY <2>1 DEF HeldByWorker, list
    <3>1. CASE Len(list) = 1
      <4>1. worker'[w].at = "awake" /\ i + 1 \notin 1 .. Len(list)
        BY <1>0, <2>1, <3>1, WorkerKinds
      <4> QED
        BY <4>1 DEF HeldByWorker
    <3>2. CASE Len(list) # 1
      <4>1. worker'[w].at = "answering" /\ worker'[w].waiters = Tail(list)
        BY <2>1, <3>2, WorkerKinds
      <4>2. i \in 1 .. Len(list) - 1 <=> i + 1 \in 1 .. Len(list)
        BY <1>0, <2>3
      <4> QED
        BY <2>5, <4>1, <4>2 DEF HeldByWorker
    <3> QED
      BY <3>1, <3>2
  <2>7. \A r \in Requests, v \in Threads, i \in 1 .. MaxWaiters : v # w =>
           (HeldByWorker(r, v, i)' <=> HeldByWorker(r, v, i))
    BY <2>1 DEF HeldByWorker
  <2>8. \A r \in Requests : HeldByWorker(r, w, 1) <=> r = h
    <3>1. 1 \in 1 .. Len(list)
      BY <2>3
    <3> QED
      BY <2>1, <2>4, <3>1 DEF HeldByWorker, list
  <2> QED
    BY <1>0, <1>1, <1>3, <2>2, <2>4, <2>6, <2>7, <2>8, FirstIsAnswered
<1>8. ASSUME NEW w \in Threads, Sleep(w) \/ WakeSpuriously(w) \/ \E key \in Keys : Takes(w, key)
      PROVE  Callers'
  <2>1. SameAnswers
    <3>1. ASSUME NEW key \in Keys, Takes(w, key)
          PROVE  SameAnswers
      BY <1>0, <3>1, WorkerKinds DEF Takes, StartJob, SameAnswers
    <3> QED
      BY <1>8, <3>1, SleepChangesLittle, WakingSteps, WakesChangeLittle
  <2>2. UNCHANGED <<jobs, request, results>>
    BY <1>8 DEF Sleep, WakeSpuriously, Takes, StartJob
  <2> QED
    BY <1>0, <1>1, <1>2, <1>3, <2>1, <2>2, CallersStay
<1>9. CASE EnterBulk \/ LeaveBulk \/ NotifyBulk \/ UNCHANGED vars
  <2>1. SameAnswers
    BY <1>9, WakingSteps, WakesChangeLittle
  <2>2. UNCHANGED <<jobs, request, results>>
    BY <1>9 DEF EnterBulk, LeaveBulk, NotifyBulk, vars
  <2> QED
    BY <1>0, <1>1, <1>2, <1>3, <2>1, <2>2, CallersStay
<1> QED
  BY <1>4, <1>5, <1>6, <1>7, <1>8, <1>9, StepKinds

-----------------------------------------------------------------------------
(* No lost wake-up *)

\* The sets that are counted are finite.
LEMMA Countable ==
    ASSUME Shape
    PROVE  /\ IsFiniteSet(AwakeThreads) /\ IsFiniteSet(Notifying)
           /\ \A kind : IsFiniteSet(QueuedIn(kind))
           /\ Cardinality(AwakeThreads) \in Nat /\ Cardinality(Notifying) \in Nat
           /\ \A kind : Cardinality(QueuedIn(kind)) \in Nat
           /\ Wakeups \in Nat
<1>1. IsFiniteSet(Threads) /\ IsFiniteSet(Requests) /\ IsFiniteSet(DOMAIN jobs)
  BY Limits DEF Shape
<1>2. AwakeThreads \in SUBSET Threads /\ Notifying \in SUBSET Requests
  BY DEF AwakeThreads, Notifying
<1>3. IsFiniteSet(AwakeThreads) /\ IsFiniteSet(Notifying)
  BY <1>1, <1>2, FS_Subset
<1>4. ASSUME NEW kind
      PROVE  IsFiniteSet(QueuedIn(kind)) /\ Cardinality(QueuedIn(kind)) \in Nat
  <2>1. QueuedIn(kind) \in SUBSET DOMAIN jobs
    BY DEF QueuedIn
  <2> QED
    BY <1>1, <2>1, FS_Subset, FS_CardinalityType
<1>5. Cardinality(AwakeThreads) \in Nat /\ Cardinality(Notifying) \in Nat
  BY <1>3, FS_CardinalityType
<1> QED
  BY <1>3, <1>4, <1>5 DEF Wakeups

\* More wake-ups to come cover the same jobs.
LEMMA CoveredStays ==
    ASSUME Shape, Covered, UNCHANGED <<concurrency, counters>>,
           QueuedIn(Images)' = QueuedIn(Images), QueuedIn(Videos)' = QueuedIn(Videos),
           Wakeups' \in Nat, Wakeups <= Wakeups'
    PROVE  Covered'
<1>1. /\ active_jobs' = active_jobs /\ active_videos' = active_videos
      /\ TotalLimit' = TotalLimit /\ VideoCap' = VideoCap
  BY DEF counters, TotalLimit, VideoCap
<1>2. /\ Wakeups \in Nat /\ Cardinality(QueuedIn(Images)) \in Nat
      /\ Cardinality(QueuedIn(Videos)) \in Nat
      /\ TotalLimit \in Nat /\ VideoCap \in Nat
      /\ active_jobs \in Nat /\ active_videos \in Nat
  BY Countable, Limits DEF Shape
<1>3. /\ Cardinality(QueuedIn(Images)') = Cardinality(QueuedIn(Images))
      /\ Cardinality(QueuedIn(Videos)') = Cardinality(QueuedIn(Videos))
  OBVIOUS
<1>4. PICK more \in Nat : more = Wakeups' /\ Wakeups <= more
  OBVIOUS
<1>5. CASE TotalLimit <= active_jobs + Wakeups
  <2>1. TotalLimit <= active_jobs + more
    <3>1. \A t, a, b, c \in Nat : t <= a + b /\ b <= c => t <= a + c
      OBVIOUS
    <3> QED
      BY <1>2, <1>4, <1>5, <3>1
  <2> QED
    BY <1>1, <1>4, <2>1 DEF Covered
<1>6. CASE Cardinality(QueuedIn(Images)) + Cardinality(QueuedIn(Videos)) <= Wakeups
  <2>1. Cardinality(QueuedIn(Images)) + Cardinality(QueuedIn(Videos)) <= more
    BY <1>2, <1>4, <1>6
  <2> QED
    BY <1>3, <1>4, <2>1 DEF Covered
<1>7. CASE /\ Cardinality(QueuedIn(Images)) <= Wakeups
           /\ Cardinality(QueuedIn(Images)) + VideoCap <= Wakeups + active_videos
  <2>1. /\ Cardinality(QueuedIn(Images)) <= more
        /\ Cardinality(QueuedIn(Images)) + VideoCap <= more + active_videos
    BY <1>2, <1>4, <1>7
  <2> QED
    BY <1>1, <1>3, <1>4, <2>1 DEF Covered
<1> QED
  BY <1>5, <1>6, <1>7 DEF Covered

\* A new key adds at most one job that could start, and one notification.
LEMMA InsertIsCovered ==
    ASSUME Shape, Places, Shape', Covered, NEW r \in Requests, NEW key \in Keys,
           NEW priority \in Priorities, MakesJob(r, key, priority)
    PROVE  Covered'
<1>1. /\ UNCHANGED <<concurrency, counters, worker>> /\ request[r] = "new"
      /\ request' = [request EXCEPT ![r] = "notifying"]
      /\ DOMAIN jobs' = DOMAIN jobs \cup {key} /\ key \notin DOMAIN jobs
      /\ \A k \in Keys :
           /\ InHigh(k)' <=> InHigh(k) \/ (k = key /\ priority = "High")
           /\ InLow(k)' <=> InLow(k) \/ (k = key /\ priority = "Low")
  BY DEF MakesJob, Accepts
<1>2. /\ active_jobs' = active_jobs /\ active_videos' = active_videos
      /\ TotalLimit' = TotalLimit /\ VideoCap' = VideoCap /\ Threads' = Threads
  BY <1>1 DEF counters, TotalLimit, VideoCap, Threads
<1>3. Wakeups' = Wakeups + 1
  <2>1. Notifying' = Notifying \cup {r} /\ r \notin Notifying
    BY <1>1 DEF Notifying, Shape
  <2>2. AwakeThreads' = AwakeThreads
    BY <1>1, <1>2 DEF AwakeThreads
  <2>3. Cardinality(Notifying \cup {r}) = Cardinality(Notifying) + 1
    BY <2>1, Countable, FS_AddElement
  <2> QED
    BY <2>1, <2>2, <2>3, Countable DEF Wakeups
<1>4. ASSUME NEW kind \in {Images, Videos}
      PROVE  /\ key \in kind =>
                  Cardinality(QueuedIn(kind)') = Cardinality(QueuedIn(kind)) + 1
             /\ key \notin kind => QueuedIn(kind)' = QueuedIn(kind)
  <2>1. kind \subseteq Keys
    BY DEF Keys
  <2>2. QueuedIn(kind)' = {k \in kind \cap (DOMAIN jobs \cup {key}) :
                             InHigh(k)' \/ InLow(k)'}
    BY <1>1 DEF QueuedIn
  <2>3. priority = "High" \/ priority = "Low"
    BY DEF Priorities
  <2>4. key \notin QueuedIn(kind)
    BY <1>1 DEF QueuedIn
  <2>5. key \in kind => QueuedIn(kind)' = QueuedIn(kind) \cup {key}
    BY <1>1, <2>1, <2>2, <2>3 DEF QueuedIn
  <2>6. key \notin kind => QueuedIn(kind)' = QueuedIn(kind)
    BY <1>1, <2>1, <2>2 DEF QueuedIn
  <2>7. Cardinality(QueuedIn(kind) \cup {key}) = Cardinality(QueuedIn(kind)) + 1
    BY <2>4, Countable, FS_AddElement
  <2> QED
    BY <2>5, <2>6, <2>7
<1>5. /\ Wakeups \in Nat /\ Cardinality(QueuedIn(Images)) \in Nat
      /\ Cardinality(QueuedIn(Videos)) \in Nat
      /\ TotalLimit \in Nat /\ VideoCap \in Nat
      /\ active_jobs \in Nat /\ active_videos \in Nat
  BY Countable, Limits DEF Shape
<1>6. CASE key \in Videos
  <2>1. key \notin Images
    BY <1>6, KeysAssumption
  <2>2. /\ Cardinality(QueuedIn(Videos)') = Cardinality(QueuedIn(Videos)) + 1
        /\ QueuedIn(Images)' = QueuedIn(Images)
    BY <1>4, <1>6, <2>1
  <2> QED
    BY <1>2, <1>3, <1>5, <2>2 DEF Covered
<1>7. CASE key \notin Videos
  <2>1. key \in Images
    BY <1>7 DEF Keys
  <2>2. /\ Cardinality(QueuedIn(Images)') = Cardinality(QueuedIn(Images)) + 1
        /\ QueuedIn(Videos)' = QueuedIn(Videos)
    BY <1>4, <1>7, <2>1
  <2> QED
    BY <1>2, <1>3, <1>5, <2>2 DEF Covered
<1> QED
  BY <1>6, <1>7

\* A worker that takes a job is one worker less awake and one job less to start.
LEMMA TakeIsCovered ==
    ASSUME Shape, Places, Shape', Covered, NEW w \in Threads, NEW key \in Keys,
           Takes(w, key)
    PROVE  Covered'
<1>1. /\ UNCHANGED <<concurrency, bulk_scopes, jobs, request>>
      /\ worker[w] = Awake /\ Admitted(key)
      /\ InHigh(key) \/ InLow(key)
      /\ \A k \in Keys : /\ InHigh(k)' <=> InHigh(k) /\ k # key
                         /\ InLow(k)' <=> InLow(k) /\ k # key
  BY DEF Takes, StartJob
<1>2. /\ active_jobs' = active_jobs + 1
      /\ active_videos' = active_videos + (IF key \in Videos THEN 1 ELSE 0)
      /\ worker'[w] = Rendering(key)
      /\ \A v \in Threads : v # w => worker'[v] = worker[v]
  BY DEF Takes, StartJob, Shape
<1>3. TotalLimit' = TotalLimit /\ VideoCap' = VideoCap /\ Threads' = Threads
  BY <1>1 DEF TotalLimit, VideoCap, Threads
<1>4. Wakeups' = Wakeups - 1
  <2>1. AwakeThreads' = AwakeThreads \ {w} /\ w \in AwakeThreads
    BY <1>1, <1>2, <1>3, WorkerKinds DEF AwakeThreads
  <2>2. Notifying' = Notifying
    BY <1>1 DEF Notifying
  <2>3. Cardinality(AwakeThreads \ {w}) = Cardinality(AwakeThreads) - 1
    BY <2>1, Countable, FS_RemoveElement
  <2> QED
    BY <2>1, <2>2, <2>3, Countable DEF Wakeups
<1>5. ASSUME NEW kind \in {Images, Videos}
      PROVE  /\ key \in kind =>
                  Cardinality(QueuedIn(kind)') = Cardinality(QueuedIn(kind)) - 1
             /\ key \notin kind => QueuedIn(kind)' = QueuedIn(kind)
  <2>1. kind \subseteq Keys
    BY DEF Keys
  <2>2. QueuedIn(kind)' = {k \in kind \cap DOMAIN jobs : InHigh(k)' \/ InLow(k)'}
    BY <1>1 DEF QueuedIn
  <2>3. key \in DOMAIN jobs
    BY <1>1 DEF Places
  <2>4. QueuedIn(kind)' = QueuedIn(kind) \ {key}
    BY <1>1, <2>1, <2>2 DEF QueuedIn
  <2>5. key \in kind <=> key \in QueuedIn(kind)
    BY <1>1, <2>3 DEF QueuedIn
  <2>6. key \in kind =>
           Cardinality(QueuedIn(kind) \ {key}) = Cardinality(QueuedIn(kind)) - 1
    BY <2>5, Countable, FS_RemoveElement
  <2> QED
    BY <2>4, <2>5, <2>6
<1>6. /\ Wakeups \in Nat /\ Cardinality(QueuedIn(Images)) \in Nat
      /\ Cardinality(QueuedIn(Videos)) \in Nat
      /\ TotalLimit \in Nat /\ VideoCap \in Nat
      /\ active_jobs \in Nat /\ active_videos \in Nat
  BY Countable, Limits DEF Shape
<1>7. CASE key \in Videos
  <2>1. key \notin Images /\ active_videos < VideoCap
    BY <1>1, <1>7, KeysAssumption DEF Admitted
  <2>2. /\ Cardinality(QueuedIn(Videos)') = Cardinality(QueuedIn(Videos)) - 1
        /\ QueuedIn(Images)' = QueuedIn(Images)
    BY <1>5, <1>7, <2>1
  <2>3. active_videos' = active_videos + 1
    BY <1>2, <1>7
  <2> QED
    BY <1>2, <1>3, <1>4, <1>6, <2>1, <2>2, <2>3 DEF Covered
<1>8. CASE key \notin Videos
  <2>1. key \in Images
    BY <1>8 DEF Keys
  <2>2. /\ Cardinality(QueuedIn(Images)') = Cardinality(QueuedIn(Images)) - 1
        /\ QueuedIn(Videos)' = QueuedIn(Videos)
    BY <1>5, <1>8, <2>1
  <2>3. active_videos' = active_videos
    BY <1>2, <1>6, <1>8
  <2> QED
    BY <1>2, <1>3, <1>4, <1>6, <2>2, <2>3 DEF Covered
<1> QED
  BY <1>7, <1>8

\* A worker only goes to sleep when no job could start.
LEMMA IdleIsCovered ==
    ASSUME Shape, Places, ~SomeRunnable
    PROVE  \/ TotalLimit <= active_jobs
           \/ QueuedIn(Images) = {} /\ (QueuedIn(Videos) = {} \/ VideoCap <= active_videos)
<1> SUFFICES ASSUME active_jobs < TotalLimit
             PROVE  /\ QueuedIn(Images) = {}
                    /\ QueuedIn(Videos) = {} \/ VideoCap <= active_videos
  BY Limits DEF Shape
<1>1. FirstAdmitted(high_queue) = 0 /\ FirstAdmitted(low_queue) = 0
  BY DEF SomeRunnable
<1>2. \A k : InHigh(k) \/ InLow(k) => ~Admitted(k)
  BY <1>1, FirstAdmittedFinds DEF Shape, InHigh, InLow
<1>3. \A k \in Keys : InHigh(k) \/ InLow(k) => k \in Videos /\ ~(active_videos < VideoCap)
  BY <1>2 DEF Admitted
<1>4. QueuedIn(Images) = {}
  BY <1>3, KeysAssumption DEF QueuedIn, Keys
<1>5. VideoCap <= active_videos \/ QueuedIn(Videos) = {}
  BY <1>3, Limits DEF QueuedIn, Keys, Shape
<1> QED
  BY <1>4, <1>5

LEMMA RousedNext ==
    ASSUME Shape, Places, Shape', Roused, [Next]_vars
    PROVE  Roused'
<1>0. /\ Threads' = Threads /\ concurrency' = concurrency
      /\ worker \in [Threads -> WorkerStates]
      /\ request \in [Requests -> {"new", "notifying", "accepted", "refused"}]
  BY ThreadsStay DEF Shape
<1>1. Sleeping' = {w \in Threads : worker'[w].at = "waiting"}
  BY <1>0 DEF Sleeping
<1>3. AwakeThreads' = {w \in Threads : worker'[w] = Awake}
  BY <1>0 DEF AwakeThreads
<1>2. /\ IsFiniteSet(AwakeThreads') /\ Cardinality(AwakeThreads') \in Nat
      /\ Wakeups \in Nat /\ Wakeups' \in Nat
  <2>1. AwakeThreads' \in SUBSET Threads /\ Notifying' \in SUBSET Requests
    BY <1>3 DEF Notifying
  <2>2. /\ IsFiniteSet(AwakeThreads') /\ Cardinality(AwakeThreads') \in Nat
        /\ IsFiniteSet(Notifying') /\ Cardinality(Notifying') \in Nat
    BY <2>1, Limits, FS_Subset, FS_CardinalityType
  <2> QED
    BY <2>2, Countable DEF Wakeups
<1>4. ASSUME Sleeping = {}, Wakes
      PROVE  Sleeping' = {}
  BY <1>1, <1>4, WorkerKinds DEF Sleeping, Wakes
<1>5. UNCHANGED <<queues, jobs>> =>
        QueuedIn(Images)' = QueuedIn(Images) /\ QueuedIn(Videos)' = QueuedIn(Videos)
  BY DEF QueuedIn, InHigh, InLow, queues
\* More workers awake, and as many notifications, are more wake-ups.
<1>6. ASSUME Wakes, Notifying' = Notifying
      PROVE  Wakeups <= Wakeups'
  <2>1. AwakeThreads \subseteq AwakeThreads'
    BY <1>3, <1>6, WorkerKinds DEF AwakeThreads, Wakes
  <2>2. Cardinality(AwakeThreads) <= Cardinality(AwakeThreads')
    BY <1>2, <2>1, FS_Subset
  <2> QED
    BY <1>2, <1>6, <2>2, Countable DEF Wakeups
<1>7. CASE EnterBulk \/ LeaveBulk
  BY <1>7 DEF EnterBulk, LeaveBulk, Roused
<1>8. CASE NotifyBulk
  <2>1. worker' = NotifyAll(worker)
    BY <1>8 DEF NotifyBulk
  <2>2. \A w \in Threads : worker'[w].at # "waiting"
    BY <1>0, <2>1, NotifyAllWakes, WorkerKinds
  <2> QED
    BY <1>1, <2>2 DEF Roused
<1>9. ASSUME NEW w \in Threads, NEW key \in Keys, Finish(w, key)
      PROVE  Roused'
  <2>1. /\ worker'[w] = Answering(jobs[key].waiters)
        /\ \A v \in Threads : v # w =>
             /\ worker[v].at = "waiting" => worker'[v] = Awake
             /\ worker[v].at # "waiting" => worker'[v] = worker[v]
    BY <1>9, FinishEffect
  <2>2. \A v \in Threads : worker'[v].at # "waiting"
    BY <2>1, WorkerKinds
  <2> QED
    BY <1>1, <2>2 DEF Roused
\* The steps that neither queue nor start a job.
<1>10. ASSUME Wakes, UNCHANGED <<queues, jobs>>, UNCHANGED <<counters, bulk>>,
              Wakeups <= Wakeups'
       PROVE  Roused'
  <2>1. Covered => Covered'
    BY <1>0, <1>2, <1>5, <1>10, CoveredStays
  <2> QED
    BY <1>4, <1>10, <2>1 DEF Roused
<1>11. ASSUME NEW r \in Requests, Refuses(r)
       PROVE  Roused'
  <2>1. Wakes
    BY <1>11, WakingSteps
  <2>2. Notifying' = Notifying
    BY <1>0, <1>11 DEF Refuses, Refuse, Notifying
  <2>3. UNCHANGED <<queues, jobs>> /\ UNCHANGED <<counters, bulk>>
    BY <1>11 DEF Refuses, Refuse
  <2> QED
    BY <1>6, <1>10, <2>1, <2>2, <2>3
<1>12. ASSUME NEW r \in Requests, NEW key \in Keys, NEW priority \in Priorities,
              JoinsJob(r, key, priority)
       PROVE  Roused'
  <2>1. Wakes
    BY <1>12, WakingSteps
  <2>2. Notifying' = Notifying
    BY <1>0, <1>12 DEF JoinsJob, Accepts, Notifying
  <2>3. /\ DOMAIN jobs' = DOMAIN jobs /\ UNCHANGED counters /\ UNCHANGED bulk
        /\ \A k \in Keys :
             /\ InHigh(k)' <=> InHigh(k) \/ (k = key /\ Raised(key, priority))
             /\ InLow(k)' <=> InLow(k) /\ ~(k = key /\ Raised(key, priority))
    <3>1. DOMAIN jobs' = DOMAIN jobs
      BY <1>12 DEF JoinsJob, Accepts
    <3> QED
      BY <1>12, <3>1 DEF JoinsJob, Accepts
  <2>4. \A k \in Keys : InHigh(k)' \/ InLow(k)' <=> InHigh(k) \/ InLow(k)
    BY <2>3 DEF Raised
  <2>5. QueuedIn(Images)' = QueuedIn(Images) /\ QueuedIn(Videos)' = QueuedIn(Videos)
    BY <2>3, <2>4 DEF QueuedIn, Keys
  <2>6. Covered => Covered'
    BY <1>0, <1>2, <1>6, <2>1, <2>2, <2>3, <2>5, CoveredStays
  <2> QED
    BY <1>4, <2>1, <2>3, <2>6 DEF Roused
<1>13. ASSUME NEW r \in Requests, NEW key \in Keys, NEW priority \in Priorities,
              MakesJob(r, key, priority)
       PROVE  Roused'
  <2>1. Wakes
    BY <1>13, WakingSteps
  <2>2. UNCHANGED bulk
    BY <1>13 DEF MakesJob, Accepts
  <2>3. Covered => Covered'
    BY <1>13, InsertIsCovered
  <2> QED
    BY <1>4, <2>1, <2>2, <2>3 DEF Roused
<1>14. ASSUME NEW w \in Threads, NEW key \in Keys, Takes(w, key)
       PROVE  Roused'
  <2>1. Covered => Covered'
    BY <1>14, TakeIsCovered
  <2>2. UNCHANGED bulk
    BY <1>14 DEF Takes, StartJob
  <2>3. Sleeping = {} => Sleeping' = {}
    <3>1. \A v \in Threads : worker'[v] = worker[v] \/ worker'[v] = Rendering(key)
      BY <1>0, <1>14 DEF Takes, StartJob
    <3> QED
      BY <1>1, <3>1, WorkerKinds DEF Sleeping
  <2> QED
    BY <2>1, <2>2, <2>3 DEF Roused
<1>15. ASSUME NEW r \in Requests, NotifyOne(r)
       PROVE  Roused'
  <2>1. Wakes /\ UNCHANGED <<queues, jobs>> /\ UNCHANGED <<counters, bulk>>
    BY <1>15, WakingSteps DEF NotifyOne
  <2>2. CASE Sleeping = {}
    BY <1>4, <2>1, <2>2 DEF Roused
  <2>3. CASE Sleeping # {}
    <3>1. PICK v \in Sleeping : worker' = [worker EXCEPT ![v] = Awake]
      BY <1>15, <2>3 DEF NotifyOne
    <3>2. v \in Threads /\ v \notin AwakeThreads
      BY <3>1, WorkerKinds DEF Sleeping, AwakeThreads
    <3>3. AwakeThreads' = AwakeThreads \cup {v}
      BY <1>0, <1>3, <3>1, <3>2 DEF AwakeThreads
    <3>4. Notifying' = Notifying \ {r} /\ r \in Notifying
      BY <1>0, <1>15 DEF NotifyOne, Notifying
    <3>5. /\ Cardinality(AwakeThreads \cup {v}) = Cardinality(AwakeThreads) + 1
          /\ Cardinality(Notifying \ {r}) = Cardinality(Notifying) - 1
      BY <3>2, <3>4, Countable, FS_AddElement, FS_RemoveElement
    <3>6. Wakeups' = Wakeups
      BY <3>3, <3>4, <3>5, Countable DEF Wakeups
    <3> QED
      BY <1>2, <1>10, <2>1, <3>6
  <2> QED
    BY <2>2, <2>3
<1>16. ASSUME NEW w \in Threads, WakeSpuriously(w)
       PROVE  Roused'
  <2>1. Wakes
    BY <1>16, WakingSteps
  <2>2. /\ UNCHANGED <<queues, jobs>> /\ UNCHANGED <<counters, bulk>>
        /\ UNCHANGED request
    BY <1>16 DEF WakeSpuriously
  <2>3. Notifying' = Notifying
    BY <2>2 DEF Notifying
  <2> QED
    BY <1>6, <1>10, <2>1, <2>2, <2>3
<1>17. ASSUME NEW w \in Threads, Answer(w)
       PROVE  Roused'
  <2>1. /\ UNCHANGED <<queues, jobs>> /\ UNCHANGED <<counters, bulk>>
        /\ UNCHANGED request
    BY <1>17 DEF Answer
  <2>2. /\ worker[w].at = "answering"
        /\ worker'[w].at # "waiting"
        /\ \A v \in Threads : v # w => worker'[v] = worker[v]
    BY <1>17, AnswerEffect, WorkerKinds
  <2>3. Sleeping = {} => Sleeping' = {}
    BY <1>1, <2>2 DEF Sleeping
  <2>4. AwakeThreads \subseteq AwakeThreads'
    BY <1>3, <2>2, WorkerKinds DEF AwakeThreads
  <2>6. Cardinality(AwakeThreads) <= Cardinality(AwakeThreads')
    BY <1>2, <2>4, FS_Subset
  <2>7. Notifying' = Notifying
    BY <2>1 DEF Notifying
  <2>8. Wakeups <= Wakeups'
    BY <1>2, <2>6, <2>7, Countable DEF Wakeups
  <2>9. Covered => Covered'
    BY <1>0, <1>2, <1>5, <2>1, <2>8, CoveredStays
  <2> QED
    BY <2>1, <2>3, <2>9 DEF Roused
<1>18. ASSUME NEW w \in Threads, Sleep(w)
       PROVE  Roused'
  <2>1. ~SomeRunnable /\ UNCHANGED <<queues, jobs>> /\ UNCHANGED <<counters, bulk>>
    BY <1>18 DEF Sleep
  <2>2. /\ active_jobs' = active_jobs /\ active_videos' = active_videos
        /\ TotalLimit' = TotalLimit /\ VideoCap' = VideoCap
        /\ QueuedIn(Images)' = QueuedIn(Images) /\ QueuedIn(Videos)' = QueuedIn(Videos)
    BY <1>0, <1>5, <2>1 DEF counters, TotalLimit, VideoCap
  <2>3. /\ TotalLimit \in Nat /\ VideoCap \in Nat
        /\ active_jobs \in Nat /\ active_videos \in Nat
    BY Limits DEF Shape
  <2>4. Cardinality({}) = 0
    BY FS_EmptySet
  <2>5. CASE TotalLimit <= active_jobs
    <3>1. TotalLimit <= active_jobs + Wakeups'
      <4>1. \A t, a, b \in Nat : t <= a => t <= a + b
        OBVIOUS
      <4> QED
        BY <1>2, <2>3, <2>5, <4>1
    <3> QED
      BY <2>2, <3>1 DEF Roused, Covered
  <2>6. CASE QueuedIn(Images) = {} /\ QueuedIn(Videos) = {}
    <3>1. /\ Cardinality(QueuedIn(Images)') = 0 /\ Cardinality(QueuedIn(Videos)') = 0
      BY <2>2, <2>4, <2>6
    <3> QED
      BY <1>2, <3>1 DEF Roused, Covered
  <2>7. CASE QueuedIn(Images) = {} /\ VideoCap <= active_videos
    <3>1. Cardinality(QueuedIn(Images)') = 0
      BY <2>2, <2>4, <2>7
    <3>2. 0 <= Wakeups' /\ 0 + VideoCap <= Wakeups' + active_videos
      <4>1. \A t, a, b \in Nat : t <= a => 0 <= b /\ 0 + t <= b + a
        OBVIOUS
      <4> QED
        BY <1>2, <2>3, <2>7, <4>1
    <3> QED
      BY <2>2, <3>1, <3>2 DEF Roused, Covered
  <2> QED
    BY <2>1, <2>5, <2>6, <2>7, IdleIsCovered
<1>19. CASE UNCHANGED vars
  <2>1. /\ Wakes /\ UNCHANGED <<queues, jobs>> /\ UNCHANGED <<counters, bulk>>
        /\ UNCHANGED request
    BY <1>19, WakingSteps DEF vars, queues, counters
  <2>2. Notifying' = Notifying
    BY <2>1 DEF Notifying
  <2> QED
    BY <1>6, <1>10, <2>1, <2>2
<1> QED
  BY <1>7, <1>8, <1>9, <1>11, <1>12, <1>13, <1>14, <1>15, <1>16, <1>17, <1>18,
     <1>19, StepKinds

-----------------------------------------------------------------------------
(* The invariant holds *)

LEMMA SchedulerInit ==
    ASSUME Init
    PROVE  SchedulerInv
<1>0. /\ concurrency \in Concurrencies
      /\ jobs = << >> /\ high_queue = << >> /\ low_queue = << >>
      /\ active_jobs = 0 /\ active_videos = 0 /\ bulk_scopes = 0
      /\ worker = [w \in Threads |-> Awake]
      /\ request = [r \in Requests |-> "new"]
      /\ results = [r \in Requests |-> 0]
      /\ bulk = "idle"
  BY DEF Init
<1>1. DOMAIN jobs = {} /\ jobs \in [DOMAIN jobs -> Job]
  <2>1. << >> \in Seq(Job) /\ Len(<< >>) = 0
    BY EmptySeq
  <2>2. << >> \in [1 .. 0 -> Job] /\ DOMAIN << >> = 1 .. 0
    BY <2>1, LenProperties
  <2>3. 1 .. 0 = {}
    OBVIOUS
  <2> QED
    BY <1>0, <2>2, <2>3
<1>2. /\ << >> \in Seq(Keys) /\ IsInjective(<< >>)
      /\ \A key : ~InHigh(key) /\ ~InLow(key)
  BY <1>0, EmptyQueue DEF InHigh, InLow
<1>3. /\ worker \in [Threads -> WorkerStates]
      /\ \A w \in Threads : worker[w] = Awake /\ worker[w].at = "awake"
  BY <1>0, WorkerStatesHold, WorkerKinds
<1>4. Shape
  <2>1. IsFiniteSet(DOMAIN jobs) /\ Cardinality(DOMAIN jobs) <= MaxPending
    BY <1>1, FS_EmptySet, BoundsAssumption
  <2> QED
    BY <1>0, <1>1, <1>2, <1>3, <2>1 DEF Shape
<1>5. Places
  <2>1. \A w \in Threads, key \in Keys : ~Renders(w, key)
    BY <1>3, WorkerKinds DEF Renders
  <2> QED
    BY <1>0, <1>1, <1>2, <2>1 DEF Places
<1>6. Counted
  <2>1. Renderings = {}
    BY <1>3 DEF Renderings
  <2>2. VideoRenderings = {}
    BY <1>3, WorkerKinds DEF VideoRenderings
  <2> QED
    BY <1>0, <2>1, <2>2, FS_EmptySet DEF Counted
<1>7. Sorted
  BY <1>1 DEF Sorted
<1>8. Callers
  <2>1. \A r \in Requests, key \in Keys, i \in 1 .. MaxWaiters : ~HeldByJob(r, key, i)
    BY <1>1 DEF HeldByJob
  <2>2. \A r \in Requests, w \in Threads, i \in 1 .. MaxWaiters : ~HeldByWorker(r, w, i)
    BY <1>3 DEF HeldByWorker
  <2> QED
    BY <1>0, <2>1, <2>2 DEF Callers, HeldOnce, Held, Pending
<1>9. Roused
  BY <1>3 DEF Roused, Sleeping
<1> QED
  BY <1>4, <1>5, <1>6, <1>7, <1>8, <1>9 DEF SchedulerInv

LEMMA SchedulerNext ==
    ASSUME SchedulerInv, [Next]_vars
    PROVE  SchedulerInv'
<1>1. Shape'
  BY ShapeNext DEF SchedulerInv
<1>2. Places' /\ Counted' /\ Sorted' /\ Callers'
  BY PlacesNext, CountedNext, SortedNext, CallersNext DEF SchedulerInv
<1>3. Roused'
  BY <1>1, RousedNext DEF SchedulerInv
<1> QED
  BY <1>1, <1>2, <1>3 DEF SchedulerInv

THEOREM SchedulerInvariant == Spec => []SchedulerInv
<1>1. Init => SchedulerInv
  BY SchedulerInit
<1>2. SchedulerInv /\ [Next]_vars => SchedulerInv'
  BY SchedulerNext
<1> QED
  BY <1>1, <1>2, PTL DEF Spec

-----------------------------------------------------------------------------
(* What it means *)

LEMMA ShapeIsTyped ==
    ASSUME SchedulerInv
    PROVE  TypeOK
<1>1. ASSUME NEW key \in DOMAIN jobs
      PROVE  /\ jobs[key].priority \in Priorities
             /\ jobs[key].waiters \in BoundedSeq(Requests, MaxWaiters)
  BY DEF SchedulerInv, Shape, Job, WaiterList
<1> QED
  BY <1>1 DEF SchedulerInv, Shape, TypeOK

\* What is in one place counts once.
LEMMA OnePlaceEach ==
    ASSUME SchedulerInv
    PROVE  EveryJobHasOnePlace
<1>1. /\ Shape /\ Places /\ Counted
      /\ DOMAIN high_queue = 1 .. Len(high_queue)
      /\ DOMAIN low_queue = 1 .. Len(low_queue)
  BY LenProperties DEF SchedulerInv, Shape
<1>2. Cardinality({}) = 0 /\ \A x : Cardinality({x}) = 1
  BY FS_EmptySet, FS_Singleton
<1>3. ASSUME NEW key \in Keys
      PROVE  Cardinality(QueuedAt(high_queue, key)) + Cardinality(QueuedAt(low_queue, key))
               + Cardinality(Renderers(key)) = (IF key \in DOMAIN jobs THEN 1 ELSE 0)
  <2>1. /\ InHigh(key) => Cardinality(QueuedAt(high_queue, key)) = 1
        /\ ~InHigh(key) => Cardinality(QueuedAt(high_queue, key)) = 0
    <3>1. ASSUME InHigh(key)
          PROVE  Cardinality(QueuedAt(high_queue, key)) = 1
      <4>1. PICK i \in 1 .. Len(high_queue) : high_queue[i] = key
        BY <3>1 DEF InHigh, Contains
      <4>2. QueuedAt(high_queue, key) = {i}
        BY <1>1, <4>1 DEF QueuedAt, Places, IsInjective
      <4> QED
        BY <1>2, <4>2
    <3>2. ASSUME ~InHigh(key)
          PROVE  Cardinality(QueuedAt(high_queue, key)) = 0
      <4>1. QueuedAt(high_queue, key) = {}
        BY <3>2 DEF InHigh, Contains, QueuedAt
      <4> QED
        BY <1>2, <4>1
    <3> QED
      BY <3>1, <3>2
  <2>2. /\ InLow(key) => Cardinality(QueuedAt(low_queue, key)) = 1
        /\ ~InLow(key) => Cardinality(QueuedAt(low_queue, key)) = 0
    <3>1. ASSUME InLow(key)
          PROVE  Cardinality(QueuedAt(low_queue, key)) = 1
      <4>1. PICK i \in 1 .. Len(low_queue) : low_queue[i] = key
        BY <3>1 DEF InLow, Contains
      <4>2. QueuedAt(low_queue, key) = {i}
        BY <1>1, <4>1 DEF QueuedAt, Places, IsInjective
      <4> QED
        BY <1>2, <4>2
    <3>2. ASSUME ~InLow(key)
          PROVE  Cardinality(QueuedAt(low_queue, key)) = 0
      <4>1. QueuedAt(low_queue, key) = {}
        BY <3>2 DEF InLow, Contains, QueuedAt
      <4> QED
        BY <1>2, <4>1
    <3> QED
      BY <3>1, <3>2
  <2>3. CASE \E w \in Threads : Renders(w, key)
    <3>1. PICK w \in Threads : Renders(w, key)
      BY <2>3
    <3>2. Renderers(key) = {w} /\ key \in DOMAIN jobs /\ ~InHigh(key) /\ ~InLow(key)
      BY <1>1, <3>1 DEF Places, Renderers, Renders
    <3>3. Cardinality(Renderers(key)) = 1
      BY <1>2, <3>2
    <3> QED
      BY <2>1, <2>2, <3>2, <3>3
  <2>4. CASE ~\E w \in Threads : Renders(w, key)
    <3>1. Renderers(key) = {}
      BY <2>4 DEF Renderers, Renders
    <3>2. /\ key \in DOMAIN jobs <=> InHigh(key) \/ InLow(key)
          /\ ~(InHigh(key) /\ InLow(key))
      BY <1>1, <2>4 DEF Places
    <3>3. Cardinality(Renderers(key)) = 0
      BY <1>2, <3>1
    <3>4. CASE InHigh(key)
      BY <2>1, <2>2, <3>2, <3>3, <3>4
    <3>5. CASE ~InHigh(key)
      BY <2>1, <2>2, <3>2, <3>3, <3>5
    <3> QED
      BY <3>4, <3>5
  <2> QED
    BY <2>3, <2>4
<1> QED
  BY <1>1, <1>3 DEF EveryJobHasOnePlace, Counted, Renderings, VideoRenderings

LEMMA OneAnswerEach ==
    ASSUME SchedulerInv
    PROVE  EveryCallerIsAnsweredOnce
<1>1. Shape /\ Callers
  BY DEF SchedulerInv
<1>2. DOMAIN jobs \subseteq Keys
  BY <1>1 DEF Shape
<1>3. Cardinality({}) = 0 /\ \A x : Cardinality({x}) = 1
  BY FS_EmptySet, FS_Singleton
<1> SUFFICES ASSUME NEW r \in Requests
             PROVE  results[r] + Cardinality(Entries(r)) =
                      (IF request[r] \in {"new", "refused"} THEN 0 ELSE 1)
  BY DEF EveryCallerIsAnsweredOnce
<1>4. ASSUME NEW entry \in Entries(r)
      PROVE  \E i \in 1 .. MaxWaiters :
               \/ \E key \in Keys : entry = <<<<"job", key>>, i>> /\ HeldByJob(r, key, i)
               \/ \E w \in Threads : entry = <<<<"worker", w>>, i>> /\ HeldByWorker(r, w, i)
  <2>1. PICK list \in WaiterLists, i \in 1 .. MaxWaiters :
           entry = <<list, i>> /\ i <= Len(Listed(list)) /\ Listed(list)[i] = r
    BY DEF Entries
  <2>2. CASE \E key \in DOMAIN jobs : list = <<"job", key>>
    <3>1. PICK key \in DOMAIN jobs : list = <<"job", key>>
      BY <2>2
    <3>2. Listed(list) = jobs[key].waiters
      BY <3>1 DEF Listed
    <3>3. Len(jobs[key].waiters) \in Nat
      BY <1>1, WaiterListsAre, LenProperties DEF Shape, Job
    <3>4. HeldByJob(r, key, i)
      BY <2>1, <3>2, <3>3, BoundsAssumption DEF HeldByJob
    <3> QED
      BY <1>2, <2>1, <3>1, <3>4
  <2>3. CASE \E w \in Threads : worker[w].at = "answering" /\ list = <<"worker", w>>
    <3>1. PICK w \in Threads : worker[w].at = "answering" /\ list = <<"worker", w>>
      BY <2>3
    <3>2. Listed(list) = worker[w].waiters
      BY <3>1 DEF Listed
    <3>3. Len(worker[w].waiters) \in Nat
      <4>1. worker[w].waiters \in WaiterList
        BY <1>1, <3>1, WorkerCases DEF Shape
      <4> QED
        BY <4>1, WaiterListsAre, LenProperties
    <3>4. HeldByWorker(r, w, i)
      BY <2>1, <3>1, <3>2, <3>3, BoundsAssumption DEF HeldByWorker
    <3> QED
      BY <2>1, <3>1, <3>4
  <2> QED
    BY <2>2, <2>3 DEF WaiterLists
<1>5. ASSUME NEW key \in Keys, NEW i \in 1 .. MaxWaiters, HeldByJob(r, key, i)
      PROVE  <<<<"job", key>>, i>> \in Entries(r)
  <2> DEFINE list == <<"job", key>>
  <2>1. list \in WaiterLists /\ Listed(list) = jobs[key].waiters
    BY <1>5 DEF WaiterLists, Listed, HeldByJob
  <2>2. i <= Len(jobs[key].waiters) /\ jobs[key].waiters[i] = r
    BY <1>5, BoundsAssumption DEF HeldByJob
  <2> HIDE DEF list
  <2>3. <<list, i>> \in Entries(r)
    BY <2>1, <2>2 DEF Entries
  <2> QED
    BY <2>3 DEF list
<1>6. ASSUME NEW w \in Threads, NEW i \in 1 .. MaxWaiters, HeldByWorker(r, w, i)
      PROVE  <<<<"worker", w>>, i>> \in Entries(r)
  <2> DEFINE list == <<"worker", w>>
  <2>1. list \in WaiterLists /\ Listed(list) = worker[w].waiters
    BY <1>6 DEF WaiterLists, Listed, HeldByWorker
  <2>2. i <= Len(worker[w].waiters) /\ worker[w].waiters[i] = r
    BY <1>6, BoundsAssumption DEF HeldByWorker
  <2> HIDE DEF list
  <2>3. <<list, i>> \in Entries(r)
    BY <2>1, <2>2 DEF Entries
  <2> QED
    BY <2>3 DEF list
<1>7. Held(r) <=> Entries(r) # {}
  BY <1>4, <1>5, <1>6 DEF Held
<1>8. \A e, f \in Entries(r) : e = f
  <2>1. HeldOnce(r)
    BY <1>1 DEF Callers
  <2> SUFFICES ASSUME NEW e \in Entries(r), NEW f \in Entries(r)
               PROVE  e = f
    OBVIOUS
  <2>2. PICK i \in 1 .. MaxWaiters :
           \/ \E key \in Keys : e = <<<<"job", key>>, i>> /\ HeldByJob(r, key, i)
           \/ \E w \in Threads : e = <<<<"worker", w>>, i>> /\ HeldByWorker(r, w, i)
    BY <1>4
  <2>3. PICK j \in 1 .. MaxWaiters :
           \/ \E key \in Keys : f = <<<<"job", key>>, j>> /\ HeldByJob(r, key, j)
           \/ \E w \in Threads : f = <<<<"worker", w>>, j>> /\ HeldByWorker(r, w, j)
    BY <1>4
  <2> QED
    BY <2>1, <2>2, <2>3 DEF HeldOnce
<1>9. CASE Held(r)
  <2>1. PICK e : Entries(r) = {e}
    BY <1>7, <1>8, <1>9
  <2>2. Cardinality(Entries(r)) = 1
    BY <1>3, <2>1
  <2>3. Pending(r) /\ results[r] = 0
    BY <1>1, <1>9 DEF Callers
  <2> QED
    BY <2>2, <2>3 DEF Pending
<1>10. CASE ~Held(r)
  <2>1. Cardinality(Entries(r)) = 0
    BY <1>3, <1>7, <1>10
  <2>2. /\ Pending(r) => results[r] = 1
        /\ ~Pending(r) => results[r] = 0
    BY <1>1, <1>10 DEF Callers
  <2>3. Pending(r) <=> request[r] \notin {"new", "refused"}
    BY <1>1 DEF Shape, Pending
  <2> QED
    BY <2>1, <2>2, <2>3
<1> QED
  BY <1>9, <1>10

\* When a job could start, a wake-up covers it.
LEMMA WakeupsSuffice ==
    ASSUME SchedulerInv
    PROVE  NoLostWakeup
<1> SUFFICES ASSUME SomeRunnable, Sleeping # {},
                    ~\E w \in Threads : worker[w] = Awake,
                    ~\E r \in Requests : request[r] = "notifying",
                    bulk \notin {"entering", "leaving"}
             PROVE  FALSE
  BY DEF NoLostWakeup
<1>1. Shape /\ Places /\ Covered
  BY DEF SchedulerInv, Roused
<1>2. Wakeups = 0
  <2>1. AwakeThreads = {} /\ Notifying = {}
    BY DEF AwakeThreads, Notifying
  <2> QED
    BY <2>1, FS_EmptySet DEF Wakeups
<1>3. active_jobs < TotalLimit
  BY DEF SomeRunnable
<1>4. PICK key \in Keys : (InHigh(key) \/ InLow(key)) /\ Admitted(key)
  <2>1. high_queue \in Seq(Keys) /\ low_queue \in Seq(Keys)
    BY <1>1 DEF Shape
  <2>2. PICK queue \in {high_queue, low_queue} : FirstAdmitted(queue) # 0
    BY DEF SomeRunnable
  <2> DEFINE i == FirstAdmitted(queue)
  <2>3. i \in 1 .. Len(queue) /\ Admitted(queue[i]) /\ Contains(queue, queue[i])
    BY <2>1, <2>2, FirstAdmittedFinds
  <2>4. queue[i] \in Keys
    BY <2>1, <2>3, ElementOfSeq
  <2> HIDE DEF i
  <2> QED
    BY <2>3, <2>4 DEF InHigh, InLow
<1>5. key \in DOMAIN jobs
  BY <1>1, <1>4 DEF Places
<1>6. /\ \A kind : IsFiniteSet(QueuedIn(kind)) /\ Cardinality(QueuedIn(kind)) \in Nat
      /\ TotalLimit \in Nat /\ VideoCap \in Nat
      /\ active_jobs \in Nat /\ active_videos \in Nat
  BY <1>1, Countable, Limits DEF Shape
<1>7. \A kind : key \in kind => Cardinality(QueuedIn(kind)) # 0
  <2>1. \A kind : key \in kind => QueuedIn(kind) # {}
    BY <1>4, <1>5 DEF QueuedIn
  <2> QED
    BY <1>6, <2>1, FS_EmptySet
<1>8. CASE key \in Videos
  <2>1. active_videos < VideoCap
    BY <1>4, <1>8 DEF Admitted
  <2> QED
    BY <1>1, <1>2, <1>3, <1>6, <1>7, <1>8, <2>1 DEF Covered
<1>9. CASE key \notin Videos
  <2>1. key \in Images
    BY <1>9 DEF Keys
  <2> QED
    BY <1>1, <1>2, <1>3, <1>6, <1>7, <2>1 DEF Covered
<1> QED
  BY <1>8, <1>9

(* Nothing in the scheduler is lost or doubled: a queued key stands in one *)
(* queue once, a running one with one worker, the counters count the       *)
(* workers that render, no list or map outgrows its limit, and a caller    *)
(* gets one result if it was accepted and none if it was refused.          *)
THEOREM WorkAlwaysAccountedFor == Spec => []WorkIsAccountedFor
<1>1. SchedulerInv => WorkIsAccountedFor
  BY ShapeIsTyped, OnePlaceEach, OneAnswerEach DEF WorkIsAccountedFor
<1> QED
  BY <1>1, SchedulerInvariant, PTL

(* Whenever a queued job may start, some worker is about to look for it,   *)
(* somebody is about to notify, or no worker sleeps: notify_one after the  *)
(* mutex, spurious wake-ups and changing limits lose none.                 *)
THEOREM WakeupsAreNeverLost == Spec => []NoLostWakeup
<1>1. SchedulerInv => NoLostWakeup
  BY WakeupsSuffice
<1> QED
  BY <1>1, SchedulerInvariant, PTL

(* A worker starts a low-priority job only when no queued high-priority    *)
(* job may start, a job raised after it was queued included.               *)
THEOREM HighPriorityAlwaysFirst == Spec => HighPriorityFirst
<1> DEFINE InOrder ==
      \A key \in Keys :
         (Renderers(key) = {} /\ Renderers(key)' # {} /\ jobs[key].priority = "Low")
           => ~ \E other \in DOMAIN jobs :
                  /\ Queued(other)
                  /\ jobs[other].priority = "High"
                  /\ Admitted(other)
<1>1. ASSUME SchedulerInv, [Next]_vars, NEW key \in Keys,
             Renderers(key) = {}, Renderers(key)' # {}, jobs[key].priority = "Low",
             NEW other \in DOMAIN jobs, Queued(other),
             jobs[other].priority = "High", Admitted(other)
      PROVE  FALSE
  <2>1. /\ Shape /\ Places /\ Sorted /\ Threads' = Threads
        /\ worker \in [Threads -> WorkerStates] /\ other \in Keys
    BY <1>1, ThreadsStay DEF SchedulerInv, Shape
  <2>2. InHigh(other)
    <3>1. InHigh(other) \/ InLow(other)
      BY <1>1 DEF Queued, InHigh, InLow
    <3> QED
      BY <1>1, <2>1, <3>1 DEF Sorted
  <2>3. PICK u \in Threads : worker[u] # Rendering(key) /\ worker'[u] = Rendering(key)
    BY <1>1, <2>1 DEF Renderers
  <2>4. ~SameRenders
    BY <2>3 DEF SameRenders, Renders
  <2>5. ASSUME NEW w \in Threads, NEW k \in Keys, Finish(w, k)
        PROVE  FALSE
    <3>1. /\ worker'[w] = Answering(jobs[k].waiters)
          /\ \A v \in Threads : v # w =>
               /\ worker[v].at = "waiting" => worker'[v] = Awake
               /\ worker[v].at # "waiting" => worker'[v] = worker[v]
      BY <2>1, <2>5, FinishEffect
    <3> QED
      BY <2>3, <3>1, WorkerKinds
  <2>6. PICK w \in Threads, k \in Keys : Takes(w, k)
    BY <1>1, <2>1, <2>4, <2>5, StepKinds, WakingSteps, WakesChangeLittle,
       SleepChangesLittle, AnswerEffect
  <2>7. k = key
    <3>1. \A v \in Threads : worker'[v] = worker[v] \/ worker'[v] = Rendering(k)
      BY <2>1, <2>6 DEF Takes, StartJob
    <3> QED
      BY <2>3, <3>1, WorkerKinds
  <2>8. key \in DOMAIN jobs /\ ~InHigh(key)
    <3>1. InHigh(key) \/ InLow(key)
      BY <2>6, <2>7 DEF Takes
    <3> QED
      BY <1>1, <2>1, <3>1 DEF Places, Sorted
  <2> QED
    BY <1>1, <2>1, <2>2, <2>6, <2>7, <2>8 DEF Takes
<1>2. SchedulerInv /\ [Next]_vars => [InOrder]_vars
  BY <1>1
<1> HIDE DEF InOrder
<1>3. Spec => [][InOrder]_vars
  BY <1>2, SchedulerInvariant, PTL DEF Spec
<1> QED
  BY <1>3 DEF HighPriorityFirst, InOrder
=============================================================================
