--------------------------- MODULE ThumbScheduler ---------------------------
(***************************************************************************)
(* The thumbnail scheduler: one mutex over the pending jobs, two queues    *)
(* and the admission counters; one condition variable; a fixed pool of     *)
(* worker threads; callers that enqueue a task and wait on a channel; and  *)
(* the bulk renderer, which widens admission while it is in its scope.     *)
(*                                                                         *)
(* A step is what one thread does under one hold of the mutex.  What the   *)
(* code does after it lets the mutex go (notify_one, notify_all, the sends *)
(* to the waiters) is a step of its own, because other threads run between *)
(* the two.  A lost wake-up is therefore a reachable state if the code     *)
(* allows one.                                                             *)
(*                                                                         *)
(* A job is known by its key, the path of the thumbnail it renders.  What  *)
(* is rendered, and whether it succeeds or panics (both end in one result  *)
(* for every waiter), is left out.  A caller that stops waiting            *)
(* (DEMAND_JOB_TIMEOUT, RESULT_STALL_TIMEOUT, a cancelled bulk render)     *)
(* leaves its waiter in the job and changes nothing here.                  *)
(***************************************************************************)
EXTENDS Naturals, FiniteSets, SequencesExt

CONSTANTS
    Videos,          \* the keys of video thumbnails
    Images,          \* the keys of image thumbnails
    NumRequests,     \* bound: how many calls of enqueue there are
    Concurrencies,   \* the pairs [browsing, bulk] the host may give
    VideoLimit,      \* videos rendered at once while browsing (2)
    MaxPending,      \* MAX_PENDING_JOBS
    MaxWaiters       \* MAX_WAITERS_PER_JOB

ASSUME BoundsAssumption ==
    /\ NumRequests \in Nat \ {0}
    /\ VideoLimit \in Nat \ {0}
    /\ MaxPending \in Nat \ {0}
    /\ MaxWaiters \in Nat \ {0}
ASSUME KeysAssumption == Videos \cap Images = {}
ASSUME ConcurrenciesAssumption ==
    Concurrencies \subseteq [browsing : Nat \ {0}, bulk : Nat \ {0}]

VARIABLES
    concurrency,    \* ThumbnailConcurrency, fixed when the scheduler is made
    jobs,           \* queued and running jobs: key -> [priority, waiters]
    high_queue,     \* keys in the order they will be looked at
    low_queue,
    active_jobs,    \* the admission counters
    active_videos,
    bulk_scopes,
    worker,         \* what each worker thread is doing
    request,        \* where each call of enqueue stands
    results,        \* how many results were sent to each caller
    bulk            \* where the one bulk renderer stands

vars == <<concurrency, jobs, high_queue, low_queue, active_jobs, active_videos,
          bulk_scopes, worker, request, results, bulk>>
queues == <<high_queue, low_queue>>
counters == <<active_jobs, active_videos, bulk_scopes>>

Keys == Videos \cup Images
Priorities == {"High", "Low"}
Requests == 1 .. NumRequests      \* numbered in the order they take the mutex
Threads ==
    1 .. (IF concurrency.browsing > concurrency.bulk
          THEN concurrency.browsing ELSE concurrency.bulk)

-----------------------------------------------------------------------------
(* Worker threads *)

Awake == [at |-> "awake"]                    \* about to take the mutex
Waiting == [at |-> "waiting"]                \* in condvar.wait
Rendering(key) == [at |-> "rendering", key |-> key]
Answering(waiters) == [at |-> "answering", waiters |-> waiters]

Sleeping == {w \in Threads : worker[w].at = "waiting"}
Renderers(key) == {w \in Threads : worker[w] = Rendering(key)}

NotifyAll(workers) ==
    [w \in Threads |-> IF workers[w].at = "waiting" THEN Awake ELSE workers[w]]

-----------------------------------------------------------------------------
(* Admission *)

TotalLimit == IF bulk_scopes > 0 THEN concurrency.bulk ELSE concurrency.browsing
VideoCap == IF bulk_scopes > 0 THEN concurrency.bulk ELSE VideoLimit

Admitted(key) == key \in Videos => active_videos < VideoCap

(* The position pop_runnable_key stops at in a queue, 0 for none. *)
FirstAdmitted(queue) == SelectInSeq(queue, Admitted)

SomeRunnable ==
    /\ active_jobs < TotalLimit
    /\ \E queue \in {high_queue, low_queue} : FirstAdmitted(queue) # 0

-----------------------------------------------------------------------------
Init ==
    /\ concurrency \in Concurrencies
    /\ jobs = << >>
    /\ high_queue = << >> /\ low_queue = << >>
    /\ active_jobs = 0 /\ active_videos = 0 /\ bulk_scopes = 0
    /\ worker = [w \in Threads |-> Awake]
    /\ request = [r \in Requests |-> "new"]
    /\ results = [r \in Requests |-> 0]
    /\ bulk = "idle"

-----------------------------------------------------------------------------
(* Enqueueing *)

IsNext(r) ==
    /\ request[r] = "new"
    /\ \A q \in 1 .. r - 1 : request[q] # "new"

Refuse(r) ==
    /\ request' = [request EXCEPT ![r] = "refused"]
    /\ UNCHANGED <<concurrency, jobs, queues, counters, worker, results, bulk>>

(* The queue is full, which only a new key finds out. *)
RefuseJob(r, key) ==
    /\ IsNext(r)
    /\ key \notin DOMAIN jobs
    /\ Cardinality(DOMAIN jobs) >= MaxPending
    /\ Refuse(r)

RefuseWaiter(r, key) ==
    /\ IsNext(r)
    /\ key \in DOMAIN jobs
    /\ Len(jobs[key].waiters) >= MaxWaiters
    /\ Refuse(r)

(* A caller joins a queued or a running job.  A high-priority caller       *)
(* raises the job, and moves its key if it still waits in the low queue.   *)
Promotes(key, priority) == priority = "High" /\ jobs[key].priority = "Low"

\* Mutant of Join: a raised key is put in the high queue and stays in the low one.
JoinTwice(r, key, priority) ==
    /\ IsNext(r)
    /\ key \in DOMAIN jobs
    /\ Len(jobs[key].waiters) < MaxWaiters
    /\ IF Promotes(key, priority) /\ Contains(low_queue, key)
       THEN high_queue' = Append(high_queue, key) /\ UNCHANGED low_queue
       ELSE UNCHANGED queues
    /\ jobs' = [jobs EXCEPT
                  ![key].priority = IF Promotes(key, priority) THEN "High" ELSE @,
                  ![key].waiters = Append(@, r)]
    /\ request' = [request EXCEPT ![r] = "accepted"]
    /\ UNCHANGED <<concurrency, counters, worker, results, bulk>>

\* Mutant of Join: the job is raised, its key stays where it is.
JoinInPlace(r, key, priority) ==
    /\ IsNext(r)
    /\ key \in DOMAIN jobs
    /\ Len(jobs[key].waiters) < MaxWaiters
    /\ jobs' = [jobs EXCEPT
                  ![key].priority = IF Promotes(key, priority) THEN "High" ELSE @,
                  ![key].waiters = Append(@, r)]
    /\ request' = [request EXCEPT ![r] = "accepted"]
    /\ UNCHANGED <<concurrency, queues, counters, worker, results, bulk>>

Join(r, key, priority) ==
    /\ IsNext(r)
    /\ key \in DOMAIN jobs
    /\ Len(jobs[key].waiters) < MaxWaiters
    /\ IF Promotes(key, priority) /\ Contains(low_queue, key)
       THEN /\ low_queue' = RemoveFirst(low_queue, key)
            /\ high_queue' = Append(high_queue, key)
       ELSE UNCHANGED queues
    /\ jobs' = [jobs EXCEPT
                  ![key].priority = IF Promotes(key, priority) THEN "High" ELSE @,
                  ![key].waiters = Append(@, r)]
    /\ request' = [request EXCEPT ![r] = "accepted"]
    /\ UNCHANGED <<concurrency, counters, worker, results, bulk>>

\* Mutant of Insert: one job too many.
InsertOneMore(r, key, priority) ==
    /\ IsNext(r)
    /\ key \notin DOMAIN jobs
    /\ Cardinality(DOMAIN jobs) <= MaxPending
    /\ jobs' = [k \in DOMAIN jobs \cup {key} |->
                  IF k = key THEN [priority |-> priority, waiters |-> <<r>>]
                  ELSE jobs[k]]
    /\ IF priority = "High"
       THEN high_queue' = Append(high_queue, key) /\ UNCHANGED low_queue
       ELSE low_queue' = Append(low_queue, key) /\ UNCHANGED high_queue
    /\ request' = [request EXCEPT ![r] = "notifying"]
    /\ UNCHANGED <<concurrency, counters, worker, results, bulk>>

Insert(r, key, priority) ==
    /\ IsNext(r)
    /\ key \notin DOMAIN jobs
    /\ Cardinality(DOMAIN jobs) < MaxPending
    /\ jobs' = [k \in DOMAIN jobs \cup {key} |->
                  IF k = key THEN [priority |-> priority, waiters |-> <<r>>]
                  ELSE jobs[k]]
    /\ IF priority = "High"
       THEN high_queue' = Append(high_queue, key) /\ UNCHANGED low_queue
       ELSE low_queue' = Append(low_queue, key) /\ UNCHANGED high_queue
    /\ request' = [request EXCEPT ![r] = "notifying"]
    /\ UNCHANGED <<concurrency, counters, worker, results, bulk>>

\* Mutant of NotifyOne: the caller forgets to notify.
NotifyNobody(r) ==
    /\ request[r] = "notifying"
    /\ request' = [request EXCEPT ![r] = "accepted"]
    /\ UNCHANGED <<concurrency, jobs, queues, counters, worker, results, bulk>>

(* notify_one, after the mutex is released: it is lost when nobody sleeps. *)
NotifyOne(r) ==
    /\ request[r] = "notifying"
    /\ IF Sleeping = {} THEN UNCHANGED worker
       ELSE \E w \in Sleeping : worker' = [worker EXCEPT ![w] = Awake]
    /\ request' = [request EXCEPT ![r] = "accepted"]
    /\ UNCHANGED <<concurrency, jobs, queues, counters, results, bulk>>

-----------------------------------------------------------------------------
(* worker_loop *)

(* pop_runnable_key found a key.  A queued key always has a job            *)
(* (EveryJobHasOnePlace), so the loop's `continue` is never taken.         *)
StartJob(w, key) ==
    /\ active_videos' = active_videos + (IF key \in Videos THEN 1 ELSE 0)
    /\ active_jobs' = active_jobs + 1
    /\ worker' = [worker EXCEPT ![w] = Rendering(key)]
    /\ UNCHANGED <<concurrency, jobs, bulk_scopes, request, results, bulk>>

TakeHigh(w) ==
    LET i == FirstAdmitted(high_queue) IN
    /\ worker[w] = Awake
    /\ active_jobs < TotalLimit
    /\ i # 0
    /\ high_queue' = RemoveAt(high_queue, i)
    /\ UNCHANGED low_queue
    /\ StartJob(w, high_queue[i])

TakeLow(w) ==
    LET i == FirstAdmitted(low_queue) IN
    /\ worker[w] = Awake
    /\ active_jobs < TotalLimit
    /\ FirstAdmitted(high_queue) = 0
    /\ i # 0
    /\ low_queue' = RemoveAt(low_queue, i)
    /\ UNCHANGED high_queue
    /\ StartJob(w, low_queue[i])

Sleep(w) ==
    /\ worker[w] = Awake
    /\ ~SomeRunnable
    /\ worker' = [worker EXCEPT ![w] = Waiting]
    /\ UNCHANGED <<concurrency, jobs, queues, counters, request, results, bulk>>

(* A condition variable may wake a thread that nobody notified. *)
WakeSpuriously(w) ==
    /\ worker[w] = Waiting
    /\ worker' = [worker EXCEPT ![w] = Awake]
    /\ UNCHANGED <<concurrency, jobs, queues, counters, request, results, bulk>>

\* Mutant of Finish: only the caller that made the job is answered.
FinishForFirst(w, key) ==
    /\ worker[w] = Rendering(key)
    /\ active_videos' = active_videos -
         (IF key \in Videos /\ active_videos > 0 THEN 1 ELSE 0)
    /\ active_jobs' = active_jobs - 1
    /\ jobs' = [k \in DOMAIN jobs \ {key} |-> jobs[k]]
    /\ worker' = NotifyAll(
         [worker EXCEPT ![w] = Answering(<<Head(jobs[key].waiters)>>)])
    /\ UNCHANGED <<concurrency, queues, bulk_scopes, request, results, bulk>>

(* The render ended, or panicked: the job leaves the map with its waiters, *)
(* and every sleeping worker is woken before the mutex is released.        *)
Finish(w, key) ==
    /\ worker[w] = Rendering(key)
    /\ active_videos' = active_videos -
         (IF key \in Videos /\ active_videos > 0 THEN 1 ELSE 0)
    /\ active_jobs' = active_jobs - 1
    /\ jobs' = [k \in DOMAIN jobs \ {key} |-> jobs[k]]
    /\ worker' = NotifyAll([worker EXCEPT ![w] = Answering(jobs[key].waiters)])
    /\ UNCHANGED <<concurrency, queues, bulk_scopes, request, results, bulk>>

(* One send, outside the mutex; the thread loops after the last. *)
Answer(w) ==
    /\ worker[w].at = "answering"
    /\ LET waiters == worker[w].waiters IN
       /\ results' = [results EXCEPT ![Head(waiters)] = @ + 1]
       /\ worker' = [worker EXCEPT
             ![w] = IF Len(waiters) = 1 THEN Awake ELSE Answering(Tail(waiters))]
    /\ UNCHANGED <<concurrency, jobs, queues, counters, request, bulk>>

-----------------------------------------------------------------------------
(* The bulk scope: thumbnail_render_all_running lets one renderer in. *)

EnterBulk ==
    /\ bulk = "idle"
    /\ bulk_scopes' = bulk_scopes + 1
    /\ bulk' = "entering"
    /\ UNCHANGED <<concurrency, jobs, queues, active_jobs, active_videos,
                   worker, request, results>>

LeaveBulk ==
    /\ bulk = "inside"
    /\ bulk_scopes' = bulk_scopes - 1
    /\ bulk' = "leaving"
    /\ UNCHANGED <<concurrency, jobs, queues, active_jobs, active_videos,
                   worker, request, results>>

\* Mutant of NotifyBulk: the sleeping workers are not told that the limits changed.
NotifyNoWorker ==
    /\ bulk \in {"entering", "leaving"}
    /\ bulk' = IF bulk = "entering" THEN "inside" ELSE "idle"
    /\ UNCHANGED <<concurrency, jobs, queues, counters, worker, request, results>>

NotifyBulk ==
    /\ bulk \in {"entering", "leaving"}
    /\ bulk' = IF bulk = "entering" THEN "inside" ELSE "idle"
    /\ worker' = NotifyAll(worker)
    /\ UNCHANGED <<concurrency, jobs, queues, counters, request, results>>

-----------------------------------------------------------------------------
Caller(r) ==
    \/ \E key \in Keys : RefuseJob(r, key) \/ RefuseWaiter(r, key)
    \/ \E key \in Keys, priority \in Priorities :
          Join(r, key, priority) \/ Insert(r, key, priority)
    \/ NotifyOne(r)

WorkerStep(w) ==
    \/ TakeHigh(w) \/ TakeLow(w) \/ Sleep(w) \/ Answer(w)
    \/ \E key \in Keys : Finish(w, key)

Next ==
    \/ \E r \in Requests : Caller(r)
    \/ \E w \in Threads : WorkerStep(w) \/ WakeSpuriously(w)
    \/ EnterBulk \/ LeaveBulk \/ NotifyBulk

Spec == Init /\ [][Next]_vars

(* A worker thread that can run does: renders end (ffmpeg is run with a    *)
(* time limit) and the mutex is handed on.  A caller that released the     *)
(* mutex reaches its notify, and so does the bulk renderer.  Nobody has to *)
(* enqueue, or to start or finish a bulk render.                           *)
AllThreads ==
    UNION {1 .. c.browsing : c \in Concurrencies} \cup
    UNION {1 .. c.bulk : c \in Concurrencies}

FairSpec ==
    /\ Spec
    /\ \A w \in AllThreads : WF_vars(w \in Threads /\ WorkerStep(w))
    /\ \A r \in Requests : WF_vars(NotifyOne(r))
    /\ WF_vars(NotifyBulk)

-----------------------------------------------------------------------------
(* Properties *)

(* Types.  The map never holds more than MAX_PENDING_JOBS jobs nor a job   *)
(* more than MAX_WAITERS_PER_JOB waiters, and the bulk counter says        *)
(* whether the renderer is in its scope.                                   *)
WorkerStates ==
    {Awake, Waiting} \cup {Rendering(key) : key \in Keys} \cup
    {Answering(s) : s \in BoundedSeq(Requests, MaxWaiters) \ {<< >>}}

TypeOK ==
    /\ concurrency \in Concurrencies
    /\ DOMAIN jobs \subseteq Keys
    /\ Cardinality(DOMAIN jobs) <= MaxPending
    /\ \A key \in DOMAIN jobs :
         /\ jobs[key].priority \in Priorities
         /\ jobs[key].waiters \in BoundedSeq(Requests, MaxWaiters)
    /\ high_queue \in Seq(Keys) /\ low_queue \in Seq(Keys)
    /\ active_jobs \in Nat /\ active_videos \in Nat
    /\ bulk_scopes = IF bulk \in {"entering", "inside"} THEN 1 ELSE 0
    /\ worker \in [Threads -> WorkerStates]
    /\ request \in [Requests ->
                      {"new", "notifying", "accepted", "refused"}]
    /\ results \in [Requests -> Nat]
    /\ bulk \in {"idle", "entering", "inside", "leaving"}

(* A job is in one place only: its key stands once in one queue, or one    *)
(* worker renders it, so no two workers write the same thumbnail file and  *)
(* no job is forgotten; the counters that admit jobs count exactly the     *)
(* workers that render.                                                    *)
QueuedAt(queue, key) == {i \in 1 .. Len(queue) : queue[i] = key}

EveryJobHasOnePlace ==
    /\ \A key \in Keys :
         Cardinality(QueuedAt(high_queue, key)) + Cardinality(QueuedAt(low_queue, key))
           + Cardinality(Renderers(key))
         = (IF key \in DOMAIN jobs THEN 1 ELSE 0)
    /\ active_jobs = Cardinality({w \in Threads : worker[w].at = "rendering"})
    /\ active_videos =
         Cardinality({w \in Threads : \E key \in Videos : worker[w] = Rendering(key)})

(* Every accepted caller is answered once: until its result is sent it is  *)
(* in the waiters of one job or of one answering worker, and afterwards in *)
(* none.  A refused caller gets no result.                                 *)
WaiterLists ==
    {<<"job", key>> : key \in DOMAIN jobs} \cup
    {<<"worker", w>> : w \in {v \in Threads : worker[v].at = "answering"}}
Listed(list) ==
    IF list[1] = "job" THEN jobs[list[2]].waiters ELSE worker[list[2]].waiters
Entries(r) ==
    {entry \in WaiterLists \X (1 .. MaxWaiters) :
        /\ entry[2] <= Len(Listed(entry[1]))
        /\ Listed(entry[1])[entry[2]] = r}

EveryCallerIsAnsweredOnce ==
    \A r \in Requests :
        results[r] + Cardinality(Entries(r)) =
            (IF request[r] \in {"new", "refused"} THEN 0 ELSE 1)

(* Nothing in the scheduler is lost or doubled, neither a job nor a caller, *)
(* and its counters, queues and limits are what its types and bounds say.  *)
WorkIsAccountedFor == TypeOK /\ EveryJobHasOnePlace /\ EveryCallerIsAnsweredOnce

(* No wake-up is lost: when a queued job may run now, some worker is about *)
(* to look for it, or somebody is about to notify, or no worker sleeps.    *)
(* It does not depend on a running render ending: there is no idle         *)
(* capacity while a video takes minutes.                                   *)
NoLostWakeup ==
    SomeRunnable =>
        \/ Sleeping = {}
        \/ \E w \in Threads : worker[w] = Awake
        \/ \E r \in Requests : request[r] = "notifying"
        \/ bulk \in {"entering", "leaving"}

(* A worker starts a low-priority job only when no high-priority job that  *)
(* could start is left queued, a job raised after it was queued included.  *)
Queued(key) == \E queue \in {high_queue, low_queue} : Contains(queue, key)

HighPriorityFirst ==
    [][\A key \in Keys :
         (Renderers(key) = {} /\ Renderers(key)' # {} /\ jobs[key].priority = "Low")
           => ~ \E other \in DOMAIN jobs :
                  /\ Queued(other)
                  /\ jobs[other].priority = "High"
                  /\ Admitted(other)]_vars

(* Every accepted caller gets its result, whatever the bulk renderer does. *)
EveryCallerIsServed ==
    \A r \in Requests :
        request[r] \in {"notifying", "accepted"} ~> results[r] > 0

=============================================================================
