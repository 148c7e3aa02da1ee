------------------------ MODULE VideoSessions_proofs ------------------------
(***************************************************************************)
(* Proofs about video playback, for any number of requests and of waiting  *)
(* controls.  One inductive invariant, VideoInv, says who may still open,  *)
(* that each call asks the worker once (so that a request commits at most  *)
(* one session), what the decoder may be doing at each step of the worker, *)
(* and that the surface only ever shows committed sessions.                *)
(***************************************************************************)
EXTENDS VideoSessions, TLAPS

(* The newest request alone may still open, unless it was cancelled. *)
RequestsInOrder ==
    /\ player.pending \in {None, player.next} /\ player.pending \notin cancelled
    /\ \A r \in cancelled : r <= player.next
    /\ \A r \in Requests : r > player.next => At(r, "unborn")

(* What the worker is doing, and for whom. *)
WorkerShape ==
    /\ worker.pc \in {"idle", "writing"} => worker.job = "none" /\ worker.req = None
    /\ worker.pc \in {"stopping", "retiring"} =>
         \/ worker.job \in {"open", "load"} /\ worker.req # None
         \/ worker.job = "close" /\ worker.req = None
    /\ worker.pc \in {"creating", "committing", "loading"} =>
         worker.job = "open" /\ worker.req # None

(* A call that waits is asked for once: in the queue or by the worker. *)
OpensWait ==
    /\ \A i \in DOMAIN queue : queue[i].op = "open" =>
         At(queue[i].arg, "waiting") /\ queue[i].arg # worker.req
    /\ \A i, j \in DOMAIN queue :
         queue[i].op = "open" /\ queue[j].op = "open" /\ queue[i].arg = queue[j].arg => i = j
    /\ worker.req # None => At(worker.req, "waiting")

(* A request commits at most one session, because its call asks once. *)
Uncommitted(r) ==
    \/ calls[r].pc \in {"begun", "resolving", "resolved", "ready"}
    \/ /\ calls[r].pc = "waiting"
       /\ worker.req = r => worker.pc # "loading" /\ worker.job # "load"
SessionsCounted ==
    /\ player.sessions <= player.next
    /\ player.next # None /\ Uncommitted(player.next) => player.sessions < player.next

NobodyIsServed == alive \/ (queue = <<>> /\ worker = Free /\ active = NoSession)

ActiveIsCommitted ==
    /\ active = NoSession \/ (active.ses \in 1 .. player.sessions /\ active.req # None)
    /\ worker.pc = "loading" =>
         /\ worker.ses = session /\ worker.ses # None
         /\ active.ses = worker.ses => active.req = worker.req

(* The decoder plays only the worker's session, and not while it is stopped. *)
DecoderIsTheWorkers ==
    /\ core.state = "playing" => core.ses = session /\ worker.pc \in {"idle", "writing"}
    /\ worker.pc \in {"retiring", "creating", "committing", "loading"} => core.state = "idle"

SurfaceInOrder ==
    /\ surface.active <= surface.latest /\ surface.latest <= player.sessions
    /\ active.ses > surface.latest => ~active.fullscreen

VideoInv ==
    /\ TypeOK /\ RequestsInOrder /\ WorkerShape /\ OpensWait /\ SessionsCounted
    /\ NobodyIsServed /\ ActiveIsCommitted /\ DecoderIsTheWorkers
    /\ NoGhostPlayback /\ CurrentSessionHasDecoder
    /\ SurfaceInOrder /\ FullscreenHasAnOwner

-----------------------------------------------------------------------------
(* The queue                                                               *)

Commands == [op : {"open", "control", "close"}, arg : Requests]

LEMMA Appended ==
    ASSUME NEW q \in Seq(Commands), NEW c \in Commands
    PROVE  /\ Append(q, c) \in Seq(Commands) /\ Append(q, c) # <<>>
           /\ DOMAIN Append(q, c) = DOMAIN q \cup {Len(q) + 1}
           /\ Len(q) + 1 \notin DOMAIN q
           /\ \A i \in DOMAIN q : Append(q, c)[i] = q[i]
           /\ Append(q, c)[Len(q) + 1] = c
OBVIOUS

LEMMA Taken ==
    ASSUME NEW q \in Seq(Commands), q # <<>>
    PROVE  /\ Head(q) \in Commands /\ Tail(q) \in Seq(Commands)
           /\ 1 \in DOMAIN q /\ Head(q) = q[1]
           /\ \A i \in DOMAIN Tail(q) : i + 1 \in DOMAIN q /\ Tail(q)[i] = q[i + 1]
           /\ \A i \in DOMAIN q : i = 1 \/ (i - 1 \in DOMAIN Tail(q) /\ Tail(q)[i - 1] = q[i])
<1>1. DOMAIN q = 1 .. Len(q) /\ Len(q) \in Nat \ {0} /\ Len(Tail(q)) = Len(q) - 1
  OBVIOUS
<1> QED
  BY <1>1

-----------------------------------------------------------------------------
(* The values the variables take, and the steps that change them           *)

Players == [next : 0 .. MaxRequests, pending : RequestIds, sessions : 0 .. MaxRequests]
Workers == [pc : {"idle", "stopping", "retiring", "creating", "committing",
                  "loading", "writing"},
            job : {"none", "open", "load", "close"},
            req : RequestIds, ses : SessionIds, copy : BOOLEAN]
Cores == [state : {"idle", "playing", "stopping"}, ses : SessionIds]
Calls == [pc : {"unborn", "begun", "resolving", "resolved", "ready",
                "waiting", "opened", "closing", "hiding", "done"}, ses : SessionIds]
Surfaces == [latest : 0 .. MaxRequests, active : SessionIds, fullscreen : BOOLEAN,
             shown : BOOLEAN, controls : SessionIds]

LEMMA TypesByName ==
    TypeOK <=> /\ player \in Players /\ active \in Playback
               /\ queue \in Seq(Commands) /\ worker \in Workers
               /\ alive \in BOOLEAN /\ session \in SessionIds /\ failed \in BOOLEAN
               /\ core \in Cores /\ calls \in [Requests -> Calls]
               /\ ui \in SessionIds /\ surface \in Surfaces
               /\ wakeup \in BOOLEAN /\ timer \in BOOLEAN /\ cancelled \subseteq Requests
BY DEF TypeOK, Players, Workers, Cores, Calls, Surfaces, Commands

\* The steps that change who may open and what is current, ...
Closings ==
    \/ FailRender \/ RefuseLoad \/ DrainError
    \/ \E r \in Requests : CloseRefused(r)
    \/ \E s \in Sessions : close_video(s)
Owners ==
    \/ begin_video_open \/ Closings \/ RetireStopped \/ Commit
    \/ \E r \in Requests : cancel_video_open(r)
    \/ \E s \in Sessions : set_fullscreen(s)
\* ... the queue, ...
Sends ==
    \/ Closings \/ NativeControl
    \/ \E r \in Requests : cancel_video_open(r) \/ AskWorker(r)
    \/ \E s \in Sessions : control_video(s)
\* ... the worker, ...
Works == WorkerTakes \/ WorkerStep \/ StopTimesOut \/ DrainChange
\* ... the calls, ...
Asks ==
    \/ begin_video_open
    \/ \E r \in Requests : StartOpen(r) \/ OpenCall(r)
Ends == RetireStopped \/ StopTimesOut \/ CreateClient \/ Commit
\* ... the decoder and the surface.
Decodes ==
    \/ TakeOpen \/ TakeClose \/ Load \/ RefuseLoad \/ CoreStops \/ CoreFails
    \/ StopReached \/ Commit \/ DrainError
Shows ==
    \/ HideSurface \/ HideRetired \/ FailToHideRetired \/ SyncControls \/ FailRender
    \/ \E r \in Requests : Activate(r) \/ HideRefused(r)
    \/ \E s \in Sessions : set_video_bounds(s) \/ set_fullscreen(s)
    \/ \E s \in Sessions : close_video(s)
    \/ \E r \in Requests : cancel_video_open(r)

(* Nothing else changes them. *)
LEMMA Frames ==
    ASSUME [Next]_vars
    PROVE  /\ Owners \/ UNCHANGED shared
           /\ Sends \/ WorkerTakes \/ UNCHANGED queue
           /\ Works \/ UNCHANGED worker
           /\ Asks \/ Ends \/ TakeOpen \/ Load \/ UNCHANGED calls
           /\ Decodes \/ UNCHANGED <<session, core, failed>>
           /\ Shows \/ UNCHANGED screen
           /\ UNCHANGED alive
           /\ UNCHANGED cancelled \/ \E r \in Requests : cancel_video_open(r)
<1> DEFINE Framed ==
      /\ Owners \/ UNCHANGED shared
      /\ Sends \/ WorkerTakes \/ UNCHANGED queue
      /\ Works \/ UNCHANGED worker
      /\ Asks \/ Ends \/ TakeOpen \/ Load \/ UNCHANGED calls
      /\ Decodes \/ UNCHANGED <<session, core, failed>>
      /\ Shows \/ UNCHANGED screen
      /\ UNCHANGED alive
      /\ UNCHANGED cancelled \/ \E r \in Requests : cancel_video_open(r)
<1>1. CASE begin_video_open
  <2>1. UNCHANGED <<queue, worker, session, core, failed, screen, alive,
                    cancelled>>
    BY <1>1 DEF begin_video_open, shared, decoder, loop, screen
  <2> QED
    BY <1>1, <2>1 DEF Owners, Asks, shared, screen, loop
<1>2. CASE NativeControl
  <2>1. UNCHANGED <<shared, worker, calls, session, core, failed, screen,
                    alive, cancelled>>
    BY <1>2 DEF NativeControl, SendControl, Control, shared, decoder, loop,
       screen
  <2> QED
    BY <1>2, <2>1 DEF Sends, shared, screen, loop
<1>3. ASSUME NEW r \in Requests, cancel_video_open(r) PROVE Framed
  <2>1. UNCHANGED <<worker, calls, session, core, failed, alive>>
    BY <1>3 DEF cancel_video_open, enqueue, Close, shared, decoder, loop,
       screen
  <2> QED
    BY <1>3, <2>1 DEF Owners, Sends, Shows, shared, screen, loop
<1>4. ASSUME NEW s \in Sessions, close_video(s) PROVE Framed
  <2>1. UNCHANGED <<worker, calls, session, core, failed, alive, cancelled>>
    BY <1>4 DEF close_video, close, closeFrom, Retired, Close, shared,
       decoder, loop, screen
  <2> QED
    BY <1>4, <2>1 DEF Owners, Sends, Shows, Closings, shared, screen, loop
<1>5. ASSUME NEW s \in Sessions, control_video(s) PROVE Framed
  <2>1. UNCHANGED <<shared, worker, calls, session, core, failed, screen,
                    alive, cancelled>>
    BY <1>5 DEF control_video, SendControl, Control, shared, decoder, loop,
       screen
  <2> QED
    BY <1>5, <2>1 DEF Sends, shared, screen, loop
<1>6. ASSUME NEW s \in Sessions, set_video_bounds(s) PROVE Framed
  <2>1. UNCHANGED <<shared, queue, worker, calls, session, core, failed,
                    alive, cancelled>>
    BY <1>6 DEF set_video_bounds, shared, decoder, loop, screen
  <2> QED
    BY <1>6, <2>1 DEF Shows, shared, screen, loop
<1>7. ASSUME NEW s \in Sessions, set_fullscreen(s) PROVE Framed
  <2>1. UNCHANGED <<queue, worker, calls, session, core, failed, alive,
                    cancelled>>
    BY <1>7 DEF set_fullscreen, shared, decoder, loop, screen
  <2> QED
    BY <1>7, <2>1 DEF Owners, Shows, shared, screen, loop
<1>8. CASE HideSurface
  <2>1. UNCHANGED <<shared, queue, worker, calls, session, core, failed,
                    alive, cancelled>>
    BY <1>8 DEF HideSurface, Hidden, shared, decoder, loop, screen
  <2> QED
    BY <1>8, <2>1 DEF Shows, shared, screen, loop
<1>9. ASSUME NEW r \in Requests, StartOpen(r) PROVE Framed
  <2>1. UNCHANGED <<shared, queue, worker, session, core, failed, screen,
                    alive, cancelled>>
    BY <1>9 DEF StartOpen, At, Goto, Answer, shared, decoder, loop, screen
  <2> QED
    BY <1>9, <2>1 DEF Asks, shared, screen, loop
<1>10. ASSUME NEW r \in Requests, ResolveSource(r) PROVE Framed
  <2>1. UNCHANGED <<shared, queue, worker, session, core, failed, screen,
                    alive, cancelled>>
    BY <1>10 DEF ResolveSource, At, Goto, Answer, shared, decoder, loop,
       screen
  <2> QED
    BY <1>10, <2>1 DEF Asks, OpenCall, shared, screen, loop
<1>11. ASSUME NEW r \in Requests, EnsureReady(r) PROVE Framed
  <2>1. UNCHANGED <<shared, queue, worker, session, core, failed, screen,
                    alive, cancelled>>
    BY <1>11 DEF EnsureReady, At, Goto, Answer, shared, decoder, loop, screen
  <2> QED
    BY <1>11, <2>1 DEF Asks, OpenCall, shared, screen, loop
<1>12. ASSUME NEW r \in Requests, AskWorker(r) PROVE Framed
  <2>1. UNCHANGED <<shared, worker, session, core, failed, screen, alive,
                    cancelled>>
    BY <1>12 DEF AskWorker, At, Goto, Answer, enqueue, Open, shared, decoder,
       loop, screen
  <2> QED
    BY <1>12, <2>1 DEF Sends, Asks, OpenCall, shared, screen, loop
<1>13. ASSUME NEW r \in Requests, Activate(r) PROVE Framed
  <2>1. UNCHANGED <<shared, queue, worker, session, core, failed, alive,
                    cancelled>>
    BY <1>13 DEF Activate, At, Goto, Answer, Hidden, HideFailed, shared,
       decoder, loop, screen
  <2> QED
    BY <1>13, <2>1 DEF Asks, Shows, OpenCall, shared, screen, loop
<1>14. ASSUME NEW r \in Requests, CloseRefused(r) PROVE Framed
  <2>1. UNCHANGED <<worker, session, core, failed, screen, alive, cancelled>>
    BY <1>14 DEF CloseRefused, At, Goto, close, closeFrom, Retired, Close,
       shared, decoder, loop, screen
  <2> QED
    BY <1>14, <2>1 DEF Owners, Sends, Asks, Closings, OpenCall, shared,
       screen, loop
<1>15. ASSUME NEW r \in Requests, HideRefused(r) PROVE Framed
  <2>1. UNCHANGED <<shared, queue, worker, session, core, failed, alive,
                    cancelled>>
    BY <1>15 DEF HideRefused, At, Answer, Hidden, shared, decoder, loop,
       screen
  <2> QED
    BY <1>15, <2>1 DEF Asks, Shows, OpenCall, shared, screen, loop
<1>16. CASE HideRetired
  <2>1. UNCHANGED <<shared, queue, worker, calls, session, core, failed,
                    alive, cancelled>>
    BY <1>16 DEF HideRetired, LoopSurface, LoopWakes, Hidden, RetiredSurface,
       shared, decoder, loop, screen
  <2> QED
    BY <1>16, <2>1 DEF Shows, shared, screen, loop
<1>17. CASE FailToHideRetired
  <2>1. UNCHANGED <<shared, queue, worker, calls, session, core, failed,
                    alive, cancelled>>
    BY <1>17 DEF FailToHideRetired, LoopSurface, LoopWakes, Hidden,
       RetiredSurface, shared, decoder, loop, screen
  <2> QED
    BY <1>17, <2>1 DEF Shows, shared, screen, loop
<1>18. CASE SyncControls
  <2>1. UNCHANGED <<shared, queue, worker, calls, session, core, failed,
                    alive, cancelled>>
    BY <1>18 DEF SyncControls, LoopSurface, LoopWakes, RetiredSurface, shared,
       decoder, loop, screen
  <2> QED
    BY <1>18, <2>1 DEF Shows, shared, screen, loop
<1>19. CASE FailRender
  <2>1. UNCHANGED <<worker, calls, session, core, failed, alive, cancelled>>
    BY <1>19 DEF FailRender, close, closeFrom, Retired, Close, shared,
       decoder, loop, screen
  <2> QED
    BY <1>19, <2>1 DEF Owners, Sends, Shows, Closings, shared, screen, loop
<1>20. CASE TakeOpen
  <2>1. UNCHANGED <<shared, screen, alive, cancelled>>
    BY <1>20 DEF TakeOpen, Take, Subject, Stopping, StopIssued, Answer, Free,
       shared, decoder, loop, screen
  <2> QED
    BY <1>20, <2>1 DEF Works, Decodes, WorkerTakes, shared, screen, loop
<1>21. CASE TakeControl
  <2>1. UNCHANGED <<shared, calls, session, core, failed, screen, alive,
                    cancelled>>
    BY <1>21 DEF TakeControl, Take, Subject, Snapshot, Free, shared, decoder,
       loop, screen
  <2> QED
    BY <1>21, <2>1 DEF Works, WorkerTakes, shared, screen, loop
<1>22. CASE TakeClose
  <2>1. UNCHANGED <<shared, calls, screen, alive, cancelled>>
    BY <1>22 DEF TakeClose, Take, Subject, Stopping, StopIssued, Free, shared,
       decoder, loop, screen
  <2> QED
    BY <1>22, <2>1 DEF Works, Decodes, WorkerTakes, shared, screen, loop
<1>23. CASE StopReached
  <2>1. UNCHANGED <<shared, queue, calls, screen, alive, cancelled>>
    BY <1>23 DEF StopReached, shared, decoder, loop, screen
  <2> QED
    BY <1>23, <2>1 DEF Works, Decodes, WorkerStep, shared, screen, loop
<1>24. CASE RetireStopped
  <2>1. UNCHANGED <<queue, session, core, failed, screen, alive, cancelled>>
    BY <1>24 DEF RetireStopped, Retired, AfterStop, Free, Answer, shared,
       decoder, loop, screen
  <2> QED
    BY <1>24, <2>1 DEF Owners, Works, Ends, WorkerStep, shared, screen, loop
<1>25. CASE CreateClient
  <2>1. UNCHANGED <<shared, queue, session, core, failed, screen, alive,
                    cancelled>>
    BY <1>25 DEF CreateClient, Free, Answer, shared, decoder, loop, screen
  <2> QED
    BY <1>25, <2>1 DEF Works, Ends, WorkerStep, shared, screen, loop
<1>26. CASE Commit
  <2>1. UNCHANGED <<queue, screen, alive, cancelled>>
    BY <1>26 DEF Commit, Free, Answer, shared, decoder, loop, screen
  <2> QED
    BY <1>26, <2>1 DEF Owners, Works, Ends, Decodes, WorkerStep, shared,
       screen, loop
<1>27. CASE Load
  <2>1. UNCHANGED <<shared, queue, screen, alive, cancelled>>
    BY <1>27 DEF Load, Free, MayLoad, shared, decoder, loop, screen
  <2> QED
    BY <1>27, <2>1 DEF Works, Decodes, WorkerStep, shared, screen, loop
<1>28. CASE RefuseLoad
  <2>1. UNCHANGED <<calls, screen, alive, cancelled>>
    BY <1>28 DEF RefuseLoad, close, closeFrom, Retired, Close, Stopping,
       StopIssued, Free, shared, decoder, loop, screen
  <2> QED
    BY <1>28, <2>1 DEF Owners, Sends, Works, Decodes, Closings, WorkerStep,
       shared, screen, loop
<1>29. CASE WriteSnapshot
  <2>1. UNCHANGED <<shared, queue, calls, session, core, failed, screen,
                    alive, cancelled>>
    BY <1>29 DEF WriteSnapshot, Free, shared, decoder, loop, screen
  <2> QED
    BY <1>29, <2>1 DEF Works, WorkerStep, shared, screen, loop
<1>30. CASE StopTimesOut
  <2>1. UNCHANGED <<shared, queue, session, core, failed, screen, alive,
                    cancelled>>
    BY <1>30 DEF StopTimesOut, AfterStop, Free, Answer, shared, decoder, loop,
       screen
  <2> QED
    BY <1>30, <2>1 DEF Works, Ends, shared, screen, loop
<1>31. CASE DrainError
  <2>1. UNCHANGED <<worker, calls, screen, alive, cancelled>>
    BY <1>31 DEF DrainError, close, closeFrom, Retired, Close, shared,
       decoder, loop, screen
  <2> QED
    BY <1>31, <2>1 DEF Owners, Sends, Decodes, Closings, shared, screen, loop
<1>32. CASE DrainChange
  <2>1. UNCHANGED <<shared, queue, calls, session, core, failed, screen,
                    alive, cancelled>>
    BY <1>32 DEF DrainChange, Snapshot, Free, shared, decoder, loop, screen
  <2> QED
    BY <1>32, <2>1 DEF Works, shared, screen, loop
<1>33. CASE CoreStops
  <2>1. UNCHANGED <<shared, queue, worker, calls, screen, alive, cancelled>>
    BY <1>33 DEF CoreStops, shared, decoder, loop, screen
  <2> QED
    BY <1>33, <2>1 DEF Decodes, shared, screen, loop
<1>34. CASE CoreFails
  <2>1. UNCHANGED <<shared, queue, worker, calls, screen, alive, cancelled>>
    BY <1>34 DEF CoreFails, shared, decoder, loop, screen
  <2> QED
    BY <1>34, <2>1 DEF Decodes, shared, screen, loop
<1>35. CASE UNCHANGED vars
  BY <1>35 DEF vars, shared, screen, loop
<1> QED
  BY <1>1, <1>2, <1>3, <1>4, <1>5, <1>6, <1>7, <1>8, <1>9, <1>10, <1>11,
     <1>12, <1>13, <1>14, <1>15, <1>16, <1>17, <1>18, <1>19, <1>20, <1>21,
     <1>22, <1>23, <1>24, <1>25, <1>26, <1>27, <1>28, <1>29, <1>30, <1>31,
     <1>32, <1>33, <1>34, <1>35 DEF Next, SyncCommand, OpenCall, WorkerTakes,
     WorkerStep

-----------------------------------------------------------------------------
(* Closing, cancelling and retiring                                        *)

LEMMA Closed ==
    ASSUME VideoInv, NEW s, close(s)
    PROVE  \/ ~IsCurrent(s) /\ UNCHANGED <<player, active, queue>>
           \/ /\ IsCurrent(s) /\ s \in Sessions /\ active.ses = s /\ active' = NoSession
              /\ queue' = Append(queue, Close(s)) /\ Close(s) \in Commands
              /\ player' \in Players /\ player'.pending \in {None, player.pending}
              /\ player'.next = player.next /\ player'.sessions = player.sessions
<1>1. TypeOK /\ player \in Players /\ active \in Playback
  BY TypesByName DEF VideoInv
<1>2. CASE ~IsCurrent(s)
  BY <1>2 DEF close, closeFrom, Retired, shared
<1>3. CASE IsCurrent(s)
  <2>1. s \in Sessions /\ active.ses = s
    BY <1>1, <1>3 DEF IsCurrent, Playback, SessionIds
  <2>2. active' = NoSession /\ queue' = Append(queue, Close(s)) /\ Close(s) \in Commands
    BY <1>3, <2>1 DEF close, closeFrom, Retired, Close, Commands, Sessions, Requests
  <2>3. player' = [player EXCEPT !.pending = IF @ = active.req THEN None ELSE @]
    BY <1>3 DEF close, closeFrom, Retired
  <2>4. /\ player' \in Players /\ player'.pending \in {None, player.pending}
        /\ player'.next = player.next /\ player'.sessions = player.sessions
    BY <1>1, <2>3 DEF Players, RequestIds
  <2> QED
    BY <1>3, <2>1, <2>2, <2>4
<1> QED
  BY <1>2, <1>3

LEMMA ClosingsClose == ASSUME Closings PROVE \E s : close(s)
<1>1. CASE FailRender
  BY <1>1 DEF FailRender
<1>2. CASE RefuseLoad
  BY <1>2 DEF RefuseLoad
<1>3. CASE DrainError
  BY <1>3 DEF DrainError
<1>4. ASSUME NEW r \in Requests, CloseRefused(r) PROVE \E s : close(s)
  BY <1>4 DEF CloseRefused
<1>5. ASSUME NEW s \in Sessions, close_video(s) PROVE \E t : close(t)
  BY <1>5 DEF close_video
<1> QED
  BY <1>1, <1>2, <1>3, <1>4, <1>5 DEF Closings

(* What a step may do to the request that may open and to the session that *)
(* plays: a new request, a new session, nothing but fullscreen, or less.   *)
Dropped ==
    /\ player' \in Players /\ player'.pending \in {None, player.pending}
    /\ player'.next = player.next /\ player'.sessions = player.sessions
    /\ \/ UNCHANGED active
       \/ /\ active' = NoSession
          /\ RetireStopped \/ queue' = Append(queue, Close(active.ses))
Resized ==
    /\ \E s \in Sessions : set_fullscreen(s)
    /\ UNCHANGED <<player, worker, session, core, calls>> /\ active' \in Playback
    /\ active.ses # None /\ active'.ses = active.ses /\ active'.req = active.req
Committed == Commit /\ player.pending = worker.req

LEMMA OwnersChange ==
    ASSUME VideoInv, [Next]_vars
    PROVE  begin_video_open \/ Committed \/ Resized \/ Dropped
<1>0. TypeOK /\ player \in Players /\ active \in Playback
  BY TypesByName DEF VideoInv
<1>1. CASE UNCHANGED shared
  BY <1>0, <1>1 DEF shared, Dropped
<1>2. CASE Closings
  BY <1>0, <1>2, Closed, ClosingsClose DEF Dropped
<1>3. CASE RetireStopped
  <2>1. Retired(worker.ses)
    BY <1>3 DEF RetireStopped
  <2>2. CASE IsCurrent(worker.ses)
    <3>1. /\ active' = NoSession
          /\ player' = [player EXCEPT !.pending = IF @ = active.req THEN None ELSE @]
      BY <2>1, <2>2 DEF Retired
    <3> QED
      BY <1>0, <1>3, <3>1 DEF Dropped, Players, RequestIds
  <2>3. CASE ~IsCurrent(worker.ses)
    BY <1>1, <2>1, <2>3 DEF Retired
  <2> QED
    BY <2>2, <2>3
<1>4. CASE Commit
  <2>1. CASE player.pending # worker.req
    BY <1>1, <1>4, <2>1 DEF Commit
  <2> QED
    BY <1>4, <2>1 DEF Committed
<1>5. ASSUME NEW r \in Requests, cancel_video_open(r)
      PROVE  Dropped
  <2>1. /\ player' = [player EXCEPT !.pending = IF @ = r THEN None ELSE @]
        /\ \/ UNCHANGED active
           \/ active.req = r /\ active' = NoSession /\ queue' = enqueue(Close(active.ses))
    BY <1>5 DEF cancel_video_open
  <2>2. active.req = r => alive
    BY <1>0 DEF VideoInv, NobodyIsServed, NoSession, None, Requests
  <2> QED
    BY <1>0, <2>1, <2>2 DEF Dropped, Players, RequestIds, enqueue
<1>6. ASSUME NEW s \in Sessions, set_fullscreen(s)
      PROVE  Resized
  <2>1. PICK f \in BOOLEAN : active' = [active EXCEPT !.fullscreen = f]
    BY <1>6 DEF set_fullscreen
  <2>2. UNCHANGED <<player, worker, session, core, calls>> /\ active.ses # None
    BY <1>6 DEF set_fullscreen, decoder, IsCurrent
  <2> QED
    BY <1>0, <1>6, <2>1, <2>2 DEF Resized, Playback
<1> QED
  BY <1>1, <1>2, <1>3, <1>4, <1>5, <1>6, Frames DEF Owners

-----------------------------------------------------------------------------
(* The worker, the queue and the calls                                     *)

\* What the worker is asked to do for a call it does, or it answers the call.
Busy == worker.pc = "loading" \/ worker.job = "load"

LEMMA FreeWorker ==
    /\ Free \in Workers
    /\ Free.pc = "idle" /\ Free.job = "none" /\ Free.req = None /\ Free.copy = FALSE
BY DEF Free, Workers, RequestIds, SessionIds

LEMMA StoppingWorker ==
    ASSUME NEW job \in {"open", "load", "close"}, NEW r \in RequestIds, Stopping(job, r)
    PROVE  /\ worker' \in Workers /\ worker'.pc = "stopping"
           /\ worker'.job = job /\ worker'.req = r
<1>1. worker' = [[[Free EXCEPT !.pc = "stopping"] EXCEPT !.job = job] EXCEPT !.req = r]
  BY DEF Stopping
<1> QED
  BY <1>1, FreeWorker DEF Workers

LEMMA WritingWorker ==
    ASSUME TypeOK, NEW s \in SessionIds
    PROVE  /\ Snapshot(s) \in Workers /\ Snapshot(s).pc = "writing"
           /\ Snapshot(s).job = "none" /\ Snapshot(s).req = None
<1>1. Snapshot(s) = [[[Free EXCEPT !.pc = "writing"] EXCEPT !.ses = s]
                        EXCEPT !.copy = active.fullscreen]
  BY DEF Snapshot
<1>2. active.fullscreen \in BOOLEAN
  BY TypesByName DEF Playback
<1> QED
  BY <1>1, <1>2, FreeWorker DEF Workers

LEMMA WorkerChanges ==
    ASSUME VideoInv, [Next]_vars
    PROVE  \/ worker'.req = None /\ worker.req = None
           \/ /\ worker.req # None /\ worker' = Free
              /\ calls'[worker.req].pc \in {"done", "opened"}
           \/ worker.req # None /\ worker'.req = worker.req /\ (Busy => Busy')
           \/ TakeOpen /\ worker = Free /\ worker'.req = Subject /\ UNCHANGED calls
<1>0. /\ TypeOK /\ worker \in Workers /\ calls \in [Requests -> Calls] /\ WorkerShape
      /\ queue \in Seq(Commands) /\ session \in SessionIds /\ None \in RequestIds
      /\ Free.req = None
  BY TypesByName, FreeWorker DEF VideoInv, RequestIds
<1>t. ASSUME NEW op, Take(op) PROVE Subject \in Requests /\ Subject \in RequestIds \cap SessionIds
  BY <1>t, <1>0, Taken DEF Take, Subject, Commands, RequestIds, SessionIds, Sessions, Requests
<1>1. CASE UNCHANGED worker
  BY <1>1 DEF Busy
<1>2. CASE TakeOpen
  <2>1. worker = Free /\ (UNCHANGED worker \/ (Stopping("open", Subject) /\ UNCHANGED calls))
    BY <1>2 DEF TakeOpen, Take
  <2> QED
    BY <1>0, <1>2, <1>t, <2>1, StoppingWorker DEF TakeOpen
<1>3. CASE TakeControl \/ TakeClose
  <2>1. worker = Free /\ \/ UNCHANGED worker \/ worker' = Free
                         \/ Stopping("close", None) \/ worker' = Snapshot(Subject)
    BY <1>3 DEF TakeControl, TakeClose, Take
  <2> QED
    BY <1>0, <1>3, <1>t, <2>1, StoppingWorker, WritingWorker DEF TakeControl, TakeClose
<1>4. CASE StopReached
  BY <1>4, <1>0 DEF StopReached, Busy, Workers
<1>5. CASE RetireStopped \/ StopTimesOut
  <2>1. worker.pc \in {"stopping", "retiring"} /\ \E next \in BOOLEAN : AfterStop(next)
    BY <1>5 DEF RetireStopped, StopTimesOut
  <2>2. CASE worker.job = "close" /\ worker' = Free
    BY <2>1, <2>2, <1>0 DEF WorkerShape
  <2>3. CASE worker.job = "open" /\ worker' = [worker EXCEPT !.pc = "creating", !.ses = None]
    <3>1. worker' = [[worker EXCEPT !.pc = "creating"] EXCEPT !.ses = None]
      BY <2>3
    <3>2. worker'.req = worker.req /\ worker.req # None /\ ~Busy
      BY <2>1, <2>3, <3>1, <1>0 DEF WorkerShape, Workers, Busy
    <3> QED
      BY <3>2
  <2>4. CASE worker.job # "close" /\ worker' = Free /\ Answer(worker.req, None)
    BY <2>1, <2>4, <1>0 DEF WorkerShape, Workers, RequestIds, Answer
  <2> QED
    BY <2>1, <2>2, <2>3, <2>4 DEF AfterStop
<1>6. CASE CreateClient
  BY <1>6, <1>0 DEF CreateClient, WorkerShape, Workers, RequestIds, Answer, Busy
<1>7. CASE Commit
  <2>1. worker.req \in Requests /\ worker.job = "open" /\ worker.req # None
    BY <1>7, <1>0 DEF Commit, WorkerShape, Workers, RequestIds
  <2>2. CASE ~Committed
    BY <1>7, <2>1, <2>2, <1>0 DEF Commit, Committed, Answer
  <2>3. CASE Committed
    <3>1. worker' = [[worker EXCEPT !.pc = "loading"] EXCEPT !.ses = player.sessions + 1]
      BY <2>3 DEF Commit, Committed
    <3> QED
      BY <2>1, <3>1, <1>0 DEF Workers, Busy
  <2> QED
    BY <2>2, <2>3
<1>8. CASE Load
  BY <1>8, <1>0 DEF Load, WorkerShape, Workers, RequestIds
<1>9. CASE RefuseLoad
  BY <1>9, <1>0, StoppingWorker DEF RefuseLoad, WorkerShape, Workers, Busy
<1>10. CASE WriteSnapshot \/ DrainChange
  BY <1>10, <1>0, WritingWorker DEF WriteSnapshot, DrainChange, WorkerShape
<1> QED
  BY <1>1, <1>2, <1>3, <1>4, <1>5, <1>6, <1>7, <1>8, <1>9, <1>10, Frames
     DEF Works, WorkerTakes, WorkerStep

LEMMA CallsChange ==
    ASSUME VideoInv, [Next]_vars, NEW r \in Requests
    PROVE  \/ calls'[r] = calls[r]
           \/ begin_video_open /\ r = player.next + 1
           \/ /\ calls[r].pc \notin {"unborn", "waiting"}
              /\ calls'[r].pc \notin {"unborn", "begun"}
              /\ calls'[r].pc \in {"resolving", "resolved", "ready", "waiting"} =>
                   calls[r].pc \in {"begun", "resolving", "resolved", "ready"}
           \/ /\ At(r, "waiting") /\ calls'[r].pc \in {"done", "opened"} /\ worker' = Free
              /\ worker.req = r \/ (TakeOpen /\ r = Subject)
<1>0. /\ worker \in Workers /\ queue \in Seq(Commands) /\ calls \in [Requests -> Calls]
      /\ OpensWait /\ player \in Players
  BY TypesByName DEF VideoInv
<1>1. CASE UNCHANGED calls
  BY <1>1
<1>2. CASE begin_video_open
  BY <1>2, <1>0 DEF begin_video_open, Requests, Players
<1>3. ASSUME NEW q \in Requests, StartOpen(q) \/ OpenCall(q)
      PROVE  \/ calls'[r] = calls[r]
             \/ /\ calls[r].pc \notin {"unborn", "waiting"}
                /\ calls'[r].pc \notin {"unborn", "begun"}
                /\ calls'[r].pc \in {"resolving", "resolved", "ready", "waiting"} =>
                     calls[r].pc \in {"begun", "resolving", "resolved", "ready"}
  <2>1. CASE r # q
    BY <1>3, <2>1, <1>0 DEF StartOpen, OpenCall, ResolveSource, EnsureReady, AskWorker,
       Activate, CloseRefused, HideRefused, Goto, Answer
  <2>2. CASE r = q /\ StartOpen(q)
    BY <2>2, <1>0 DEF StartOpen, At, Goto, Answer, Calls
  <2>3. CASE r = q /\ (ResolveSource(q) \/ EnsureReady(q))
    BY <2>3, <1>0 DEF ResolveSource, EnsureReady, At, Goto, Answer, Calls
  <2>4. CASE r = q /\ AskWorker(q)
    BY <2>4, <1>0 DEF AskWorker, At, Goto, Answer, Calls
  <2>5. CASE r = q /\ Activate(q)
    BY <2>5, <1>0 DEF Activate, At, Goto, Answer, Calls
  <2>6. CASE r = q /\ (CloseRefused(q) \/ HideRefused(q))
    BY <2>6, <1>0 DEF CloseRefused, HideRefused, At, Goto, Answer, Calls
  <2> QED
    BY <1>3, <2>1, <2>2, <2>3, <2>4, <2>5, <2>6 DEF OpenCall
<1>4. CASE TakeOpen
  <2>1. At(Subject, "waiting") /\ Subject \in Requests /\ worker = Free
    BY <1>4, <1>0, Taken DEF TakeOpen, Take, Subject, OpensWait, Commands
  <2>2. UNCHANGED calls \/ (Answer(Subject, None) /\ UNCHANGED worker)
    BY <1>4 DEF TakeOpen
  <2> QED
    BY <1>4, <1>0, <2>1, <2>2 DEF Answer
<1>5. CASE Ends \/ Load
  <2>1. \/ UNCHANGED calls
        \/ /\ worker' = Free
           /\ \/ Answer(worker.req, None)
              \/ calls' = [calls EXCEPT ![worker.req] = [pc |-> "opened", ses |-> worker.ses]]
    BY <1>5 DEF Ends, RetireStopped, StopTimesOut, AfterStop, CreateClient, Commit, Load
  <2>2. worker.req = r => At(r, "waiting")
    BY <1>0 DEF OpensWait, None, Requests
  <2> QED
    BY <1>0, <2>1, <2>2 DEF Answer
<1> QED
  BY <1>1, <1>2, <1>3, <1>4, <1>5, Frames DEF Asks

LEMMA QueueChanges ==
    ASSUME VideoInv, [Next]_vars
    PROVE  \/ UNCHANGED queue
           \/ \E c \in Commands : /\ c.op # "open" /\ queue' = Append(queue, c)
                                  /\ active # NoSession
           \/ \E r \in Requests : /\ At(r, "ready") /\ calls'[r].pc = "waiting"
                                  /\ alive /\ UNCHANGED worker
                                  /\ queue' = Append(queue, Open(r))
           \/ WorkerTakes /\ queue # <<>> /\ queue' = Tail(queue) /\ worker = Free
<1>0. /\ TypeOK /\ active \in Playback /\ NobodyIsServed /\ calls \in [Requests -> Calls]
  BY TypesByName DEF VideoInv
<1>1. CASE Closings
  <2>1. PICK s : close(s)
    BY <1>1, ClosingsClose
  <2>2. Close(s).op # "open" /\ (IsCurrent(s) => active # NoSession)
    BY DEF Close, IsCurrent, NoSession
  <2> QED
    BY <2>1, <2>2, Closed DEF Close, IsCurrent, NoSession
<1>2. ASSUME NEW s, SendControl(s)
      PROVE  \E c \in Commands : /\ c.op # "open" /\ queue' = Append(queue, c)
                                 /\ active # NoSession
  <2>1. queue' = Append(queue, Control(s)) /\ s # None /\ active.ses = s
    BY <1>2 DEF SendControl, IsCurrent
  <2>2. Control(s) \in Commands /\ Control(s).op # "open" /\ active # NoSession
    BY <1>0, <2>1 DEF Control, Commands, Playback, SessionIds, Sessions, Requests, NoSession
  <2> QED
    BY <2>1, <2>2
<1>3. CASE NativeControl
  BY <1>2, <1>3 DEF NativeControl
<1>4. ASSUME NEW s \in Sessions, control_video(s)
      PROVE  \E c \in Commands : /\ c.op # "open" /\ queue' = Append(queue, c)
                                 /\ active # NoSession
  BY <1>2, <1>4 DEF control_video
<1>5. ASSUME NEW r \in Requests, cancel_video_open(r)
      PROVE  \/ UNCHANGED queue
             \/ \E c \in Commands : /\ c.op # "open" /\ queue' = Append(queue, c)
                                    /\ active # NoSession
  <2>1. CASE active.req # r
    BY <1>5, <2>1 DEF cancel_video_open
  <2>2. CASE active.req = r
    <3>1. active # NoSession /\ active.ses # None
      BY <2>2 DEF NoSession, None, Requests, VideoInv, ActiveIsCommitted
    <3>2. queue' = Append(queue, Close(active.ses))
      BY <1>0, <1>5, <2>2, <3>1 DEF cancel_video_open, enqueue, NobodyIsServed
    <3>3. Close(active.ses) \in Commands /\ Close(active.ses).op # "open"
      BY <1>0, <3>1 DEF Close, Commands, Playback, SessionIds, Sessions, Requests
    <3> QED
      BY <3>1, <3>2, <3>3
  <2> QED
    BY <2>1, <2>2
<1>6. ASSUME NEW r \in Requests, AskWorker(r)
      PROVE  \/ UNCHANGED queue
             \/ /\ At(r, "ready") /\ calls'[r].pc = "waiting" /\ alive /\ UNCHANGED worker
                /\ queue' = Append(queue, Open(r))
  BY <1>0, <1>6 DEF AskWorker, At, Goto, enqueue, Calls
<1>7. CASE WorkerTakes
  BY <1>7 DEF WorkerTakes, TakeOpen, TakeControl, TakeClose, Take
<1> QED
  BY <1>1, <1>3, <1>4, <1>5, <1>6, <1>7, Frames DEF Sends

-----------------------------------------------------------------------------
(* Requests, calls and sessions                                            *)

LEMMA RequestsStep == ASSUME VideoInv, [Next]_vars PROVE RequestsInOrder'
<1>0. /\ player \in Players /\ cancelled \subseteq Requests /\ RequestsInOrder
      /\ calls \in [Requests -> Calls]
  BY TypesByName DEF VideoInv
<1>1. /\ player'.pending \in {None, player'.next} /\ player'.pending \notin cancelled'
      /\ \A r \in cancelled' : r <= player'.next
  <2>1. CASE begin_video_open
    BY <1>0, <2>1 DEF begin_video_open, RequestsInOrder, Players, Requests, None
  <2>2. ASSUME NEW r \in Requests, cancel_video_open(r)
        PROVE  /\ player'.pending \in {None, player'.next}
               /\ player'.pending \notin cancelled'
               /\ \A q \in cancelled' : q <= player'.next
    BY <1>0, <2>2 DEF cancel_video_open, RequestsInOrder, Players, Requests, None
  <2>3. CASE UNCHANGED cancelled /\ ~begin_video_open
    <3>1. player'.next = player.next /\ player'.pending \in {None, player.pending}
      BY <1>0, <2>3, OwnersChange DEF Committed, Commit, Resized, Dropped, Players
    <3> QED
      BY <1>0, <2>3, <3>1 DEF RequestsInOrder, None, Requests
  <2> QED
    BY <2>1, <2>2, <2>3, Frames
<1>2. player'.next >= player.next /\ (begin_video_open => player'.next = player.next + 1)
      /\ player'.next \in Nat
  <2>1. CASE begin_video_open
    BY <1>0, <2>1, VideoAssumption DEF begin_video_open, Players
  <2>2. CASE ~begin_video_open
    <3>1. player'.next = player.next
      BY <1>0, <2>2, OwnersChange DEF Committed, Commit, Resized, Dropped, Players
    <3> QED
      BY <1>0, <2>2, <3>1, VideoAssumption DEF Players
  <2> QED
    BY <2>1, <2>2
<1>3. ASSUME NEW r \in Requests, r > player'.next PROVE calls'[r].pc = "unborn"
  <2>1. r > player.next /\ calls[r].pc = "unborn"
    BY <1>0, <1>2, <1>3 DEF RequestsInOrder, At, Players, Requests
  <2>2. ~(begin_video_open /\ r = player.next + 1)
    BY <1>0, <1>2, <1>3 DEF Players, Requests
  <2> QED
    BY <2>1, <2>2, CallsChange DEF At
<1> QED
  BY <1>1, <1>3 DEF RequestsInOrder, At

LEMMA OpensStep == ASSUME VideoInv, [Next]_vars PROVE OpensWait'
<1>0. /\ worker \in Workers /\ queue \in Seq(Commands) /\ calls \in [Requests -> Calls]
      /\ OpensWait /\ RequestsInOrder /\ player \in Players /\ Free.req = None
  BY TypesByName, FreeWorker DEF VideoInv
<1>q. \A i \in DOMAIN queue : queue[i].arg \in Requests
  <2>1. \A i \in DOMAIN queue : queue[i] \in Commands
    BY <1>0
  <2> QED
    BY <2>1 DEF Commands
<1>1. ASSUME NEW i \in DOMAIN queue, queue[i].op = "open",
             ~(WorkerTakes /\ queue # <<>> /\ i = 1)
      PROVE  calls'[queue[i].arg].pc = "waiting" /\ queue[i].arg # worker'.req
  <2> DEFINE r == queue[i].arg
  <2>1. r \in Requests /\ At(r, "waiting") /\ r # worker.req /\ r # None
    BY <1>0, <1>1, <1>q DEF OpensWait, Requests, None
  <2>2. ~(TakeOpen /\ r = Subject)
    <3> SUFFICES ASSUME TakeOpen, r = Subject PROVE FALSE
      OBVIOUS
    <3>1. queue # <<>> /\ Head(queue).op = "open"
      BY DEF TakeOpen, Take
    <3>2. 1 \in DOMAIN queue /\ queue[1].op = "open" /\ queue[1].arg = r
      BY <1>0, <3>1, Taken DEF Subject
    <3>3. i = 1
      BY <1>0, <1>1, <3>2 DEF OpensWait
    <3> QED
      BY <1>1, <3>1, <3>3 DEF WorkerTakes
  <2>3. ~(begin_video_open /\ r = player.next + 1)
    BY <1>0, <2>1 DEF RequestsInOrder, At, Players, Requests
  <2>4. calls'[r] = calls[r]
    BY <2>1, <2>2, <2>3, CallsChange DEF At
  <2>5. r # worker'.req
    BY <1>0, <2>1, <2>2, WorkerChanges
  <2> QED
    BY <2>1, <2>4, <2>5 DEF At
<1>2. ASSUME worker'.req # None PROVE calls'[worker'.req].pc = "waiting"
  <2>1. CASE worker.req # None /\ worker'.req = worker.req
    <3>1. worker.req \in Requests /\ At(worker.req, "waiting")
      BY <1>0, <2>1 DEF OpensWait, Workers, RequestIds
    <3>2. ~(begin_video_open /\ worker.req = player.next + 1)
      BY <1>0, <3>1 DEF RequestsInOrder, At, Players, Requests
    <3>3. worker' # Free /\ ~(TakeOpen /\ worker.req = Subject)
      BY <1>0, <2>1 DEF TakeOpen, Take
    <3> QED
      BY <2>1, <3>1, <3>2, <3>3, CallsChange DEF At
  <2>2. CASE TakeOpen /\ worker'.req = Subject /\ UNCHANGED calls
    <3>1. queue # <<>> /\ Head(queue).op = "open"
      BY <2>2 DEF TakeOpen, Take
    <3>2. 1 \in DOMAIN queue /\ queue[1].op = "open" /\ queue[1].arg = Subject
      BY <1>0, <3>1, Taken DEF Subject
    <3> QED
      BY <1>0, <2>2, <3>2 DEF OpensWait, At
  <2> QED
    BY <1>0, <1>2, <2>1, <2>2, WorkerChanges
<1> DEFINE InQueue ==
      /\ \A i \in DOMAIN queue' : queue'[i].op = "open" =>
           calls'[queue'[i].arg].pc = "waiting" /\ queue'[i].arg # worker'.req
      /\ \A i, j \in DOMAIN queue' :
           queue'[i].op = "open" /\ queue'[j].op = "open" /\ queue'[i].arg = queue'[j].arg
             => i = j
<1>3. InQueue
  <2>1. CASE UNCHANGED queue
    <3>1. ~(WorkerTakes /\ queue # <<>>)
      <4> SUFFICES ASSUME WorkerTakes, queue # <<>> PROVE FALSE
        OBVIOUS
      <4>1. queue' = Tail(queue)
        BY DEF WorkerTakes, TakeOpen, TakeControl, TakeClose, Take
      <4>2. Len(Tail(queue)) # Len(queue)
        BY <1>0
      <4> QED
        BY <2>1, <4>1, <4>2
    <3> QED
      BY <1>0, <1>1, <2>1, <3>1 DEF OpensWait
  <2>2. ASSUME NEW c \in Commands, c.op # "open", queue' = Append(queue, c), ~WorkerTakes
        PROVE  InQueue
    <3>1. /\ DOMAIN queue' = DOMAIN queue \cup {Len(queue) + 1}
          /\ \A i \in DOMAIN queue : queue'[i] = queue[i]
          /\ queue'[Len(queue) + 1] = c
      BY <1>0, <2>2, Appended
    <3> QED
      BY <1>0, <1>1, <2>2, <3>1 DEF OpensWait
  <2>3. ASSUME NEW r \in Requests, At(r, "ready"), calls'[r].pc = "waiting",
               UNCHANGED worker, queue' = Append(queue, Open(r)), ~WorkerTakes
        PROVE  InQueue
    <3>1. Open(r) \in Commands /\ Open(r).op = "open" /\ Open(r).arg = r
      BY DEF Open, Commands
    <3>2. /\ DOMAIN queue' = DOMAIN queue \cup {Len(queue) + 1}
          /\ \A i \in DOMAIN queue : queue'[i] = queue[i]
          /\ queue'[Len(queue) + 1] = Open(r)
      BY <1>0, <2>3, <3>1, Appended
    <3>3. \A i \in DOMAIN queue : queue[i].op = "open" => queue[i].arg # r
      BY <1>0, <2>3 DEF OpensWait, At
    <3>4. worker'.req # r
      BY <1>0, <2>3 DEF OpensWait, At, None, Requests
    <3> QED
      BY <1>0, <1>1, <2>3, <3>1, <3>2, <3>3, <3>4 DEF OpensWait
  <2>4. CASE WorkerTakes /\ queue # <<>> /\ queue' = Tail(queue)
    <3>1. /\ 1 \in DOMAIN queue
          /\ \A i \in DOMAIN queue' :
               i \in Nat \ {0} /\ i + 1 \in DOMAIN queue /\ queue'[i] = queue[i + 1]
      BY <1>0, <2>4, Taken
    <3> QED
      BY <1>0, <1>1, <2>4, <3>1 DEF OpensWait
  <2>5. WorkerTakes => queue # <<>> /\ queue' = Tail(queue)
    BY DEF WorkerTakes, TakeOpen, TakeControl, TakeClose, Take
  <2> QED
    BY <2>1, <2>2, <2>3, <2>4, <2>5, QueueChanges
<1> QED
  BY <1>2, <1>3 DEF OpensWait, At

\* Only a commit ends the time in which a request may still get its session.
LEMMA StaysCommitted ==
    ASSUME VideoInv, [Next]_vars, NEW r \in Requests, r <= player.next, Uncommitted(r)'
    PROVE  Uncommitted(r) /\ ~(Committed /\ worker.req = r)
<1>0. /\ worker \in Workers /\ calls \in [Requests -> Calls] /\ OpensWait
      /\ player \in Players /\ Free.req = None /\ WorkerShape
  BY TypesByName, FreeWorker DEF VideoInv
<1>1. ~(begin_video_open /\ r = player.next + 1)
  BY <1>0 DEF Players, Requests
<1>2. \/ calls'[r] = calls[r]
      \/ calls[r].pc \in {"begun", "resolving", "resolved", "ready"}
  BY <1>1, CallsChange DEF Uncommitted
<1>3. CASE calls[r].pc \in {"begun", "resolving", "resolved", "ready"}
  <2>1. worker.req # r
    BY <1>0, <1>3 DEF OpensWait, At, None, Requests
  <2> QED
    BY <1>3, <2>1 DEF Uncommitted
<1>4. CASE calls'[r] = calls[r] /\ calls[r].pc = "waiting"
  <2>1. CASE worker.req # r
    BY <1>4, <2>1 DEF Uncommitted
  <2>2. CASE worker.req = r
    <3>1. worker'.req = worker.req /\ (Busy => Busy')
      BY <1>0, <1>4, <2>2, WorkerChanges DEF None, Requests
    <3>2. ~Busy'
      BY <1>4, <2>2, <3>1 DEF Uncommitted, Busy
    <3>3. ~Committed
      <4> SUFFICES ASSUME Committed PROVE FALSE
        OBVIOUS
      <4>1. worker' = [[worker EXCEPT !.pc = "loading"] EXCEPT !.ses = player.sessions + 1]
        BY DEF Commit, Committed
      <4>2. worker'.pc = "loading"
        BY <1>0, <4>1 DEF Workers
      <4> QED
        BY <3>2, <4>2 DEF Busy
    <3> QED
      BY <1>4, <3>1, <3>2, <3>3 DEF Uncommitted, Busy
  <2> QED
    BY <2>1, <2>2
<1> QED
  BY <1>2, <1>3, <1>4 DEF Uncommitted

LEMMA SessionsStep == ASSUME VideoInv, [Next]_vars PROVE SessionsCounted'
<1>0. /\ player \in Players /\ SessionsCounted /\ RequestsInOrder /\ WorkerShape /\ OpensWait
      /\ worker \in Workers /\ calls \in [Requests -> Calls]
  BY TypesByName DEF VideoInv
<1>1. CASE begin_video_open
  BY <1>0, <1>1 DEF begin_video_open, SessionsCounted, Players
<1>2. CASE Committed
  <2>1. /\ worker.req \in Requests /\ worker.pc = "committing" /\ worker.job = "open"
        /\ worker.req = player.next /\ At(worker.req, "waiting")
    BY <1>0, <1>2 DEF Committed, Commit, WorkerShape, OpensWait, Workers, RequestIds,
       RequestsInOrder
  <2>2. player.sessions < player.next
    BY <1>0, <2>1 DEF SessionsCounted, Uncommitted, At, None, Requests
  <2>3. player'.next = player.next /\ player'.sessions = player.sessions + 1
    BY <1>0, <1>2 DEF Committed, Commit, Players
  <2>4. ~Uncommitted(player.next)'
    <3>1. PICK r \in Requests : r = worker.req
      BY <2>1
    <3>2. ~Uncommitted(r)'
      BY <1>0, <1>2, <2>1, <3>1, StaysCommitted DEF Players
    <3> QED
      BY <2>1, <2>3, <3>1, <3>2 DEF Uncommitted
  <2> QED
    BY <1>0, <2>2, <2>3, <2>4 DEF SessionsCounted, Players
<1>3. CASE Resized \/ Dropped
  <2>1. player'.next = player.next /\ player'.sessions = player.sessions
    BY <1>3 DEF Resized, Dropped
  <2>2. ASSUME player'.next # None, Uncommitted(player.next)'
        PROVE  player.sessions < player.next
    <3>1. PICK r \in Requests : r = player.next
      BY <1>0, <2>1, <2>2, VideoAssumption DEF Players, Requests, None
    <3>2. Uncommitted(r)'
      BY <2>1, <2>2, <3>1 DEF Uncommitted
    <3>3. Uncommitted(player.next)
      BY <1>0, <3>1, <3>2, StaysCommitted DEF Players, Uncommitted
    <3> QED
      BY <1>0, <2>1, <2>2, <3>3 DEF SessionsCounted
  <2> HIDE DEF Uncommitted
  <2> QED
    BY <1>0, <2>1, <2>2 DEF SessionsCounted
<1> QED
  BY <1>1, <1>2, <1>3, OwnersChange

LEMMA ServedStep == ASSUME VideoInv, [Next]_vars PROVE NobodyIsServed'
<1>1. UNCHANGED alive /\ NobodyIsServed /\ WorkerShape
  BY Frames DEF VideoInv
<1>2. SUFFICES ASSUME ~alive, queue = <<>>, worker = Free, active = NoSession
               PROVE  queue' = <<>> /\ worker' = Free /\ active' = NoSession
  BY <1>1 DEF NobodyIsServed
<1>3. queue' = <<>> /\ ~WorkerTakes
  BY <1>2, QueueChanges DEF WorkerTakes, TakeOpen, TakeControl, TakeClose, Take
<1>4. active' = NoSession
  BY <1>2, OwnersChange, FreeWorker
     DEF begin_video_open, Committed, Commit, Resized, Dropped, NoSession
<1>5. UNCHANGED worker
  BY <1>2, <1>3, Frames, FreeWorker
     DEF Works, WorkerStep, StopReached, RetireStopped, CreateClient, Commit, Load,
         RefuseLoad, WriteSnapshot, StopTimesOut, DrainChange, IsCurrent, NoSession
<1> QED
  BY <1>2, <1>3, <1>4, <1>5

LEMMA WorkerShapeStep == ASSUME VideoInv, [Next]_vars PROVE WorkerShape' /\ worker' \in Workers
<1>0. /\ TypeOK /\ worker \in Workers /\ WorkerShape /\ session \in SessionIds
      /\ queue \in Seq(Commands) /\ None \in RequestIds /\ None \in SessionIds
      /\ Free \in Workers /\ Free.pc = "idle" /\ Free.job = "none" /\ Free.req = None
      /\ player \in Players
  BY TypesByName, FreeWorker DEF VideoInv, RequestIds, SessionIds
<1>t. ASSUME NEW op, Take(op)
      PROVE  Subject \in Requests /\ Subject \in RequestIds \cap SessionIds /\ Subject # None
  <2>1. Subject \in Requests
    BY <1>t, <1>0, Taken DEF Take, Subject, Commands
  <2> QED
    BY <2>1 DEF RequestIds, SessionIds, Sessions, Requests, None
<1>1. CASE UNCHANGED worker
  BY <1>0, <1>1 DEF WorkerShape
<1>2. CASE worker' = Free
  BY <1>0, <1>2 DEF WorkerShape
<1>3. CASE WorkerTakes
  <2>1. \/ worker' = Free \/ UNCHANGED worker \/ worker' = Snapshot(Subject)
        \/ Stopping("open", Subject) \/ Stopping("close", None)
    BY <1>3 DEF WorkerTakes, TakeOpen, TakeControl, TakeClose, decoder
  <2> QED
    BY <1>0, <1>1, <1>2, <1>3, <1>t, <2>1, StoppingWorker, WritingWorker
       DEF WorkerShape, WorkerTakes, TakeOpen, TakeControl, TakeClose
<1>4. CASE StopReached
  <2>1. worker' = [[worker EXCEPT !.pc = "retiring"] EXCEPT !.ses = session]
        /\ worker.pc = "stopping"
    BY <1>4 DEF StopReached
  <2> QED
    BY <1>0, <2>1 DEF WorkerShape, Workers
<1>5. CASE RetireStopped \/ StopTimesOut
  <2>1. CASE worker.job = "open" /\ worker' = [worker EXCEPT !.pc = "creating", !.ses = None]
    <3>1. worker' = [[worker EXCEPT !.pc = "creating"] EXCEPT !.ses = None]
          /\ worker.pc \in {"stopping", "retiring"}
      BY <1>5, <2>1 DEF RetireStopped, StopTimesOut
    <3> QED
      BY <1>0, <2>1, <3>1 DEF WorkerShape, Workers
  <2> QED
    BY <1>2, <1>5, <2>1 DEF RetireStopped, StopTimesOut, AfterStop
<1>6. CASE CreateClient
  BY <1>0, <1>2, <1>6 DEF CreateClient, WorkerShape, Workers
<1>7. CASE Commit
  <2>1. CASE ~Committed
    BY <1>2, <1>7, <2>1 DEF Commit, Committed
  <2>2. CASE Committed
    <3>1. worker' = [[worker EXCEPT !.pc = "loading"] EXCEPT !.ses = player.sessions + 1]
          /\ worker.pc = "committing"
      BY <2>2 DEF Commit, Committed
    <3>2. player.sessions + 1 \in SessionIds
      <4>1. /\ worker.req \in Requests /\ worker.job = "open"
            /\ worker.req = player.next /\ At(worker.req, "waiting")
        BY <1>0, <2>2, <3>1 DEF Committed, WorkerShape, OpensWait, Workers, RequestIds,
           RequestsInOrder, VideoInv
      <4>2. player.sessions < player.next
        BY <1>0, <4>1, <3>1 DEF SessionsCounted, Uncommitted, At, None, Requests, VideoInv
      <4> QED
        BY <1>0, <4>2, VideoAssumption DEF Players, SessionIds, Sessions
    <3> QED
      BY <1>0, <3>1, <3>2 DEF WorkerShape, Workers
  <2> QED
    BY <2>1, <2>2
<1>8. CASE Load
  BY <1>2, <1>8 DEF Load
<1>9. CASE RefuseLoad
  BY <1>0, <1>9, StoppingWorker DEF RefuseLoad, WorkerShape, Workers
<1>10. CASE WriteSnapshot \/ DrainChange
  BY <1>0, <1>2, <1>10, WritingWorker DEF WriteSnapshot, DrainChange, WorkerShape
<1> QED
  BY <1>1, <1>3, <1>4, <1>5, <1>6, <1>7, <1>8, <1>9, <1>10, Frames DEF Works, WorkerStep

-----------------------------------------------------------------------------
(* The decoder                                                             *)

LEMMA DecoderStep ==
    ASSUME VideoInv, [Next]_vars
    PROVE  /\ DecoderIsTheWorkers'
           /\ core' \in Cores /\ session' \in SessionIds /\ failed' \in BOOLEAN
           /\ core'.state = "playing" => UNCHANGED core \/ Load
           /\ UNCHANGED session \/ StopReached \/ Committed
           /\ worker'.pc = "loading" => UNCHANGED <<worker, session>> \/ Committed
           /\ core.state = "playing" /\ core'.state = "playing" => ~RetireStopped /\ ~Committed
<1>0. /\ TypeOK /\ core \in Cores /\ session \in SessionIds /\ failed \in BOOLEAN
      /\ worker \in Workers /\ DecoderIsTheWorkers /\ None \in RequestIds /\ None \in SessionIds
      /\ Free.pc = "idle" /\ queue \in Seq(Commands) /\ WorkerShape /\ ActiveIsCommitted
      /\ worker' \in Workers
  BY TypesByName, FreeWorker, WorkerShapeStep DEF VideoInv, RequestIds, SessionIds
<1>s. ASSUME NEW job, NEW r, Stopping(job, r)
      PROVE  /\ core' \in Cores /\ core'.state # "playing"
             /\ UNCHANGED <<session, failed>>
  BY <1>0, <1>s DEF Stopping, StopIssued, Cores
<1>t. ASSUME NEW op, Take(op) PROVE Subject \in RequestIds \cap SessionIds
  <2>1. Subject \in Requests
    BY <1>t, <1>0, Taken DEF Take, Subject, Commands
  <2> QED
    BY <2>1 DEF RequestIds, SessionIds, Sessions, Requests
<1>1. CASE UNCHANGED worker /\ UNCHANGED <<session, core, failed>>
  BY <1>0, <1>1 DEF DecoderIsTheWorkers, RetireStopped, Committed, Commit
<1>2. CASE TakeOpen
  <2>1. CASE Stopping("open", Subject)
    BY <1>0, <1>2, <1>s, <1>t, <2>1, StoppingWorker DEF DecoderIsTheWorkers, TakeOpen
  <2> QED
    BY <1>1, <1>2, <2>1 DEF TakeOpen, decoder
<1>3. CASE TakeControl
  <2>1. /\ worker' = Snapshot(Subject) \/ worker' = Free
        /\ UNCHANGED <<session, core, failed>> /\ worker.pc = "idle"
    BY <1>0, <1>3 DEF TakeControl, decoder, Take
  <2>2. worker'.pc \in {"idle", "writing"}
    BY <1>0, <1>3, <1>t, <2>1, WritingWorker DEF TakeControl
  <2> QED
    BY <1>0, <2>1, <2>2 DEF DecoderIsTheWorkers, RetireStopped, Committed, Commit
<1>4. CASE TakeClose
  <2>1. CASE Stopping("close", None)
    BY <1>0, <1>4, <1>s, <2>1, StoppingWorker DEF DecoderIsTheWorkers, TakeClose
  <2> QED
    BY <1>1, <1>4, <2>1 DEF TakeClose, decoder
<1>5. CASE StopReached
  <2>1. worker' = [[worker EXCEPT !.pc = "retiring"] EXCEPT !.ses = session]
        /\ core.state = "idle" /\ UNCHANGED core /\ session' = None /\ failed' = FALSE
    BY <1>5 DEF StopReached
  <2> QED
    BY <1>0, <1>5, <2>1 DEF DecoderIsTheWorkers, Workers
<1>6. CASE RetireStopped
  <2>1. worker' = Free \/ worker' = [[worker EXCEPT !.pc = "creating"] EXCEPT !.ses = None]
    BY <1>6 DEF RetireStopped, AfterStop
  <2>2. core.state = "idle" /\ UNCHANGED <<session, core, failed>>
    BY <1>0, <1>6 DEF RetireStopped, decoder, DecoderIsTheWorkers
  <2> QED
    BY <1>0, <2>1, <2>2 DEF DecoderIsTheWorkers, Workers
<1>7. CASE StopTimesOut
  BY <1>0, <1>7 DEF StopTimesOut, AfterStop, DecoderIsTheWorkers, decoder, RetireStopped,
     Committed, Commit
<1>8. CASE CreateClient
  BY <1>0, <1>8 DEF CreateClient, DecoderIsTheWorkers, decoder, Workers
<1>9. CASE Commit
  <2>1. CASE ~Committed
    BY <1>0, <1>9, <2>1 DEF Commit, Committed, DecoderIsTheWorkers
  <2>2. CASE Committed
    <3>1. /\ worker' = [[worker EXCEPT !.pc = "loading"] EXCEPT !.ses = player.sessions + 1]
          /\ session' = player.sessions + 1 /\ UNCHANGED <<core, failed>>
          /\ worker.pc = "committing"
      BY <2>2 DEF Commit, Committed
    <3>2. worker'.ses = player.sessions + 1 /\ worker'.pc = "loading"
      BY <1>0, <3>1 DEF Workers
    <3>3. session' \in SessionIds
      BY <1>0, <3>1, <3>2 DEF Workers
    <3> QED
      BY <1>0, <2>2, <3>1, <3>2, <3>3 DEF DecoderIsTheWorkers
  <2> QED
    BY <2>1, <2>2
<1>10. CASE Load
  BY <1>0, <1>10 DEF Load, DecoderIsTheWorkers, ActiveIsCommitted, Cores, Workers
<1>11. CASE RefuseLoad
  BY <1>0, <1>11, <1>s, StoppingWorker DEF RefuseLoad, DecoderIsTheWorkers, Workers
<1>12. CASE WriteSnapshot
  BY <1>0, <1>12 DEF WriteSnapshot, DecoderIsTheWorkers, decoder, RetireStopped, Committed,
     Commit
<1>13. CASE DrainChange
  <2>1. worker'.pc = "writing" /\ worker.pc = "idle" /\ UNCHANGED <<session, core, failed>>
    BY <1>0, <1>13, WritingWorker DEF DrainChange, decoder
  <2> QED
    BY <1>0, <2>1 DEF DecoderIsTheWorkers, RetireStopped, Committed, Commit
<1>14. CASE DrainError
  BY <1>0, <1>14 DEF DrainError, DecoderIsTheWorkers, RetireStopped, Committed, Commit
<1>15. CASE CoreStops \/ CoreFails
  <2>1. core' = [state |-> "idle", ses |-> None] /\ UNCHANGED <<worker, session>>
    BY <1>15 DEF CoreStops, CoreFails
  <2>2. core'.state = "idle" /\ core' \in Cores /\ failed' \in BOOLEAN
    BY <1>0, <1>15, <2>1 DEF Cores, CoreStops, CoreFails
  <2> QED
    BY <1>0, <2>1, <2>2 DEF DecoderIsTheWorkers
<1>16. CASE Works
  BY <1>2, <1>3, <1>4, <1>5, <1>6, <1>7, <1>8, <1>9, <1>10, <1>11, <1>12, <1>13, <1>16
     DEF Works, WorkerTakes, WorkerStep
<1>17. CASE Decodes
  BY <1>2, <1>4, <1>5, <1>9, <1>10, <1>11, <1>14, <1>15, <1>17 DEF Decodes
<1> QED
  BY <1>1, <1>16, <1>17, Frames

LEMMA ActiveStep == ASSUME VideoInv, [Next]_vars PROVE ActiveIsCommitted'
<1>0. /\ active \in Playback /\ player \in Players /\ worker \in Workers /\ ActiveIsCommitted
      /\ WorkerShape /\ NoSession.ses = None
  BY TypesByName DEF VideoInv, NoSession
<1>1. CASE Committed
  <2>1. /\ worker' = [[worker EXCEPT !.pc = "loading"] EXCEPT !.ses = player.sessions + 1]
        /\ session' = player.sessions + 1
        /\ player' = [player EXCEPT !.sessions = player.sessions + 1]
        /\ active'.req = worker.req /\ active'.ses = player.sessions + 1
        /\ worker.req # None
    BY <1>0, <1>1 DEF Commit, Committed, WorkerShape
  <2>2. /\ worker'.ses = session' /\ worker'.ses # None /\ worker'.req = worker.req
        /\ player'.sessions = player.sessions + 1
    BY <1>0, <2>1 DEF Workers, Players, None
  <2> QED
    BY <1>0, <2>1, <2>2 DEF ActiveIsCommitted, Players
<1>2. CASE ~Committed
  <2>1. /\ player'.sessions = player.sessions
        /\ active' = NoSession \/ (active'.ses = active.ses /\ active'.req = active.req)
        /\ active = NoSession => active' = NoSession
    BY <1>0, <1>2, OwnersChange DEF begin_video_open, Resized, Dropped, Players, NoSession
  <2>2. worker'.pc = "loading" => UNCHANGED <<worker, session>>
    BY <1>2, DecoderStep
  <2> QED
    BY <1>0, <2>1, <2>2 DEF ActiveIsCommitted
<1> QED
  BY <1>1, <1>2

LEMMA GhostStep == ASSUME VideoInv, [Next]_vars PROVE NoGhostPlayback'
<1>0. /\ active \in Playback /\ core \in Cores /\ queue \in Seq(Commands) /\ NoGhostPlayback
      /\ DecoderIsTheWorkers
  BY TypesByName DEF VideoInv
<1> SUFFICES ASSUME core'.state = "playing"
             PROVE  IsCurrent(core.ses)' \/ \E i \in DOMAIN queue' : queue'[i] = Close(core'.ses)
  BY DEF NoGhostPlayback, Close
<1>1. CASE Load
  BY <1>1 DEF Load, MayLoad, IsCurrent, shared
<1>2. CASE UNCHANGED core /\ IsCurrent(core.ses)
  <2>1. ~RetireStopped /\ ~Committed
    BY <1>2, DecoderStep
  <2>2. CASE active'.ses = active.ses
    BY <1>2, <2>2 DEF IsCurrent
  <2>3. CASE queue' = Append(queue, Close(active.ses))
    <3>1. active.ses = core.ses /\ core.ses \in Requests
      BY <1>0, <1>2 DEF IsCurrent, Cores, SessionIds, Sessions, Requests
    <3>2. Close(core.ses) \in Commands
      BY <3>1 DEF Close, Commands
    <3> QED
      BY <1>0, <1>2, <2>3, <3>1, <3>2, Appended
  <2> QED
    BY <2>1, <2>2, <2>3, OwnersChange DEF begin_video_open, Resized, Dropped
<1>3. ASSUME NEW i \in DOMAIN queue, queue[i] = Close(core.ses), UNCHANGED core
      PROVE  \E j \in DOMAIN queue' : queue'[j] = Close(core'.ses)
  <2>1. CASE UNCHANGED queue
    BY <1>3, <2>1
  <2>2. ASSUME NEW c \in Commands, queue' = Append(queue, c)
        PROVE  \E j \in DOMAIN queue' : queue'[j] = Close(core'.ses)
    BY <1>0, <1>3, <2>2, Appended
  <2>3. CASE WorkerTakes /\ queue # <<>> /\ queue' = Tail(queue)
    <3>1. CASE i = 1
      <4>1. Head(queue) = Close(core.ses)
        BY <1>0, <1>3, <2>3, <3>1, Taken
      <4>2. TakeClose /\ session = Subject
        BY <1>0, <1>3, <2>3, <4>1
           DEF WorkerTakes, TakeOpen, TakeControl, Take, Close, Subject, DecoderIsTheWorkers
      <4>3. core'.state # "playing"
        BY <1>0, <4>2 DEF TakeClose, Stopping, StopIssued, Cores
      <4> QED
        BY <4>3
    <3>2. CASE i # 1
      <4>1. i - 1 \in DOMAIN queue' /\ queue'[i - 1] = queue[i]
        BY <1>0, <1>3, <2>3, <3>2, Taken
      <4> QED
        BY <1>3, <4>1
    <3> QED
      BY <3>1, <3>2
  <2>4. \A r \in Requests : Open(r) \in Commands
    BY DEF Open, Commands
  <2> QED
    BY <2>1, <2>2, <2>3, <2>4, QueueChanges
<1> QED
  BY <1>0, <1>1, <1>2, <1>3, DecoderStep DEF NoGhostPlayback

LEMMA CurrentStep == ASSUME VideoInv, [Next]_vars PROVE CurrentSessionHasDecoder'
<1>0. /\ active \in Playback /\ worker \in Workers /\ CurrentSessionHasDecoder
      /\ ActiveIsCommitted /\ NoSession.ses = None
  BY TypesByName DEF VideoInv, NoSession
<1>1. CASE Committed
  BY <1>1 DEF Committed, Commit, CurrentSessionHasDecoder
<1>2. CASE Resized
  BY <1>0, <1>2 DEF Resized, CurrentSessionHasDecoder, NoSession
<1>3. CASE UNCHANGED active /\ ~Committed
  <2> SUFFICES ASSUME active # NoSession
               PROVE  active.ses = session' \/ (worker'.pc = "retiring" /\ active.ses = worker'.ses)
    BY <1>3 DEF CurrentSessionHasDecoder
  <2>1. active.ses # None
    BY <1>0 DEF ActiveIsCommitted, None
  <2>2. CASE active.ses = session
    <3>1. CASE StopReached
      <4>1. worker' = [[worker EXCEPT !.pc = "retiring"] EXCEPT !.ses = session]
        BY <3>1 DEF StopReached
      <4> QED
        BY <1>0, <2>2, <4>1 DEF Workers
    <3> QED
      BY <1>3, <2>2, <3>1, DecoderStep
  <2>3. CASE worker.pc = "retiring" /\ active.ses = worker.ses
    <3>1. ~RetireStopped
      BY <1>3, <2>1, <2>3, <1>0 DEF RetireStopped, Retired, IsCurrent
    <3>2. UNCHANGED worker
      BY <2>3, <3>1, Frames, FreeWorker
         DEF Works, WorkerTakes, WorkerStep, TakeOpen, TakeControl, TakeClose, Take,
             StopReached, CreateClient, Commit, Load, RefuseLoad, WriteSnapshot,
             StopTimesOut, DrainChange
    <3> QED
      BY <2>3, <3>2
  <2> QED
    BY <1>0, <2>2, <2>3 DEF CurrentSessionHasDecoder
<1>4. CASE active' = NoSession
  BY <1>4 DEF CurrentSessionHasDecoder
<1> QED
  BY <1>1, <1>2, <1>3, <1>4, OwnersChange DEF begin_video_open, Dropped, Committed, Commit

-----------------------------------------------------------------------------
(* The surface                                                             *)

\* How hiding leaves a surface.
LEMMA HiddenSurface ==
    ASSUME NEW sf \in Surfaces, NEW s, NEW leaves \in BOOLEAN, sf.fullscreen => sf.active # None
    PROVE  /\ Hidden(sf, s, leaves) \in Surfaces
           /\ Hidden(sf, s, leaves).latest = sf.latest
           /\ \/ /\ Hidden(sf, s, leaves).active = sf.active
                 /\ Hidden(sf, s, leaves).fullscreen = sf.fullscreen
              \/ /\ Hidden(sf, s, leaves).active = None
                 /\ Hidden(sf, s, leaves).fullscreen = FALSE
           /\ sf.active = s /\ ~HideFailed(sf, s, leaves) =>
                /\ Hidden(sf, s, leaves).active = None
                /\ Hidden(sf, s, leaves).fullscreen = FALSE
<1>1. CASE sf.active # s
  BY <1>1 DEF Hidden
<1>2. CASE sf.active = s /\ sf.fullscreen /\ ~leaves
  <2>1. Hidden(sf, s, leaves) = [[sf EXCEPT !.shown = FALSE] EXCEPT !.controls = None]
    BY <1>2 DEF Hidden
  <2> QED
    BY <1>2, <2>1 DEF Surfaces, SessionIds, HideFailed
<1>3. CASE sf.active = s /\ ~(sf.fullscreen /\ ~leaves)
  <2>1. Hidden(sf, s, leaves) = [[[[sf EXCEPT !.shown = FALSE] EXCEPT !.controls = None]
                                    EXCEPT !.fullscreen = FALSE] EXCEPT !.active = None]
    BY <1>3 DEF Hidden
  <2> QED
    BY <1>3, <2>1 DEF Surfaces, SessionIds, HideFailed
<1> QED
  BY <1>1, <1>2, <1>3

(* Apart from fullscreen, a step leaves the screen to whoever has it, takes *)
(* it away, or gives it to the current session for the first time.         *)
Screened ==
    /\ surface' \in Surfaces
    /\ \/ /\ surface'.active = surface.active /\ surface'.fullscreen = surface.fullscreen
          /\ surface'.latest = surface.latest
       \/ /\ surface'.active = None /\ surface'.fullscreen = FALSE
          /\ surface'.latest = surface.latest
       \/ /\ surface'.active = active.ses /\ surface'.latest = active.ses
          /\ surface.latest < active.ses /\ active.ses # None
          /\ surface'.fullscreen = FALSE /\ UNCHANGED <<player, active>>

LEMMA SurfaceChanges ==
    ASSUME VideoInv, [Next]_vars
    PROVE  Screened \/ \E s \in Sessions : set_fullscreen(s)
<1>0. /\ surface \in Surfaces /\ active \in Playback /\ calls \in [Requests -> Calls]
      /\ surface.fullscreen => surface.active # None
  BY TypesByName DEF VideoInv, FullscreenHasAnOwner
<1>1. ASSUME UNCHANGED surface PROVE Screened
  BY <1>0, <1>1 DEF Screened
<1>2. ASSUME NEW s, NEW leaves \in BOOLEAN, surface' = Hidden(surface, s, leaves)
      PROVE  Screened
  BY <1>0, <1>2, HiddenSurface DEF Screened
<1>3. CASE HideSurface
  BY <1>2, <1>3 DEF HideSurface
<1>4. CASE HideRetired \/ FailToHideRetired
  BY <1>2, <1>4 DEF HideRetired, FailToHideRetired, LoopSurface
<1>5. CASE SyncControls
  BY <1>1, <1>5 DEF SyncControls, LoopSurface
<1>6. CASE FailRender
  BY <1>0, <1>6 DEF FailRender, Screened, Surfaces
<1>7. ASSUME NEW r \in Requests, Activate(r) PROVE Screened
  <2>1. PICK leaves \in BOOLEAN, shown \in BOOLEAN :
          \/ UNCHANGED surface
          \/ surface' = Hidden(surface, surface.active, leaves)
          \/ /\ IsCurrent(calls[r].ses) /\ ~HideFailed(surface, surface.active, leaves)
             /\ ~(calls[r].ses <= Hidden(surface, surface.active, leaves).latest)
             /\ surface' = [Hidden(surface, surface.active, leaves) EXCEPT
                              !.latest = calls[r].ses, !.active = calls[r].ses,
                              !.controls = calls[r].ses, !.shown = shown]
    BY <1>7 DEF Activate
  <2>2. UNCHANGED <<player, active>>
    BY <1>7 DEF Activate, shared
  <2>3. CASE /\ IsCurrent(calls[r].ses) /\ ~HideFailed(surface, surface.active, leaves)
             /\ ~(calls[r].ses <= Hidden(surface, surface.active, leaves).latest)
             /\ surface' = [Hidden(surface, surface.active, leaves) EXCEPT
                              !.latest = calls[r].ses, !.active = calls[r].ses,
                              !.controls = calls[r].ses, !.shown = shown]
    <3> DEFINE h == Hidden(surface, surface.active, leaves)
    <3>1. h \in Surfaces /\ h.latest = surface.latest /\ h.fullscreen = FALSE
      BY <1>0, <2>3, HiddenSurface
    <3> HIDE DEF h
    <3>2. surface' = [[[[h EXCEPT !.latest = calls[r].ses] EXCEPT !.active = calls[r].ses]
                         EXCEPT !.controls = calls[r].ses] EXCEPT !.shown = shown]
      BY <2>3 DEF h
    <3>3. /\ calls[r].ses = active.ses /\ active.ses # None /\ ~(active.ses <= h.latest)
          /\ active.ses \in Sessions
      BY <1>0, <2>3 DEF IsCurrent, Playback, SessionIds, h
    <3>4. surface.latest < active.ses /\ active.ses \in 0 .. MaxRequests
      BY <1>0, <3>1, <3>3, VideoAssumption DEF Surfaces, Sessions
    <3>5. /\ surface' \in Surfaces /\ surface'.active = active.ses
          /\ surface'.latest = active.ses /\ surface'.fullscreen = FALSE
      BY <3>1, <3>2, <3>3, <3>4 DEF Surfaces, SessionIds
    <3> QED
      BY <2>2, <3>3, <3>4, <3>5 DEF Screened
  <2> QED
    BY <1>1, <1>2, <2>1, <2>3
<1>8. ASSUME NEW r \in Requests, HideRefused(r) PROVE Screened
  BY <1>2, <1>8 DEF HideRefused
<1>9. ASSUME NEW s \in Sessions, set_video_bounds(s) PROVE Screened
  <2>1. PICK shown \in BOOLEAN : surface' = [surface EXCEPT !.shown = shown]
    BY <1>9 DEF set_video_bounds
  <2> QED
    BY <1>0, <2>1 DEF Screened, Surfaces
<1>10. ASSUME NEW s \in Sessions, close_video(s) PROVE Screened
  BY <1>1, <1>10 DEF close_video
<1>11. ASSUME NEW r \in Requests, cancel_video_open(r) PROVE Screened
  BY <1>1, <1>11 DEF cancel_video_open
<1>12. CASE UNCHANGED screen
  BY <1>1, <1>12 DEF screen
<1> QED
  BY <1>3, <1>4, <1>5, <1>6, <1>7, <1>8, <1>9, <1>10, <1>11, <1>12, Frames DEF Shows

LEMMA SurfaceStep ==
    ASSUME VideoInv, [Next]_vars
    PROVE  SurfaceInOrder' /\ FullscreenHasAnOwner' /\ surface' \in Surfaces
<1>0. /\ surface \in Surfaces /\ active \in Playback /\ player \in Players
      /\ SurfaceInOrder /\ FullscreenHasAnOwner /\ ActiveIsCommitted
      /\ NoSession.ses = None /\ NoSession.fullscreen = FALSE
  BY TypesByName DEF VideoInv, NoSession
<1>1. ASSUME NEW s \in Sessions, set_fullscreen(s)
      PROVE  SurfaceInOrder' /\ FullscreenHasAnOwner' /\ surface' \in Surfaces
  <2>1. PICK f \in BOOLEAN : /\ surface' = [surface EXCEPT !.fullscreen = f]
                             /\ active' = [active EXCEPT !.fullscreen = f]
    BY <1>1 DEF set_fullscreen
  <2>2. /\ surface' \in Surfaces /\ surface'.fullscreen = f
        /\ surface'.active = surface.active /\ surface'.latest = surface.latest
        /\ active'.fullscreen = f /\ active'.ses = active.ses
    BY <1>0, <2>1 DEF Surfaces, Playback
  <2>3. UNCHANGED player /\ surface.active = active.ses /\ active.ses # None
    BY <1>1 DEF set_fullscreen, IsCurrent
  <2>4. active.ses <= surface.latest
    BY <1>0, <2>3 DEF SurfaceInOrder
  <2> QED
    BY <1>0, <2>2, <2>3, <2>4
       DEF SurfaceInOrder, FullscreenHasAnOwner, IsCurrent, Surfaces, Playback, SessionIds, Sessions,
           None
<1>2. ASSUME Screened, begin_video_open \/ Dropped
      PROVE  SurfaceInOrder' /\ FullscreenHasAnOwner'
  <2>1. player'.sessions = player.sessions /\ (UNCHANGED active \/ active' = NoSession)
    BY <1>0, <1>2 DEF begin_video_open, Dropped, Players
  <2>2. /\ surface.latest \in Nat /\ surface.active \in Nat /\ active.ses \in Nat
        /\ player.sessions \in Nat /\ active.ses <= player.sessions
        /\ active.fullscreen \in BOOLEAN /\ surface.fullscreen \in BOOLEAN
    BY <1>0 DEF Surfaces, Playback, Players, SessionIds, Sessions, None, ActiveIsCommitted
  <2>3. CASE UNCHANGED active
    <3>1. CASE /\ surface'.active = surface.active /\ surface'.fullscreen = surface.fullscreen
               /\ surface'.latest = surface.latest
      BY <1>0, <2>1, <2>2, <2>3, <3>1 DEF SurfaceInOrder, FullscreenHasAnOwner, IsCurrent
    <3>2. CASE /\ surface'.active = None /\ surface'.fullscreen = FALSE
               /\ surface'.latest = surface.latest
      BY <1>0, <2>1, <2>2, <2>3, <3>2 DEF SurfaceInOrder, FullscreenHasAnOwner, IsCurrent, None
    <3>3. CASE /\ surface'.active = active.ses /\ surface'.latest = active.ses
               /\ surface.latest < active.ses /\ active.ses # None
               /\ surface'.fullscreen = FALSE
      <4>1. active.fullscreen = FALSE
        BY <1>0, <2>2, <3>3 DEF SurfaceInOrder
      <4>2. active'.fullscreen = FALSE /\ active'.ses = active.ses
        BY <2>3, <4>1
      <4>3. FullscreenHasAnOwner'
        BY <3>3, <4>2 DEF FullscreenHasAnOwner
      <4> QED
        BY <2>1, <2>2, <3>3, <4>2, <4>3 DEF SurfaceInOrder
    <3> QED
      BY <1>2, <3>1, <3>2, <3>3 DEF Screened
  <2>4. CASE active' = NoSession
    BY <1>0, <1>2, <2>1, <2>2, <2>4
       DEF Screened, SurfaceInOrder, FullscreenHasAnOwner, IsCurrent, None
  <2> QED
    BY <2>1, <2>3, <2>4
<1>3. ASSUME Screened, Committed
      PROVE  SurfaceInOrder' /\ FullscreenHasAnOwner'
  <2>1. /\ active'.ses = player.sessions + 1 /\ active'.fullscreen = FALSE
        /\ player'.sessions = player.sessions + 1 /\ UNCHANGED surface
    BY <1>0, <1>3 DEF Committed, Commit, Players, screen
  <2>2. surface.latest \in Nat /\ surface.active \in Nat /\ player.sessions \in Nat
    BY <1>0 DEF Surfaces, Players, SessionIds, Sessions, None
  <2> QED
    BY <1>0, <2>1, <2>2 DEF SurfaceInOrder, FullscreenHasAnOwner, IsCurrent
<1>4. Screened => surface' \in Surfaces
  BY DEF Screened
<1>5. Resized => \E s \in Sessions : set_fullscreen(s)
  BY DEF Resized
<1> QED
  BY <1>1, <1>2, <1>3, <1>4, <1>5, SurfaceChanges, OwnersChange

-----------------------------------------------------------------------------
(* The remaining types, and the theorems                                   *)

LEMMA TypeStep == ASSUME VideoInv, [Next]_vars PROVE TypeOK'
<1>0. /\ TypeOK /\ player \in Players /\ active \in Playback /\ queue \in Seq(Commands)
      /\ worker \in Workers /\ alive \in BOOLEAN /\ calls \in [Requests -> Calls]
      /\ ui \in SessionIds /\ wakeup \in BOOLEAN /\ timer \in BOOLEAN
      /\ cancelled \subseteq Requests /\ None \in SessionIds /\ surface \in Surfaces
  BY TypesByName DEF VideoInv, SessionIds
<1>1. player' \in Players
  <2>1. CASE begin_video_open
    <3>1. /\ player' = [[player EXCEPT !.next = @ + 1] EXCEPT !.pending = player.next + 1]
          /\ player.next < MaxRequests
      BY <2>1 DEF begin_video_open
    <3>2. player.next + 1 \in 0 .. MaxRequests /\ player.next + 1 \in RequestIds
      BY <1>0, <3>1, VideoAssumption DEF Players, RequestIds, Requests
    <3> QED
      BY <1>0, <3>1, <3>2 DEF Players
  <2>2. CASE Committed
    <3>1. player' = [player EXCEPT !.sessions = player.sessions + 1]
      BY <2>2 DEF Committed, Commit
    <3>2. SessionsCounted'
      BY SessionsStep
    <3> QED
      BY <1>0, <3>1, <3>2, VideoAssumption DEF Players, SessionsCounted
  <2> QED
    BY <1>0, <2>1, <2>2, OwnersChange DEF Resized, Dropped
<1>2. active' \in Playback
  <2>1. CASE Committed
    <3>1. active' = [req |-> worker.req, ses |-> player.sessions + 1, fullscreen |-> FALSE]
          /\ session' = player.sessions + 1
      BY <2>1 DEF Committed, Commit
    <3> QED
      BY <1>0, <3>1, DecoderStep DEF Playback, Workers
  <2>2. NoSession \in Playback
    BY DEF NoSession, Playback, RequestIds, SessionIds
  <2> QED
    BY <1>0, <2>1, <2>2, OwnersChange DEF begin_video_open, Resized, Dropped
<1>3. queue' \in Seq(Commands)
  <2>1. \A r \in Requests : Open(r) \in Commands
    BY DEF Open, Commands
  <2> QED
    BY <1>0, <2>1, Appended, Taken, QueueChanges
<1>4. calls' \in [Requests -> Calls]
  <2>a. ASSUME NEW r, NEW s \in SessionIds, Answer(r, s) PROVE calls' \in [Requests -> Calls]
    <3>1. [pc |-> "done", ses |-> s] \in Calls
      BY DEF Calls
    <3> QED
      BY <1>0, <2>a, <3>1 DEF Answer
  <2>g. ASSUME NEW r, NEW pc \in {"resolving", "resolved", "ready", "waiting", "closing",
                                    "hiding", "begun"},
               calls' = [calls EXCEPT ![r].pc = pc]
        PROVE  calls' \in [Requests -> Calls]
    BY <1>0, <2>g DEF Calls
  <2>u. ASSUME UNCHANGED calls PROVE calls' \in [Requests -> Calls]
    BY <1>0, <2>u
  <2>1. CASE begin_video_open
    BY <2>1, <2>g DEF begin_video_open
  <2>2. ASSUME NEW r \in Requests, StartOpen(r) \/ OpenCall(r)
        PROVE  calls' \in [Requests -> Calls]
    <3>1. calls[r].ses \in SessionIds
      BY <1>0 DEF Calls
    <3>2. \/ Answer(r, None) \/ Answer(r, calls[r].ses)
          \/ \E pc \in {"resolving", "resolved", "ready", "waiting", "closing", "hiding"} :
               Goto(r, pc)
      BY <2>2 DEF StartOpen, OpenCall, ResolveSource, EnsureReady, AskWorker, Activate,
         CloseRefused, HideRefused
    <3> QED
      BY <1>0, <2>a, <2>g, <3>1, <3>2 DEF Goto
  <2>3. CASE TakeOpen
    BY <1>0, <2>3, <2>a, <2>u DEF TakeOpen
  <2>4. CASE Ends
    BY <1>0, <2>4, <2>a, <2>u
       DEF Ends, RetireStopped, StopTimesOut, AfterStop, CreateClient, Commit
  <2>5. CASE Load
    <3>1. calls' = [calls EXCEPT ![worker.req] = [pc |-> "opened", ses |-> worker.ses]]
      BY <2>5 DEF Load
    <3>2. [pc |-> "opened", ses |-> worker.ses] \in Calls
      BY <1>0 DEF Calls, Workers
    <3> QED
      BY <1>0, <3>1, <3>2
  <2> QED
    BY <2>1, <2>2, <2>3, <2>4, <2>5, <2>u, Frames DEF Asks
<1>5. ui' \in SessionIds /\ wakeup' \in BOOLEAN /\ timer' \in BOOLEAN
  <2>1. CASE HideSurface
    BY <1>0, <2>1 DEF HideSurface, loop
  <2>2. CASE HideRetired \/ FailToHideRetired \/ SyncControls
    BY <1>0, <2>2 DEF HideRetired, FailToHideRetired, SyncControls, LoopSurface
  <2>3. CASE FailRender
    BY <1>0, <2>3 DEF FailRender, loop
  <2>4. ASSUME NEW r \in Requests, Activate(r) \/ HideRefused(r) \/ cancel_video_open(r)
        PROVE  ui' \in SessionIds /\ wakeup' \in BOOLEAN /\ timer' \in BOOLEAN
    BY <1>0, <2>4 DEF Activate, HideRefused, cancel_video_open, loop, Playback
  <2>5. ASSUME NEW s \in Sessions, set_video_bounds(s) \/ set_fullscreen(s) \/ close_video(s)
        PROVE  ui' \in SessionIds /\ wakeup' \in BOOLEAN /\ timer' \in BOOLEAN
    BY <1>0, <2>5 DEF set_video_bounds, set_fullscreen, close_video, loop, SessionIds
  <2>6. CASE UNCHANGED screen
    BY <1>0, <2>6 DEF screen, loop
  <2> QED
    BY <2>1, <2>2, <2>3, <2>4, <2>5, <2>6, Frames DEF Shows
<1>6. cancelled' \subseteq Requests
  BY <1>0, Frames DEF cancel_video_open
<1>7. worker' \in Workers /\ core' \in Cores /\ session' \in SessionIds /\ failed' \in BOOLEAN
      /\ surface' \in Surfaces /\ alive' \in BOOLEAN
  BY <1>0, WorkerShapeStep, DecoderStep, SurfaceStep, Frames
<1> QED
  BY <1>1, <1>2, <1>3, <1>4, <1>5, <1>6, <1>7
     DEF TypeOK, Players, Workers, Cores, Calls, Surfaces, Commands

LEMMA VideoStart == ASSUME Init PROVE VideoInv
<1>1. TypeOK
  <2>1. player \in Players /\ active \in Playback
    BY VideoAssumption DEF Init, Players, Playback, RequestIds, SessionIds, NoSession
  <2>2. queue \in Seq(Commands) /\ worker \in Workers
    BY FreeWorker DEF Init
  <2>3. core \in Cores /\ calls \in [Requests -> Calls]
    BY DEF Init, Cores, Calls, SessionIds
  <2>4. surface \in Surfaces
    BY VideoAssumption DEF Init, Surfaces, SessionIds, None
  <2> QED
    BY <2>1, <2>2, <2>3, <2>4, TypesByName DEF Init, SessionIds
<1>2. /\ RequestsInOrder /\ WorkerShape /\ OpensWait /\ NobodyIsServed
      /\ ActiveIsCommitted /\ DecoderIsTheWorkers /\ NoGhostPlayback
      /\ CurrentSessionHasDecoder
  BY DEF Init, RequestsInOrder, At, WorkerShape, OpensWait, NobodyIsServed,
     ActiveIsCommitted, DecoderIsTheWorkers, NoGhostPlayback, CurrentSessionHasDecoder,
     Free, NoSession, None, Requests
<1>3. SessionsCounted
  BY DEF Init, SessionsCounted, None
<1>4. SurfaceInOrder /\ FullscreenHasAnOwner
  BY DEF Init, SurfaceInOrder, FullscreenHasAnOwner, IsCurrent, NoSession, None
<1> QED
  BY <1>1, <1>2, <1>3, <1>4 DEF VideoInv

LEMMA VideoStep == ASSUME VideoInv, [Next]_vars PROVE VideoInv'
<1>1. TypeOK' /\ RequestsInOrder' /\ WorkerShape' /\ OpensWait' /\ SessionsCounted'
  BY TypeStep, RequestsStep, WorkerShapeStep, OpensStep, SessionsStep
<1>2. NobodyIsServed' /\ ActiveIsCommitted' /\ DecoderIsTheWorkers' /\ NoGhostPlayback'
  BY ServedStep, ActiveStep, DecoderStep, GhostStep
<1>3. CurrentSessionHasDecoder' /\ SurfaceInOrder' /\ FullscreenHasAnOwner'
  BY CurrentStep, SurfaceStep
<1> QED
  BY <1>1, <1>2, <1>3 DEF VideoInv

LEMMA VideoAlways == Spec => []VideoInv
BY VideoStart, VideoStep, PTL DEF Spec

(* Whatever plays or can be controlled has one owner: a decoder never plays *)
(* on for a session that was closed, cancelled, failed or replaced, unless  *)
(* the Close that stops it is in the queue; controls of the current session *)
(* reach its own decoder; and every variable keeps its type                 *)
(* (cancel_open, close, fail, the worker's open and close).                 *)
THEOREM PlaybackAlwaysOwned == Spec => []PlaybackIsOwned
<1>1. VideoInv => PlaybackIsOwned
  BY DEF VideoInv, PlaybackIsOwned
<1> QED
  BY <1>1, VideoAlways, PTL

(* The window is fullscreen only while a session can leave it, and the      *)
(* snapshot of that session says so, whatever controls and snapshots cross  *)
(* (set_fullscreen, hide, publish_snapshot).                                *)
THEOREM FullscreenAlwaysOwned == Spec => []FullscreenHasAnOwner
<1>1. VideoInv => FullscreenHasAnOwner
  BY DEF VideoInv
<1> QED
  BY <1>1, VideoAlways, PTL

(* The decoder loads only the newest request, never a cancelled one, for    *)
(* the session that is then current (load_committed).                       *)
THEOREM NewestAloneLoads == Spec => OnlyTheNewestLoads
<1>1. ASSUME VideoInv, [Next]_vars
      PROVE  [(core.state # "playing" /\ core'.state = "playing") =>
                \E r \in Requests :
                   /\ r = player.next /\ r \notin cancelled
                   /\ active.req = r /\ active.ses = core'.ses]_vars
  <2> SUFFICES ASSUME core.state # "playing", core'.state = "playing"
               PROVE  \E r \in Requests : /\ r = player.next /\ r \notin cancelled
                                          /\ active.req = r /\ active.ses = core'.ses
    OBVIOUS
  <2>0. worker \in Workers /\ WorkerShape /\ RequestsInOrder /\ ActiveIsCommitted
    BY <1>1, TypesByName DEF VideoInv
  <2>1. Load
    BY <1>1, DecoderStep
  <2>2. worker.pc = "loading" /\ player.pending = worker.req /\ active.ses = worker.ses
        /\ core'.ses = worker.ses
    BY <2>1 DEF Load, MayLoad, IsCurrent
  <2>3. worker.req \in Requests /\ worker.req # None
    BY <2>0, <2>2 DEF WorkerShape, Workers, RequestIds
  <2>4. worker.req = player.next /\ worker.req \notin cancelled /\ active.req = worker.req
    BY <2>0, <2>2, <2>3 DEF RequestsInOrder, ActiveIsCommitted
  <2> QED
    BY <2>2, <2>3, <2>4
<1> QED
  BY <1>1, VideoAlways, PTL DEF Spec, OnlyTheNewestLoads

====
