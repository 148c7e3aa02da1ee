--------------------------- MODULE VideoSessions ---------------------------
(***************************************************************************)
(* Video playback: requests, sessions, the playback worker and the native  *)
(* surface (src-tauri/src/services/video_player_service.rs,                *)
(* video_events.rs, video_source_service.rs, commands/video.rs,            *)
(* video_surface.rs).                                                      *)
(*                                                                         *)
(* Four actors share one decoder.  Async open_video tasks follow a request *)
(* from begin_video_open to a session.  The GTK main thread runs the sync  *)
(* commands, the surface and its controls loop.  One worker thread owns    *)
(* the decoder and executes Open, Control and Close from an unbounded      *)
(* queue.  The decoder itself stops, fails and reports on its own.  What   *)
(* they agree on is PlayerState, behind one mutex: the request that may    *)
(* still open (pending) and the session that plays (active).               *)
(***************************************************************************)
EXTENDS Naturals, Sequences, FiniteSets

CONSTANTS
    MaxRequests,    \* bound: begin_video_open calls
    MaxControls     \* bound: Control commands waiting in the worker's queue

ASSUME VideoAssumption == MaxRequests \in Nat \ {0} /\ MaxControls \in Nat

VARIABLES
    player,         \* PlayerState: next_request_id, pending, next_session_id
    active,         \* PlayerState::active
    queue,          \* the WorkerCommand channel
    worker,         \* what the playback worker is doing
    alive,          \* libmpv and the worker thread started
    session,        \* PlaybackWorker::session
    core,           \* libmpv: idle, playing or stopping, and for whom
    failed,         \* an error event waits in the session's event client
    calls,          \* the open_video call of each request
    ui,             \* the sync command the main thread is in
    surface,        \* VideoSurface
    wakeup, timer,  \* the controls loop: its channel, and what it waits for
    cancelled       \* history: requests whose cancellation was acknowledged

shared == <<player, active>>
decoder == <<alive, session, core, failed>>
loop == <<wakeup, timer>>
screen == <<ui, surface, loop>>
vars == <<player, active, queue, worker, alive, session, core, failed, calls,
          ui, surface, wakeup, timer, cancelled>>

None == 0
Requests == 1 .. MaxRequests
Sessions == 1 .. MaxRequests        \* a request commits at most one session
NoSession == [req |-> None, ses |-> None, fullscreen |-> FALSE]
Free == [pc |-> "idle", job |-> "none", req |-> None, ses |-> None, copy |-> FALSE]

Init ==
    /\ player = [next |-> 0, pending |-> None, sessions |-> 0]
    /\ active = NoSession
    /\ queue = <<>>
    /\ worker = Free
    /\ alive \in BOOLEAN
    /\ session = None
    /\ core = [state |-> "idle", ses |-> None]
    /\ failed = FALSE
    /\ calls = [r \in Requests |-> [pc |-> "unborn", ses |-> None]]
    /\ ui = None
    /\ surface = [latest |-> 0, active |-> None, fullscreen |-> FALSE,
                  shown |-> FALSE, controls |-> None]
    /\ wakeup = FALSE /\ timer = FALSE
    /\ cancelled = {}

-----------------------------------------------------------------------------
(* PlayerState and the queue.                                              *)

IsCurrent(s) == s # None /\ active.ses = s
Open(r) == [op |-> "open", arg |-> r]
Control(s) == [op |-> "control", arg |-> s]
Close(s) == [op |-> "close", arg |-> s]
enqueue(c) == IF alive THEN Append(queue, c) ELSE queue

\* retire: the session stops being current, and its request stops pending.
Retired(s) ==
    IF IsCurrent(s)
    THEN /\ active' = NoSession
         /\ player' = [player EXCEPT !.pending = IF @ = active.req THEN None ELSE @]
    ELSE UNCHANGED shared

\* VideoPlayerService::close, from a worker that left q in the queue.
closeFrom(q, s) ==
    /\ Retired(s)
    /\ queue' = IF IsCurrent(s) THEN Append(q, Close(s)) ELSE q

close(s) == closeFrom(queue, s)

-----------------------------------------------------------------------------
(* The surface.  Every operation runs on the main thread.                  *)

MainThread == ui = None

\* VideoSurface::hide; leaves is whether the window leaves fullscreen.
Hidden(sf, s, leaves) ==
    IF sf.active # s THEN sf
    ELSE IF sf.fullscreen /\ ~leaves
         THEN [sf EXCEPT !.shown = FALSE, !.controls = None]
         ELSE [sf EXCEPT !.shown = FALSE, !.controls = None,
                         !.fullscreen = FALSE, !.active = None]

HideFailed(sf, s, leaves) == sf.active = s /\ sf.fullscreen /\ ~leaves

-----------------------------------------------------------------------------
(* Sync commands.                                                          *)

begin_video_open ==
    /\ MainThread
    /\ player.next < MaxRequests
    /\ player' = [player EXCEPT !.next = @ + 1, !.pending = player.next + 1]
    /\ calls' = [calls EXCEPT ![player.next + 1].pc = "begun"]
    /\ UNCHANGED <<active, queue, worker, decoder, screen, cancelled>>

\* Mutant of cancel_video_open: it forgets a session the worker committed.
CancelOnlyPending(r) ==
    /\ MainThread
    /\ r <= player.next
    /\ player' = [player EXCEPT !.pending = IF @ = r THEN None ELSE @]
    /\ cancelled' = cancelled \cup {r}
    /\ IF active.req = r
       THEN active' = NoSession /\ ui' = active.ses
       ELSE UNCHANGED <<active, ui>>
    /\ UNCHANGED <<queue, worker, decoder, calls, surface, loop>>

(* cancel_open also finds a session committed before open_video returned;  *)
(* the command then hides it.  Its own player.close finds nothing to do.   *)
cancel_video_open(r) ==
    /\ MainThread
    /\ r <= player.next
    /\ player' = [player EXCEPT !.pending = IF @ = r THEN None ELSE @]
    /\ cancelled' = cancelled \cup {r}
    /\ IF active.req = r
       THEN /\ active' = NoSession
            /\ queue' = enqueue(Close(active.ses))
            /\ ui' = active.ses
       ELSE UNCHANGED <<active, queue, ui>>
    /\ UNCHANGED <<worker, decoder, calls, surface, loop>>

close_video(s) ==
    /\ MainThread
    /\ s <= player.sessions
    /\ close(s)
    /\ ui' = s
    /\ UNCHANGED <<worker, decoder, calls, surface, loop, cancelled>>

\* The second half of close_video and cancel_video_open.
HideSurface ==
    /\ ui # None
    /\ \E leaves \in BOOLEAN : surface' = Hidden(surface, ui, leaves)
    /\ ui' = None
    /\ UNCHANGED <<shared, queue, worker, decoder, calls, loop, cancelled>>

\* A Control for the current session, whichever value it carries.
SendControl(s) ==
    /\ IsCurrent(s)
    /\ Cardinality({i \in DOMAIN queue : queue[i].op = "control"}) < MaxControls
    /\ queue' = Append(queue, Control(s))
    /\ UNCHANGED <<shared, worker, decoder, calls, screen, cancelled>>

control_video(s) == MainThread /\ SendControl(s)

\* The buttons, sliders and keys of the native controls act on their session.
NativeControl == MainThread /\ SendControl(surface.controls)

set_video_bounds(s) ==
    /\ MainThread
    /\ IsCurrent(s) /\ surface.active = s
    /\ \E shown \in BOOLEAN : surface' = [surface EXCEPT !.shown = shown]
    /\ UNCHANGED <<shared, queue, worker, decoder, calls, ui, loop, cancelled>>

\* Window, surface and snapshot change together under the player's mutex.
set_fullscreen(s) ==
    /\ MainThread
    /\ IsCurrent(s) /\ surface.active = s
    /\ \E fullscreen \in BOOLEAN :
         /\ surface' = [surface EXCEPT !.fullscreen = fullscreen]
         /\ active' = [active EXCEPT !.fullscreen = fullscreen]
    /\ UNCHANGED <<player, queue, worker, decoder, calls, ui, loop, cancelled>>

-----------------------------------------------------------------------------
(* open_video, step by step.                                               *)

At(r, pc) == calls[r].pc = pc
Goto(r, pc) == calls' = [calls EXCEPT ![r].pc = pc]
Answer(r, s) == calls' = [calls EXCEPT ![r] = [pc |-> "done", ses |-> s]]

ValidArguments == BOOLEAN       \* bounds and control labels
SourceResolved == BOOLEAN       \* an indexed video inside its scan roots
ContextReady == BOOLEAN         \* the GL area realized with a render context

\* Bad arguments or a request that no longer pends end the call at once.
StartOpen(r) ==
    /\ At(r, "begun")
    /\ \E valid \in ValidArguments :
         IF valid /\ player.pending = r THEN Goto(r, "resolving") ELSE Answer(r, None)
    /\ UNCHANGED <<shared, queue, worker, decoder, screen, cancelled>>

\* resolve_video_path on a blocking thread, then require_pending again.
ResolveSource(r) ==
    /\ At(r, "resolving")
    /\ \E resolved \in SourceResolved :
         IF resolved /\ player.pending = r THEN Goto(r, "resolved") ELSE Answer(r, None)
    /\ UNCHANGED <<shared, queue, worker, decoder, screen, cancelled>>

\* The GL area is realized if need be; its render context may have failed.
EnsureReady(r) ==
    /\ At(r, "resolved")
    /\ MainThread
    /\ \E ready \in ContextReady : IF ready THEN Goto(r, "ready") ELSE Answer(r, None)
    /\ UNCHANGED <<shared, queue, worker, decoder, screen, cancelled>>

AskWorker(r) ==
    /\ At(r, "ready")
    /\ IF alive /\ player.pending = r
       THEN Goto(r, "waiting") /\ queue' = enqueue(Open(r))
       ELSE Answer(r, None) /\ UNCHANGED queue
    /\ UNCHANGED <<shared, worker, decoder, screen, cancelled>>

\* Mutant of Activate: the controls loop is not told.
ActivateSilently(r) ==
    /\ At(r, "opened")
    /\ MainThread
    /\ \E leaves, shown \in BOOLEAN :
         LET s == calls[r].ses
             hidden == Hidden(surface, surface.active, leaves)
         IN IF ~IsCurrent(s)
            THEN UNCHANGED surface /\ Goto(r, "closing")
            ELSE IF HideFailed(surface, surface.active, leaves) \/ s <= hidden.latest
            THEN surface' = hidden /\ Goto(r, "closing")
            ELSE /\ surface' = [hidden EXCEPT !.latest = s, !.active = s,
                                              !.controls = s, !.shown = shown]
                 /\ Answer(r, s)
    /\ UNCHANGED <<shared, queue, worker, decoder, ui, loop, cancelled>>

(* The previous session is hidden, and this one takes the surface unless a *)
(* newer one had it; all under the player's mutex, after require_current.  *)
Activate(r) ==
    /\ At(r, "opened")
    /\ MainThread
    /\ \E leaves, shown \in BOOLEAN :
         LET s == calls[r].ses
             hidden == Hidden(surface, surface.active, leaves)
         IN IF ~IsCurrent(s)
            THEN UNCHANGED <<surface, wakeup>> /\ Goto(r, "closing")
            ELSE IF HideFailed(surface, surface.active, leaves) \/ s <= hidden.latest
            THEN surface' = hidden /\ Goto(r, "closing") /\ UNCHANGED wakeup
            ELSE /\ surface' = [hidden EXCEPT !.latest = s, !.active = s,
                                              !.controls = s, !.shown = shown]
                 /\ wakeup' = TRUE
                 /\ Answer(r, s)
    /\ UNCHANGED <<shared, queue, worker, decoder, ui, timer, cancelled>>

CloseRefused(r) ==
    /\ At(r, "closing")
    /\ close(calls[r].ses)
    /\ Goto(r, "hiding")
    /\ UNCHANGED <<worker, decoder, screen, cancelled>>

HideRefused(r) ==
    /\ At(r, "hiding")
    /\ MainThread
    /\ \E leaves \in BOOLEAN : surface' = Hidden(surface, calls[r].ses, leaves)
    /\ Answer(r, None)
    /\ UNCHANGED <<shared, queue, worker, decoder, ui, loop, cancelled>>

-----------------------------------------------------------------------------
(* The controls loop and the GL area.                                      *)

LoopWakes == MainThread /\ (timer \/ wakeup)
LoopSurface(sf) ==      \* one turn that leaves the surface sf
    /\ surface' = sf
    /\ timer' = (sf.active # None)
    /\ wakeup' = IF timer THEN wakeup ELSE FALSE
    /\ UNCHANGED <<shared, queue, worker, decoder, calls, ui, cancelled>>

RetiredSurface == surface.active # None /\ ~IsCurrent(surface.active)

\* A retired session leaves the screen; if the window stays, next turn again.
HideRetired ==
    /\ LoopWakes /\ RetiredSurface
    /\ LoopSurface(Hidden(surface, surface.active, TRUE))

FailToHideRetired ==
    /\ LoopWakes /\ RetiredSurface
    /\ surface.fullscreen
    /\ LoopSurface(Hidden(surface, surface.active, FALSE))

SyncControls ==
    /\ LoopWakes /\ ~RetiredSurface
    /\ LoopSurface(surface)

\* A GL error while drawing: the session fails and the area is hidden.
FailRender ==
    /\ MainThread
    /\ surface.shown /\ surface.controls # None
    /\ close(surface.controls)
    /\ surface' = [surface EXCEPT !.shown = FALSE]
    /\ UNCHANGED <<worker, decoder, calls, ui, loop, cancelled>>

-----------------------------------------------------------------------------
(* The playback worker.                                                    *)

Take(op) == worker = Free /\ queue # <<>> /\ Head(queue).op = op /\ queue' = Tail(queue)
Subject == Head(queue).arg

StopIssued == core' = IF core.state = "playing" THEN [core EXCEPT !.state = "stopping"]
                                                ELSE core
Stopping(job, r) ==
    /\ worker' = [Free EXCEPT !.pc = "stopping", !.job = job, !.req = r]
    /\ StopIssued
    /\ UNCHANGED <<alive, session, failed>>

\* Mutant of TakeOpen: it waits until somebody closed the previous session.
TakeOpenWhenIdle ==
    /\ Take("open")
    /\ session = None
    /\ IF player.pending = Subject
       THEN Stopping("open", Subject) /\ UNCHANGED calls
       ELSE Answer(Subject, None) /\ UNCHANGED <<worker, decoder>>
    /\ UNCHANGED <<shared, screen, cancelled>>

TakeOpen ==
    /\ Take("open")
    /\ IF player.pending = Subject
       THEN Stopping("open", Subject) /\ UNCHANGED calls
       ELSE Answer(Subject, None) /\ UNCHANGED <<worker, decoder>>
    /\ UNCHANGED <<shared, screen, cancelled>>

\* publish_snapshot copies the playback state and reads the decoder ...
Snapshot(s) == [Free EXCEPT !.pc = "writing", !.ses = s, !.copy = active.fullscreen]

\* A control of a retired session is dropped; any other publishes a snapshot.
TakeControl ==
    /\ Take("control")
    /\ worker' = IF IsCurrent(Subject)
                 THEN Snapshot(Subject) ELSE Free
    /\ UNCHANGED <<shared, decoder, calls, screen, cancelled>>

TakeClose ==
    /\ Take("close")
    /\ IF session = Subject THEN Stopping("close", None)
                            ELSE UNCHANGED <<worker, decoder>>
    /\ UNCHANGED <<shared, calls, screen, cancelled>>

\* How a job that stopped, or could not stop, the decoder goes on.
AfterStop(next) ==
    IF worker.job = "open" /\ next
    THEN worker' = [worker EXCEPT !.pc = "creating", !.ses = None] /\ UNCHANGED calls
    ELSE /\ worker' = Free
         /\ IF worker.job = "close" THEN UNCHANGED calls ELSE Answer(worker.req, None)

\* The decoder is idle: its session is taken and its events are drained.
StopReached ==
    /\ worker.pc = "stopping" /\ core.state = "idle"
    /\ worker' = [worker EXCEPT !.pc = "retiring", !.ses = session]
    /\ session' = None /\ failed' = FALSE
    /\ UNCHANGED <<shared, queue, alive, core, calls, screen, cancelled>>

StopTimesOut ==
    /\ worker.pc = "stopping" /\ core.state # "idle"
    /\ AfterStop(FALSE)
    /\ UNCHANGED <<shared, queue, decoder, screen, cancelled>>

\* Mutant of RetireStopped: the stopped session stays current.
StopWithoutRetiring ==
    /\ worker.pc = "retiring"
    /\ AfterStop(TRUE)
    /\ UNCHANGED <<shared, queue, decoder, screen, cancelled>>

RetireStopped ==
    /\ worker.pc = "retiring"
    /\ Retired(worker.ses)
    /\ AfterStop(TRUE)
    /\ UNCHANGED <<queue, decoder, screen, cancelled>>

\* require_pending once more, then a new event client, which may be refused.
CreateClient ==
    /\ worker.pc = "creating"
    /\ \/ player.pending = worker.req /\ worker' = [worker EXCEPT !.pc = "committing"]
          /\ UNCHANGED calls
       \/ worker' = Free /\ Answer(worker.req, None)
    /\ UNCHANGED <<shared, queue, decoder, screen, cancelled>>

Commit ==
    /\ worker.pc = "committing"
    /\ IF player.pending = worker.req
       THEN LET s == player.sessions + 1 IN
            /\ player' = [player EXCEPT !.sessions = s]
            /\ active' = [req |-> worker.req, ses |-> s, fullscreen |-> FALSE]
            /\ session' = s
            /\ worker' = [worker EXCEPT !.pc = "loading", !.ses = s]
            /\ UNCHANGED calls
       ELSE /\ worker' = Free
            /\ Answer(worker.req, None)
            /\ UNCHANGED <<shared, session>>
    /\ UNCHANGED <<queue, alive, core, failed, screen, cancelled>>

MayLoad == player.pending = worker.req /\ IsCurrent(worker.ses)

\* Mutant of Load: what Commit checked is not checked again.
LoadUnchecked ==
    /\ worker.pc = "loading"
    /\ core' = [state |-> "playing", ses |-> worker.ses]
    /\ worker' = Free
    /\ calls' = [calls EXCEPT ![worker.req] = [pc |-> "opened", ses |-> worker.ses]]
    /\ UNCHANGED <<shared, queue, alive, session, failed, screen, cancelled>>

(* load_committed: the check and loadfile share the mutex, so that no      *)
(* cancellation falls between them.                                        *)
Load ==
    /\ worker.pc = "loading" /\ MayLoad
    /\ core' = [state |-> "playing", ses |-> worker.ses]
    /\ worker' = Free
    /\ calls' = [calls EXCEPT ![worker.req] = [pc |-> "opened", ses |-> worker.ses]]
    /\ UNCHANGED <<shared, queue, alive, session, failed, screen, cancelled>>

\* Cancelled, superseded or refused by libmpv: closed again, and stopped.
RefuseLoad ==
    /\ worker.pc = "loading"
    /\ close(worker.ses)
    /\ Stopping("load", worker.req)
    /\ UNCHANGED <<calls, screen, cancelled>>

\* Mutant of WriteSnapshot: the copy overwrites a newer fullscreen flag.
WriteStaleSnapshot ==
    /\ worker.pc = "writing"
    /\ active' = IF IsCurrent(worker.ses)
                 THEN [active EXCEPT !.fullscreen = worker.copy] ELSE active
    /\ worker' = Free
    /\ UNCHANGED <<player, queue, decoder, calls, screen, cancelled>>

\* ... and writes it back, but for the flag the main thread owns.
WriteSnapshot ==
    /\ worker.pc = "writing"
    /\ worker' = Free
    /\ UNCHANGED <<shared, queue, decoder, calls, screen, cancelled>>

\* drain_events: an error of the current session ends it.
DrainError ==
    /\ worker = Free
    /\ failed
    /\ failed' = FALSE
    /\ close(session)
    /\ UNCHANGED <<worker, alive, session, core, calls, screen, cancelled>>

DrainChange ==
    /\ worker = Free
    /\ IsCurrent(session)
    /\ worker' = Snapshot(session)
    /\ UNCHANGED <<shared, queue, decoder, calls, screen, cancelled>>

-----------------------------------------------------------------------------
(* libmpv.                                                                 *)

CoreStops ==
    /\ core.state = "stopping"
    /\ core' = [state |-> "idle", ses |-> None]
    /\ UNCHANGED <<shared, queue, worker, alive, session, failed, calls, screen, cancelled>>

CoreFails ==
    /\ core.state = "playing"
    /\ core' = [state |-> "idle", ses |-> None]
    /\ failed' = TRUE
    /\ UNCHANGED <<shared, queue, worker, alive, session, calls, screen, cancelled>>

-----------------------------------------------------------------------------
SyncCommand ==
    \/ begin_video_open \/ NativeControl
    \/ \E r \in Requests : cancel_video_open(r)
    \/ \E s \in Sessions : close_video(s) \/ control_video(s)
                           \/ set_video_bounds(s) \/ set_fullscreen(s)

OpenCall(r) ==
    \/ ResolveSource(r) \/ EnsureReady(r) \/ AskWorker(r)
    \/ Activate(r) \/ CloseRefused(r) \/ HideRefused(r)

WorkerTakes == TakeOpen \/ TakeControl \/ TakeClose

WorkerStep ==
    \/ StopReached \/ RetireStopped \/ CreateClient
    \/ Commit \/ Load \/ RefuseLoad \/ WriteSnapshot

Next ==
    \/ SyncCommand \/ HideSurface
    \/ \E r \in Requests : StartOpen(r) \/ OpenCall(r)
    \/ HideRetired \/ FailToHideRetired \/ SyncControls
    \/ FailRender
    \/ WorkerTakes \/ WorkerStep \/ StopTimesOut \/ DrainError \/ DrainChange
    \/ CoreStops \/ CoreFails

(* The runtime polls async tasks, GTK serves its main loop, the worker     *)
(* thread keeps running and libmpv completes a stop.  The controls loop    *)
(* may be refused by the window manager, but not every time; the worker    *)
(* takes a command after at most 64 events, however many there are.        *)
Fairness ==
    /\ WF_vars(HideSurface) /\ SF_vars(WorkerTakes) /\ WF_vars(WorkerStep)
    /\ WF_vars(CoreStops)
    /\ \A r \in Requests : SF_vars(OpenCall(r))
    /\ SF_vars(HideRetired)
    /\ WF_vars(SyncControls)

Spec == Init /\ [][Next]_vars /\ Fairness

-----------------------------------------------------------------------------
(* Properties.                                                             *)

SessionIds == Sessions \cup {None}
RequestIds == Requests \cup {None}
Playback == [req : RequestIds, ses : SessionIds, fullscreen : BOOLEAN]

\* Every variable holds what its Rust type and the bounds allow.
TypeOK ==
    /\ player \in [next : 0 .. MaxRequests, pending : RequestIds, sessions : 0 .. MaxRequests]
    /\ active \in Playback
    /\ queue \in Seq([op : {"open", "control", "close"}, arg : Requests])
    /\ worker \in [pc : {"idle", "stopping", "retiring", "creating", "committing",
                         "loading", "writing"},
                   job : {"none", "open", "load", "close"},
                   req : RequestIds, ses : SessionIds, copy : BOOLEAN]
    /\ alive \in BOOLEAN /\ session \in SessionIds /\ failed \in BOOLEAN
    /\ core \in [state : {"idle", "playing", "stopping"}, ses : SessionIds]
    /\ calls \in [Requests -> [pc : {"unborn", "begun", "resolving", "resolved", "ready",
                                     "waiting", "opened", "closing", "hiding", "done"},
                               ses : SessionIds]]
    /\ ui \in SessionIds
    /\ surface \in [latest : 0 .. MaxRequests, active : SessionIds, fullscreen : BOOLEAN,
                    shown : BOOLEAN, controls : SessionIds]
    /\ wakeup \in BOOLEAN /\ timer \in BOOLEAN
    /\ cancelled \subseteq Requests

(* The decoder never loads a request that was superseded by a newer        *)
(* begin_video_open or whose cancellation returned, whatever the worker    *)
(* was doing meanwhile (load_committed).                                   *)
OnlyTheNewestLoads ==
    [][(core.state # "playing" /\ core'.state = "playing") =>
          \E r \in Requests :
             /\ r = player.next /\ r \notin cancelled
             /\ active.req = r /\ active.ses = core'.ses]_vars

(* A decoder that plays is the current session's, or a Close that will     *)
(* stop it is on its way: a closed, cancelled or failed session does not   *)
(* go on playing unseen (cancel_open, close, fail).                        *)
NoGhostPlayback ==
    core.state = "playing" =>
        \/ IsCurrent(core.ses)
        \/ \E i \in DOMAIN queue : queue[i] = Close(core.ses)

(* Controls are executed by whichever decoder the worker holds, after a    *)
(* check of the session only: the current session is always the worker's,  *)
(* or the one the worker is just retiring (stop, open).                    *)
CurrentSessionHasDecoder ==
    active # NoSession =>
        \/ active.ses = session
        \/ worker.pc = "retiring" /\ active.ses = worker.ses

(* Whatever plays or is controlled has exactly one owner, and every         *)
(* variable its type.                                                       *)
PlaybackIsOwned == TypeOK /\ NoGhostPlayback /\ CurrentSessionHasDecoder

(* The surface knows whether the window is fullscreen as long as some      *)
(* session can still leave it, and the snapshot of that session agrees,    *)
(* although publish_snapshot writes it from an older copy.                 *)
FullscreenHasAnOwner ==
    /\ surface.fullscreen => surface.active # None
    /\ IsCurrent(surface.active) => active.fullscreen = surface.fullscreen

(* A session that ended without its surface being hidden (a decoder or     *)
(* render failure, a hide the window manager refused) leaves the screen.   *)
RetiredSurfaceIsHidden == RetiredSurface ~> ~RetiredSurface

\* Every open_video call that got past its first check is answered.
EveryOpenReturns ==
    \A r \in Requests : At(r, "resolving") ~> At(r, "done")
=============================================================================
