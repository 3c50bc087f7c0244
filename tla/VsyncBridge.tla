----------------------------- MODULE VsyncBridge -----------------------------
(***************************************************************************)
(* Frame timing: vsync_bridge.cpp between Android's Choreographer and the  *)
(* repaint loop of the Weston output (linuxdroid_backend.c), with the      *)
(* window calls of gui_host.cpp that pause and resume it.                  *)
(*                                                                         *)
(* Three threads: the looper thread of the bridge, the compositor (the     *)
(* worker of GuiHost, which also creates and stops the bridge) and the UI  *)
(* thread.  The bridge's flags are atomics; timing.state is guarded by its *)
(* mutex.  One action is one atomic access or one critical section.        *)
(* libweston's repaint status and the Choreographer are external.          *)
(***************************************************************************)

VARIABLES
    host,             \* the worker's use of the bridge
    running, paused, wake_requested, callback_pending,
    timing_state,     \* timing.state
    looper,           \* program counter of looperMain and its callback
    event_fd,         \* is the eventfd readable
    frame,            \* the output's repaint: idle, due, submitted, awaiting completion
    attached,         \* has the output a window
    ui                \* the UI thread's place in a window call

flags == <<running, paused, wake_requested, callback_pending>>
window == <<attached, ui>>
vars == <<host, flags, timing_state, looper, event_fd, frame, window>>

TimingStates == {"UNINITIALIZED", "ACTIVE", "PAUSED", "FAILED"}

\* What the constructor makes, and what nobody sees when there is no bridge.
NoBridge ==
    /\ running = FALSE /\ paused = FALSE /\ wake_requested = FALSE /\ callback_pending = FALSE
    /\ timing_state = "UNINITIALIZED"
    /\ looper = "none" /\ event_fd = FALSE /\ frame = "idle"

Init == host = "none" /\ NoBridge /\ attached \in BOOLEAN /\ ui = "idle"

Bridge == host # "none"

-----------------------------------------------------------------------------
(* The worker: create and start, stop, destroy.                            *)

\* linuxdroid_vsync_bridge_start spawns the looper thread and waits for it.
StartBridge ==
    /\ host = "none"
    /\ host' = "starting"
    /\ running' = TRUE /\ paused' = FALSE /\ wake_requested' = FALSE
    /\ looper' = "begin"
    /\ UNCHANGED <<callback_pending, timing_state, event_fd, frame, window>>

\* init_cv: any state but UNINITIALIZED; a failure is only logged.
StartReturns ==
    /\ host = "starting" /\ timing_state # "UNINITIALIZED"
    /\ host' = "running"
    /\ UNCHANGED <<flags, timing_state, looper, event_fd, frame, window>>

StopBridge ==
    /\ host = "running"
    /\ running' = FALSE
    /\ host' = "joining"
    /\ UNCHANGED <<paused, wake_requested, callback_pending, timing_state, looper, event_fd, frame, window>>

\* Mutant: stop() does not join the looper thread.
StopReturnsUnjoined ==
    /\ host = "joining"
    /\ timing_state' = "UNINITIALIZED"
    /\ host' = "stopped"
    /\ UNCHANGED <<flags, looper, event_fd, frame, window>>

StopReturns ==
    /\ host = "joining" /\ looper = "none"
    /\ timing_state' = "UNINITIALIZED"
    /\ host' = "stopped"
    /\ UNCHANGED <<flags, looper, event_fd, frame, window>>

\* The event source is removed and the bridge deleted; the next one is new.
DestroyBridge ==
    /\ host = "stopped"
    /\ host' = "none"
    /\ running' = FALSE /\ paused' = FALSE /\ wake_requested' = FALSE /\ callback_pending' = FALSE
    /\ timing_state' = "UNINITIALIZED"
    /\ event_fd' = FALSE /\ frame' = "idle"
    /\ UNCHANGED <<looper, window>>

-----------------------------------------------------------------------------
(* The looper thread.                                                      *)

\* Mutant: a looper that cannot be prepared is not reported.
LooperFailsSilently ==
    /\ looper = "begin"
    /\ looper' = "none"
    /\ UNCHANGED <<host, flags, timing_state, event_fd, frame, window>>

\* ALooper_prepare fails.
LooperFails ==
    /\ looper = "begin"
    /\ timing_state' = "FAILED"
    /\ looper' = "none"
    /\ UNCHANGED <<host, flags, event_fd, frame, window>>

LooperReady ==
    /\ looper = "begin"
    /\ timing_state' = "ACTIVE"
    /\ looper' = "post"
    /\ UNCHANGED <<host, flags, event_fd, frame, window>>

\* There is no Choreographer ("host test or mock mode"): ACTIVE all the same,
\* but nothing is ever posted and no pulse comes.
LooperUnpaced ==
    /\ looper = "begin"
    /\ timing_state' = "ACTIVE"
    /\ looper' = "unpaced"
    /\ UNCHANGED <<host, flags, event_fd, frame, window>>

UnpacedReturns ==
    /\ looper = "unpaced" /\ ~running
    /\ looper' = "none"
    /\ UNCHANGED <<host, flags, timing_state, event_fd, frame, window>>

\* postNextChoreographerCallback: what callback_pending becomes.
Posted == callback_pending \/ (running /\ ~paused)

\* At the end of a callback, and once at the beginning.
PostNext ==
    /\ looper = "post"
    /\ callback_pending' = Posted
    /\ looper' = "poll"
    /\ UNCHANGED <<host, running, paused, wake_requested, timing_state, event_fd, frame, window>>

\* Mutant: a callback is posted only by the callback before it.
PollReturnsIdle ==
    /\ looper = "poll"
    /\ looper' = IF running THEN "poll" ELSE "none"
    /\ UNCHANGED <<host, flags, timing_state, event_fd, frame, window>>

\* ALooper_pollOnce returns, woken or after 50 ms; a chain that a pause has
\* broken is posted again.
PollReturns ==
    /\ looper = "poll"
    /\ callback_pending' = Posted
    /\ looper' = IF running THEN "poll" ELSE "none"
    /\ UNCHANGED <<host, running, paused, wake_requested, timing_state, event_fd, frame, window>>

\* The Choreographer calls back inside the poll.
VsyncCallback ==
    /\ looper = "poll" /\ callback_pending
    /\ callback_pending' = FALSE
    /\ looper' = "pulse"
    /\ UNCHANGED <<host, running, paused, wake_requested, timing_state, event_fd, frame, window>>

\* Mutant: the request is taken before the state is looked at.
HandleVsyncPulseTakes ==
    /\ looper = "pulse"
    /\ wake_requested' = FALSE
    /\ looper' = IF timing_state # "PAUSED" /\ wake_requested THEN "wake" ELSE "post"
    /\ UNCHANGED <<host, running, paused, callback_pending, timing_state, event_fd, frame, window>>

\* handleVsyncPulse, under the mutex: a pulse that is not paused takes the request.
HandleVsyncPulse ==
    /\ looper = "pulse"
    /\ IF timing_state = "PAUSED"
       THEN looper' = "post" /\ UNCHANGED wake_requested
       ELSE /\ wake_requested' = FALSE
            /\ looper' = IF wake_requested THEN "wake" ELSE "post"
    /\ UNCHANGED <<host, running, paused, callback_pending, timing_state, event_fd, frame, window>>

WakeCompositor ==
    /\ looper = "wake"
    /\ event_fd' = TRUE
    /\ looper' = "post"
    /\ UNCHANGED <<host, flags, timing_state, frame, window>>

-----------------------------------------------------------------------------
(* The compositor's repaint loop.                                          *)

\* libweston: damage, and the loop starts from idle.
ScheduleRepaint ==
    /\ host = "running" /\ frame = "idle"
    /\ frame' = "due"
    /\ UNCHANGED <<host, flags, timing_state, looper, event_fd, window>>

\* linuxdroid_output_repaint: a frame is painted and submitted.
Repaint ==
    /\ host = "running" /\ frame = "due" /\ attached
    /\ frame' = "submitted"
    /\ UNCHANGED <<host, flags, timing_state, looper, event_fd, window>>

\* Without a window, or when a buffer or a renderbuffer is missing, the frame
\* is over at once: weston_output_finish_frame.
RepaintDropped ==
    /\ host = "running" /\ frame = "due"
    /\ frame' = "idle"
    /\ UNCHANGED <<host, flags, timing_state, looper, event_fd, window>>

RequestWake ==
    /\ host = "running" /\ frame = "submitted"
    /\ wake_requested' = TRUE
    /\ frame' = "awaiting"
    /\ UNCHANGED <<host, running, paused, callback_pending, timing_state, looper, event_fd, window>>

\* Mutant: the eventfd is not read.
HandleVsyncEventUnread ==
    /\ host = "running" /\ event_fd /\ frame # "submitted"
    /\ frame' = IF frame = "awaiting" THEN "idle" ELSE frame
    /\ UNCHANGED <<host, flags, timing_state, looper, event_fd, window>>

\* linuxdroid_backend_handle_vsync_event, from the event loop: between repaints.
HandleVsyncEvent ==
    /\ host = "running" /\ event_fd /\ frame # "submitted"
    /\ event_fd' = FALSE
    /\ frame' = IF frame = "awaiting" THEN "idle" ELSE frame
    /\ UNCHANGED <<host, flags, timing_state, looper, window>>

-----------------------------------------------------------------------------
(* The UI thread, under window_mutex_.                                     *)

\* setNativeWindow, changeNativeWindow: the output gets the window, then the
\* bridge, if there is one, resumes.
SetNativeWindow ==
    /\ ui = "idle"
    /\ attached' = TRUE
    /\ ui' = "resume"
    /\ UNCHANGED <<host, flags, timing_state, looper, event_fd, frame>>

Resume ==
    /\ ui = "resume"
    /\ IF Bridge THEN paused' = FALSE /\ timing_state' = "ACTIVE"
                 ELSE UNCHANGED <<paused, timing_state>>
    /\ ui' = "idle"
    /\ UNCHANGED <<host, running, wake_requested, callback_pending, looper, event_fd, frame, attached>>

\* destroyNativeWindow: the bridge pauses, then the output loses the window.
DestroyNativeWindow ==
    /\ ui = "idle"
    /\ IF Bridge THEN paused' = TRUE /\ timing_state' = "PAUSED"
                 ELSE UNCHANGED <<paused, timing_state>>
    /\ ui' = "detach"
    /\ UNCHANGED <<host, running, wake_requested, callback_pending, looper, event_fd, frame, attached>>

Detach ==
    /\ ui = "detach"
    /\ attached' = FALSE
    /\ ui' = "idle"
    /\ UNCHANGED <<host, flags, timing_state, looper, event_fd, frame>>

-----------------------------------------------------------------------------

Looper ==
    \/ LooperFails \/ LooperReady \/ LooperUnpaced \/ UnpacedReturns
    \/ PostNext \/ PollReturns \/ VsyncCallback \/ HandleVsyncPulse \/ WakeCompositor

Next ==
    \/ StartBridge \/ StartReturns \/ StopBridge \/ StopReturns \/ DestroyBridge
    \/ Looper
    \/ ScheduleRepaint \/ Repaint \/ RepaintDropped \/ RequestWake \/ HandleVsyncEvent
    \/ SetNativeWindow \/ Resume \/ DestroyNativeWindow \/ Detach

\* The threads run, and a posted callback is called at a vsync.  Nothing makes
\* a window come or the host stop.
Fairness ==
    /\ WF_vars(LooperFails \/ LooperReady \/ LooperUnpaced)
    /\ WF_vars(UnpacedReturns) /\ WF_vars(PostNext) /\ WF_vars(PollReturns)
    /\ WF_vars(VsyncCallback) /\ WF_vars(HandleVsyncPulse) /\ WF_vars(WakeCompositor)
    /\ WF_vars(StartReturns) /\ WF_vars(StopReturns) /\ WF_vars(DestroyBridge)
    /\ WF_vars(RequestWake) /\ WF_vars(HandleVsyncEvent)
    /\ WF_vars(Resume) /\ WF_vars(Detach)

Spec == Init /\ [][Next]_vars /\ Fairness

-----------------------------------------------------------------------------
(* Properties.                                                             *)

\* The flags and counters keep their types, and the looper thread, which uses
\* the bridge, never outlives it.
TypeOK ==
    /\ host \in {"none", "starting", "running", "joining", "stopped"}
    /\ {running, paused, wake_requested, callback_pending, event_fd, attached} \subseteq BOOLEAN
    /\ timing_state \in TimingStates
    /\ looper \in {"none", "begin", "unpaced", "post", "poll", "pulse", "wake"}
    /\ frame \in {"idle", "due", "submitted", "awaiting"}
    /\ ui \in {"idle", "resume", "detach"}
    /\ looper # "none" => host \in {"starting", "running", "joining"}

\* A frame that awaits its completion has a wake still to come: requested,
\* taken by the pulse in progress, or in the eventfd.  No pause, resume or
\* pulse in between loses it.
NoLostCompletion ==
    frame = "awaiting" => wake_requested \/ looper = "wake" \/ event_fd

\* Zero-wake idle: the compositor is woken only for a frame that awaits its
\* completion, however late the pulse comes.
IdleIsQuiet ==
    wake_requested \/ looper = "wake" \/ event_fd => frame = "awaiting"

\* A submitted frame is completed unless the display is paused, the bridge is
\* on its way down, its looper could not be made or it has no Choreographer to
\* pulse it: pauses and resumes at any point never break the chain of callbacks
\* for good.
FrameCompletes ==
    frame = "awaiting" ~>
        (frame # "awaiting" \/ paused \/ ~running \/ looper \in {"none", "unpaced"})

\* Starting and stopping the bridge return, with a looper that failed or that
\* has no Choreographer too.
BridgeCallsReturn ==
    /\ host = "starting" ~> host = "running"
    /\ host = "joining" ~> host = "none"
=============================================================================
