----------------------------- MODULE InputBridge -----------------------------
(***************************************************************************)
(* The input path of the native bridge: Android UI threads push events     *)
(* into the bounded queue of InputBridge (input_bridge.cpp), each push     *)
(* wakes the compositor through an eventfd, and the compositor thread      *)
(* drains the queue into the weston seat (gui_host.cpp,                    *)
(* handleWakeEvent and processQueuedInput).  The host's start and stop are *)
(* reduced to what they do to the queue, the wake fd and the seat.         *)
(***************************************************************************)
EXTENDS Integers, Sequences, FiniteSets, SequencesExt

CONSTANTS Keycodes,      \* Android key codes
          LinuxKeys,     \* Linux KEY_* codes
          KEY_RESERVED,  \* what an unmapped key code translates to
          AndroidToLinux,\* the translation table, Keycodes -> LinuxKeys
          Pointers,      \* Android touch pointer ids
          Buttons,       \* mouse buttons
          Positions,     \* screen positions
          Nowhere,       \* no position: finger up, pointer never moved
          MAX_QUEUE_SIZE

ASSUME QueueAssumption == MAX_QUEUE_SIZE \in Nat \ {0}

ASSUME TableAssumption ==
    /\ AndroidToLinux \in [Keycodes -> LinuxKeys \cup {KEY_RESERVED}]
    /\ KEY_RESERVED \notin LinuxKeys
    /\ Nowhere \notin Positions

\* Contacts are numbers; lost names them beside two things that are none.
ASSUME PointerAssumption == "pointer" \notin Pointers /\ "transition" \notin Pointers

VARIABLES
    eventQueue,   \* eventQueue_
    wakeFd,       \* TRUE iff wakeFd_ >= 0
    eventfd,      \* TRUE iff the eventfd counter is non-zero
    host,         \* GuiHost lifecycle: stopped, running or stopping
    comp,         \* compositor thread: poll (in epoll) or drain (popping)
    seat,         \* what the weston seat believes is pressed, and where
    held,         \* what the Android side says is pressed, and where
    stranded,     \* events were queued when the wake fd was installed
    lost          \* what has been dropped since it was last re-established

vars == <<eventQueue, wakeFd, eventfd, host, comp, seat, held, stranded, lost>>

-----------------------------------------------------------------------------
(* Events.  An event carries the fields its type uses.                     *)

KeyEvents    == [type : {"KEY_PRESS", "KEY_RELEASE"}, key : Keycodes]
TouchEvents  == [type : {"TOUCH_DOWN", "TOUCH_UP", "TOUCH_MOVE"},
                 id : Pointers, pos : Positions]
MoveEvents   == [type : {"MOUSE_MOVE"}, pos : Positions]
ButtonEvents == [type : {"MOUSE_DOWN", "MOUSE_UP"},
                 button : Buttons, pos : Positions]
PlainEvents  == [type : {"MOUSE_SCROLL", "TOUCH_CANCEL", "RESET_INPUT"}]
NativeInputEvent ==
    KeyEvents \cup TouchEvents \cup MoveEvents \cup ButtonEvents \cup PlainEvents

RESET_INPUT == [type |-> "RESET_INPUT"]

SeatState == [keys : SUBSET LinuxKeys, buttons : SUBSET Buttons,
              touch : [Pointers -> Positions \cup {Nowhere}],
              pos : Positions \cup {Nowhere}]
HeldState == [keys : SUBSET Keycodes, buttons : SUBSET Buttons,
              touch : [Pointers -> Positions \cup {Nowhere}],
              pos : Positions \cup {Nowhere}]

NoTouch   == [p \in Pointers |-> Nowhere]
EmptySeat == [keys |-> {}, buttons |-> {}, touch |-> NoTouch, pos |-> Nowhere]

IsMotion(evt) == evt.type \in {"TOUCH_MOVE", "MOUSE_MOVE"}

-----------------------------------------------------------------------------
(* The weston seat, as processQueuedInput and reset_input drive it.        *)

\* Mutants: a reset that forgets the keys, or the touches.
ResetSeatKeepsKeys(s) == [s EXCEPT !.touch = NoTouch]
ResetSeatKeepsTouch(s) == [s EXCEPT !.keys = {}]

\* linuxdroid_backend_reset_input: every touch is cancelled and every key
\* released; pointer buttons are left as they are.
ResetSeat(s) == [s EXCEPT !.keys = {}, !.touch = NoTouch]

\* One iteration of the switch in processQueuedInput.
Dispatch(s, evt) ==
    CASE evt.type = "KEY_PRESS" ->
           IF AndroidToLinux[evt.key] = KEY_RESERVED THEN s
           ELSE [s EXCEPT !.keys = @ \cup {AndroidToLinux[evt.key]}]
      [] evt.type = "KEY_RELEASE" ->
           [s EXCEPT !.keys = @ \ {AndroidToLinux[evt.key]}]
      [] evt.type = "MOUSE_MOVE" -> [s EXCEPT !.pos = evt.pos]
      [] evt.type = "MOUSE_DOWN" ->
           [s EXCEPT !.pos = evt.pos, !.buttons = @ \cup {evt.button}]
      [] evt.type = "MOUSE_UP" ->
           [s EXCEPT !.pos = evt.pos, !.buttons = @ \ {evt.button}]
      [] evt.type = "TOUCH_DOWN" -> [s EXCEPT !.touch[evt.id] = evt.pos]
      [] evt.type = "TOUCH_MOVE" ->
           IF s.touch[evt.id] = Nowhere THEN s
           ELSE [s EXCEPT !.touch[evt.id] = evt.pos]
      [] evt.type = "TOUCH_UP" -> [s EXCEPT !.touch[evt.id] = Nowhere]
      [] evt.type = "TOUCH_CANCEL" -> [s EXCEPT !.touch = NoTouch]
      [] evt.type = "RESET_INPUT" -> ResetSeat(s)
      [] evt.type = "MOUSE_SCROLL" -> s

\* A seat to which the events of a queue have been dispatched one by one, and
\* the seat once everything queued has been.
SeatAfter(s, q) ==
    LET run[n \in 0..Len(q)] == IF n = 0 THEN s ELSE Dispatch(run[n - 1], q[n])
    IN  run[Len(q)]
Settled == SeatAfter(seat, eventQueue)

-----------------------------------------------------------------------------
(* InputBridge::pushEventLocked.                                           *)

\* Mutant: moves of different fingers are merged.
CoalescesAnyFinger(q, evt) ==
    q # <<>> /\ IsMotion(evt) /\ Last(q).type = evt.type

Coalesces(q, evt) ==
    /\ q # <<>>
    /\ \/ evt.type = "MOUSE_MOVE" /\ Last(q).type = "MOUSE_MOVE"
       \/ /\ evt.type = "TOUCH_MOVE"
          /\ Last(q).type = "TOUCH_MOVE"
          /\ Last(q).id = evt.id

\* Mutant: one event too many.
FullOffByOne(q) == Len(q) > MAX_QUEUE_SIZE

Full(q) == Len(q) >= MAX_QUEUE_SIZE

\* A motion event that finds the queue full is dropped, without a wake.
Refused(q, evt) == ~Coalesces(q, evt) /\ Full(q) /\ IsMotion(evt)

\* The queue after pushEventLocked(evt).
Pushed(q, evt) ==
    IF Coalesces(q, evt) THEN [q EXCEPT ![Len(q)] = evt]
    ELSE IF Refused(q, evt) THEN q
    ELSE Append(IF Full(q) THEN Tail(q) ELSE q, evt)

\* The event pushEventLocked throws away, as a set of at most one.
Discarded(q, evt) ==
    IF Coalesces(q, evt) \/ ~Full(q) THEN {}
    ELSE IF IsMotion(evt) THEN {evt} ELSE {Head(q)}

\* What a discarded event leaves out of date on the seat ...
Stale(evt) ==
    CASE evt.type \in {"MOUSE_DOWN", "MOUSE_UP"} -> {"transition", "pointer"}
      [] evt.type = "MOUSE_MOVE" -> {"pointer"}
      [] evt.type = "TOUCH_MOVE" -> {evt.id}
      [] evt.type \in {"TOUCH_DOWN", "TOUCH_UP"} -> {"transition", evt.id}
      [] evt.type = "MOUSE_SCROLL" -> {}
      [] OTHER -> {"transition"}

\* ... and what an accepted event brings up to date again.
Refreshed(evt) ==
    CASE evt.type \in {"MOUSE_DOWN", "MOUSE_UP", "MOUSE_MOVE"} -> {"pointer"}
      [] evt.type = "TOUCH_DOWN" -> {evt.id}
      [] OTHER -> {}

\* wakeCompositorLoop, under mutex_ together with the push.
WakeCompositorLoop ==
    /\ eventfd' = (eventfd \/ wakeFd)
    /\ stranded' = (stranded /\ ~wakeFd)

Push(evt) ==
    LET refused == Refused(eventQueue, evt) IN
    /\ eventQueue' = Pushed(eventQueue, evt)
    /\ lost' = (lost \cup UNION {Stale(e) : e \in Discarded(eventQueue, evt)})
                 \ (IF refused THEN {} ELSE Refreshed(evt))
    /\ IF refused THEN UNCHANGED <<eventfd, stranded>> ELSE WakeCompositorLoop
    /\ UNCHANGED <<wakeFd, host, comp, seat>>

-----------------------------------------------------------------------------
(* The Android side.  GuiSurfaceView filters key repeats, so a key is      *)
(* pressed only when it is up, and released only when it is down.          *)

SendKeyEvent(k, isDown) ==
    /\ isDown <=> k \notin held.keys
    /\ held' = [held EXCEPT !.keys = IF isDown THEN @ \cup {k} ELSE @ \ {k}]
    /\ Push([type |-> IF isDown THEN "KEY_PRESS" ELSE "KEY_RELEASE", key |-> k])

SendTouchEvent(action, p, x) ==
    /\ action = "TOUCH_DOWN" <=> held.touch[p] = Nowhere
    /\ held' = [held EXCEPT !.touch[p] =
                    IF action = "TOUCH_UP" THEN Nowhere ELSE x]
    /\ Push([type |-> action, id |-> p, pos |-> x])

SendTouchCancel ==
    /\ held' = [held EXCEPT !.touch = NoTouch]
    /\ Push([type |-> "TOUCH_CANCEL"])

SendMouseButton(b, isDown, x) ==
    /\ isDown <=> b \notin held.buttons
    /\ held' = [held EXCEPT
                  !.buttons = IF isDown THEN @ \cup {b} ELSE @ \ {b}, !.pos = x]
    /\ Push([type |-> IF isDown THEN "MOUSE_DOWN" ELSE "MOUSE_UP",
             button |-> b, pos |-> x])

SendMouseMove(x) ==
    /\ held' = [held EXCEPT !.pos = x]
    /\ Push([type |-> "MOUSE_MOVE", pos |-> x])

SendMouseScroll ==
    /\ UNCHANGED held
    /\ Push([type |-> "MOUSE_SCROLL"])

\* InputBridge::resetInput: focus loss, surface destroyed, gesture cancelled.
ResetInput ==
    /\ eventQueue' = <<RESET_INPUT>>
    /\ WakeCompositorLoop
    /\ lost' = Pointers \cup {"pointer"}
    /\ UNCHANGED <<wakeFd, host, comp, seat, held>>

\* changeNativeWindow and destroyNativeWindow reset the seat directly, from
\* the UI thread.
ChangeNativeWindow ==
    /\ host = "running"
    /\ seat' = ResetSeat(seat)
    /\ lost' = lost \cup Pointers
    /\ UNCHANGED <<eventQueue, wakeFd, eventfd, host, comp, held, stranded>>

-----------------------------------------------------------------------------
(* The compositor thread.                                                  *)

\* Mutant: the eventfd is only watched while the host stops.
HandleWakeEventUnregistered ==
    /\ comp = "poll" /\ eventfd /\ host = "stopping"
    /\ eventfd' = FALSE
    /\ UNCHANGED <<eventQueue, wakeFd, host, comp, seat, held, stranded, lost>>

\* handleWakeEvent: read the eventfd empty, then enter processQueuedInput,
\* which returns at once unless the host is RUNNING.
HandleWakeEvent ==
    /\ comp = "poll" /\ eventfd /\ host # "stopped"
    /\ eventfd' = FALSE
    /\ comp' = IF host = "running" THEN "drain" ELSE "poll"
    /\ UNCHANGED <<eventQueue, wakeFd, host, seat, held, stranded, lost>>

\* popEvent succeeds and the event is dispatched to the seat.
ProcessQueuedInput ==
    /\ comp = "drain" /\ eventQueue # <<>>
    /\ seat' = Dispatch(seat, Head(eventQueue))
    /\ eventQueue' = Tail(eventQueue)
    /\ UNCHANGED <<wakeFd, eventfd, host, comp, held, stranded, lost>>

\* Mutant: the drain returns with events still queued and reads the eventfd
\* once more.
DrainDoneReadsLate ==
    /\ comp = "drain"
    /\ comp' = "poll"
    /\ eventfd' = FALSE
    /\ UNCHANGED <<eventQueue, wakeFd, host, seat, held, stranded, lost>>

\* popEvent finds the queue empty; back to the event loop.
DrainDone ==
    /\ comp = "drain" /\ eventQueue = <<>>
    /\ comp' = "poll"
    /\ UNCHANGED <<eventQueue, wakeFd, eventfd, host, seat, held, stranded, lost>>

\* processFifoKeyInput: a key of the desktop's own keyboard, which comes through
\* a FIFO and not through the queue, is pressed and released at once.  The seat
\* ignores the press of a key that is down, and the release puts it up.
ProcessFifoKeyInput(key) ==
    /\ comp = "poll" /\ host # "stopped"
    /\ seat' = [seat EXCEPT !.keys = @ \ {key}]
    /\ UNCHANGED <<eventQueue, wakeFd, eventfd, host, comp, held, stranded, lost>>

\* GuiHost::enqueueWindowAction writes the host's own wake_fd_, also before
\* InputBridge has been given it.
EnqueueWindowAction ==
    /\ host = "running" /\ ~eventfd
    /\ eventfd' = TRUE
    /\ stranded' = FALSE
    /\ UNCHANGED <<eventQueue, wakeFd, host, comp, seat, held, lost>>

-----------------------------------------------------------------------------
(* The host's lifecycle, seen from the input path.                         *)

\* workerMain reaches RUNNING: a new eventfd, a new seat.
WorkerRunning ==
    /\ host = "stopped"
    /\ host' = "running"
    /\ eventfd' = FALSE
    /\ UNCHANGED <<eventQueue, wakeFd, comp, seat, held, stranded, lost>>

\* start() wakes up, sees RUNNING and only now hands over the wake fd.
StartReturns ==
    /\ host = "running" /\ ~wakeFd
    /\ wakeFd' = TRUE
    /\ stranded' = (eventQueue # <<>>)
    /\ UNCHANGED <<eventQueue, eventfd, host, comp, seat, held, lost>>

\* start() wakes up and sees anything else: initialisation failed, or a
\* stop() got in between.
StartFails ==
    /\ host # "running"
    /\ wakeFd' = FALSE
    /\ eventQueue' = <<>>
    /\ lost' = lost \cup Pointers \cup {"pointer"}
    /\ UNCHANGED <<eventfd, host, comp, seat, held, stranded>>

\* stop(): STOPPING, setWakeFd(-1), clear(), reset_input, terminate, wake.
Stop ==
    /\ host = "running"
    /\ host' = "stopping"
    /\ wakeFd' = FALSE
    /\ eventQueue' = <<>>
    /\ seat' = ResetSeat(seat)
    /\ eventfd' = TRUE
    /\ stranded' = FALSE
    /\ lost' = lost \cup Pointers \cup {"pointer"}
    /\ UNCHANGED <<comp, held>>

\* wl_display_run has returned: the worker clears the queue once more and
\* destroys the compositor, seat included; stop() joins it.
WorkerTeardown ==
    /\ host = "stopping" /\ comp = "poll"
    /\ host' = "stopped"
    /\ eventQueue' = <<>>
    /\ seat' = EmptySeat
    /\ eventfd' = FALSE
    /\ lost' = Pointers \cup {"pointer"}
    /\ UNCHANGED <<wakeFd, comp, held, stranded>>

-----------------------------------------------------------------------------
Init ==
    /\ eventQueue = <<>>
    /\ wakeFd = FALSE
    /\ eventfd = FALSE
    /\ host = "stopped"
    /\ comp = "poll"
    /\ seat = EmptySeat
    /\ held = EmptySeat
    /\ stranded = FALSE
    /\ lost = {}

Compositor == HandleWakeEvent \/ ProcessQueuedInput \/ DrainDone

Next ==
    \/ \E k \in Keycodes, isDown \in BOOLEAN : SendKeyEvent(k, isDown)
    \/ \E p \in Pointers, x \in Positions,
          action \in {"TOUCH_DOWN", "TOUCH_UP", "TOUCH_MOVE"} :
          SendTouchEvent(action, p, x)
    \/ SendTouchCancel
    \/ \E b \in Buttons, isDown \in BOOLEAN, x \in Positions :
          SendMouseButton(b, isDown, x)
    \/ \E x \in Positions : SendMouseMove(x)
    \/ SendMouseScroll
    \/ ResetInput
    \/ ChangeNativeWindow
    \/ Compositor
    \/ \E key \in LinuxKeys : ProcessFifoKeyInput(key)
    \/ EnqueueWindowAction
    \/ WorkerRunning
    \/ StartReturns
    \/ StartFails
    \/ Stop
    \/ WorkerTeardown

\* The compositor thread is a running thread in an event loop: what it can
\* always do, it eventually does.
Spec == Init /\ [][Next]_vars /\ WF_vars(Compositor)

-----------------------------------------------------------------------------
(* Types, and the bound of pushEventLocked: the queue never holds more     *)
(* than MAX_QUEUE_SIZE events, whatever mix of events arrives.             *)
TypeOK ==
    /\ eventQueue \in Seq(NativeInputEvent)
    /\ Len(eventQueue) <= MAX_QUEUE_SIZE
    /\ wakeFd \in BOOLEAN
    /\ eventfd \in BOOLEAN
    /\ host \in {"stopped", "running", "stopping"}
    /\ comp \in {"poll", "drain"}
    /\ seat \in SeatState
    /\ held \in HeldState
    /\ stranded \in BOOLEAN
    /\ lost \subseteq Pointers \cup {"pointer", "transition"}

(* No wake-up is lost: while the compositor sleeps in its event loop and   *)
(* the wake fd is installed, a queued event keeps the eventfd readable.    *)
(* handleWakeEvent empties the eventfd before it pops, never after, and    *)
(* every accepted push writes it under the queue's mutex.  Events queued   *)
(* before setWakeFd have no wake; they are what stranded stands for.       *)
NoLostWakeup ==
    (wakeFd /\ comp = "poll" /\ eventQueue # <<>> /\ ~stranded) => eventfd

(* No stuck input: once the queue is drained, the seat has nothing pressed *)
(* that is not pressed on the Android side, whatever resets, window        *)
(* changes, stops and restarts came in between, as long as the bounded     *)
(* queue has not thrown a press or a release away since the last reset.    *)
NoStuckInput ==
    (host = "running" /\ "transition" \notin lost) =>
        /\ Settled.keys \subseteq {AndroidToLinux[k] : k \in held.keys}
        /\ \A p \in Pointers : held.touch[p] = Nowhere => Settled.touch[p] = Nowhere

(* Coalescing and dropping lose no final position: once the queue is       *)
(* drained, the pointer and every live contact are where Android last put  *)
(* them, unless a full queue or a reset dropped that motion.               *)
LatestMotionKept ==
    (host = "running" /\ "transition" \notin lost) =>
        /\ "pointer" \notin lost => Settled.pos = held.pos
        /\ \A p \in Pointers \ lost : Settled.touch[p] = held.touch[p]

(* What is queued with a wake is eventually drained, or the host stops.    *)
PendingInputDrained ==
    (wakeFd /\ eventQueue # <<>> /\ ~stranded) ~> (comp = "drain" \/ ~wakeFd)
=============================================================================
