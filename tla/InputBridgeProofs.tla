-------------------------- MODULE InputBridgeProofs --------------------------
(* Proofs about InputBridge, for every queue size and every set of keys,   *)
(* pointers, buttons and positions.                                        *)
EXTENDS InputBridge, Extremes, SequenceTheorems, TLAPS

-----------------------------------------------------------------------------
(* Lemmas on the operators of the queue and of the seat.                   *)

(* A queued event is an event, so pushEventLocked, which overwrites the    *)
(* last one, appends or drops the oldest, keeps the queue a queue of       *)
(* events no longer than MAX_QUEUE_SIZE.                                   *)
LEMMA PushedType ==
    ASSUME NEW q \in Seq(NativeInputEvent), Len(q) <= MAX_QUEUE_SIZE,
           NEW evt \in NativeInputEvent
    PROVE  /\ Pushed(q, evt) \in Seq(NativeInputEvent)
           /\ Len(Pushed(q, evt)) <= MAX_QUEUE_SIZE
<1>1. CASE Coalesces(q, evt)
  <2>1. q # <<>> /\ Len(q) \in Nat /\ Len(q) >= 1
    BY <1>1 DEF Coalesces
  <2>2. Pushed(q, evt) = [q EXCEPT ![Len(q)] = evt]
    BY <1>1 DEF Pushed
  <2> QED BY <2>1, <2>2
<1>2. CASE ~Coalesces(q, evt) /\ Refused(q, evt)
  BY <1>2 DEF Pushed
<1>3. CASE ~Coalesces(q, evt) /\ ~Refused(q, evt) /\ Full(q)
  <2>1. q # <<>> /\ Len(q) \in Nat /\ Len(q) = MAX_QUEUE_SIZE
    BY <1>3, QueueAssumption DEF Full
  <2>2. Tail(q) \in Seq(NativeInputEvent) /\ Len(Tail(q)) = Len(q) - 1
    BY <2>1
  <2>3. Pushed(q, evt) = Append(Tail(q), evt)
    BY <1>3 DEF Pushed
  <2> QED BY <2>1, <2>2, <2>3
<1>4. CASE ~Coalesces(q, evt) /\ ~Refused(q, evt) /\ ~Full(q)
  <2>1. Pushed(q, evt) = Append(q, evt)
    BY <1>4 DEF Pushed
  <2>2. Len(q) \in Nat /\ Len(q) < MAX_QUEUE_SIZE
    BY <1>4, QueueAssumption DEF Full
  <2> QED BY <2>1, <2>2, QueueAssumption
<1> QED BY <1>1, <1>2, <1>3, <1>4

(* clear() leaves a queue.                                                 *)
LEMMA ClearedType ==
    <<>> \in Seq(NativeInputEvent) /\ Len(<<>>) <= MAX_QUEUE_SIZE
BY QueueAssumption

(* Resetting or dispatching to the seat leaves a seat.                     *)
LEMMA ResetSeatType ==
    ASSUME NEW s \in SeatState
    PROVE  ResetSeat(s) \in SeatState
BY DEF ResetSeat, SeatState, NoTouch

\* Dispatching any event leaves a well-typed seat.
LEMMA DispatchType ==
    ASSUME NEW s \in SeatState, NEW evt \in NativeInputEvent
    PROVE  Dispatch(s, evt) \in SeatState
<1>1. CASE evt \in KeyEvents
  BY <1>1, TableAssumption DEF KeyEvents, Dispatch, SeatState
<1>2. CASE evt \in TouchEvents
  BY <1>2 DEF TouchEvents, Dispatch, SeatState
<1>3. CASE evt \in MoveEvents
  BY <1>3 DEF MoveEvents, Dispatch, SeatState
<1>4. CASE evt \in ButtonEvents
  BY <1>4 DEF ButtonEvents, Dispatch, SeatState
<1>5. CASE evt \in PlainEvents
  BY <1>5, ResetSeatType DEF PlainEvents, Dispatch, SeatState, NoTouch
<1> QED BY <1>1, <1>2, <1>3, <1>4, <1>5 DEF NativeInputEvent

(* What a push drops or brings up to date stays within lost's range.       *)
LEMMA LostType ==
    ASSUME NEW e \in NativeInputEvent
    PROVE  Stale(e) \subseteq Pointers \cup {"pointer", "transition"}
BY DEF Stale, NativeInputEvent, KeyEvents, TouchEvents, MoveEvents,
       ButtonEvents, PlainEvents

\* A push preserves every type, whichever branch pushEventLocked takes.
LEMMA PushType ==
    ASSUME TypeOK, NEW evt \in NativeInputEvent, Push(evt), held' \in HeldState
    PROVE  TypeOK'
<1> DEFINE gone == Discarded(eventQueue, evt)
<1>1. eventQueue' \in Seq(NativeInputEvent) /\ Len(eventQueue') <= MAX_QUEUE_SIZE
  BY PushedType DEF TypeOK, Push
<1>2. gone \subseteq NativeInputEvent
  <2>1. Full(eventQueue) => eventQueue # <<>>
    BY QueueAssumption DEF Full, TypeOK
  <2> QED BY <2>1 DEF Discarded, TypeOK
<1>3. UNION {Stale(e) : e \in gone} \subseteq Pointers \cup {"pointer", "transition"}
  BY <1>2, LostType
<1>4. lost' \subseteq Pointers \cup {"pointer", "transition"}
  BY <1>3 DEF Push, TypeOK
<1>5. eventfd' \in BOOLEAN /\ stranded' \in BOOLEAN
  BY DEF Push, WakeCompositorLoop, TypeOK
<1> QED BY <1>1, <1>4, <1>5 DEF Push, TypeOK

(* The variables keep their types: the queue never exceeds MAX_QUEUE_SIZE  *)
(* and holds events only, and the seat stays a seat, whichever threads     *)
(* push, reset, drain, start and stop.                                     *)
THEOREM TypeCorrect == Spec => []TypeOK
<1>1. Init => TypeOK
  <2>1. EmptySeat \in SeatState /\ EmptySeat \in HeldState
    BY DEF EmptySeat, SeatState, HeldState, NoTouch
  <2> QED BY <2>1, ClearedType DEF Init, TypeOK
<1>2. TypeOK /\ [Next]_vars => TypeOK'
  <2> SUFFICES ASSUME TypeOK, [Next]_vars PROVE TypeOK'
    OBVIOUS
  <2>1. ASSUME NEW k \in Keycodes, NEW isDown \in BOOLEAN, SendKeyEvent(k, isDown)
        PROVE TypeOK'
    <3>1. held' \in HeldState
      BY <2>1 DEF SendKeyEvent, TypeOK, HeldState
    <3>2. [type |-> IF isDown THEN "KEY_PRESS" ELSE "KEY_RELEASE", key |-> k]
             \in NativeInputEvent
      BY DEF NativeInputEvent, KeyEvents
    <3> QED BY <2>1, <3>1, <3>2, PushType DEF SendKeyEvent
  <2>2. ASSUME NEW p \in Pointers, NEW x \in Positions,
               NEW action \in {"TOUCH_DOWN", "TOUCH_UP", "TOUCH_MOVE"},
               SendTouchEvent(action, p, x)
        PROVE TypeOK'
    <3>1. held' \in HeldState
      BY <2>2 DEF SendTouchEvent, TypeOK, HeldState
    <3>2. [type |-> action, id |-> p, pos |-> x] \in NativeInputEvent
      BY DEF NativeInputEvent, TouchEvents
    <3> QED BY <2>2, <3>1, <3>2, PushType DEF SendTouchEvent
  <2>3. ASSUME SendTouchCancel PROVE TypeOK'
    <3>1. held' \in HeldState
      BY <2>3 DEF SendTouchCancel, TypeOK, HeldState, NoTouch
    <3>2. [type |-> "TOUCH_CANCEL"] \in NativeInputEvent
      BY DEF NativeInputEvent, PlainEvents
    <3> QED BY <2>3, <3>1, <3>2, PushType DEF SendTouchCancel
  <2>4. ASSUME NEW b \in Buttons, NEW isDown \in BOOLEAN, NEW x \in Positions,
               SendMouseButton(b, isDown, x)
        PROVE TypeOK'
    <3>1. held' \in HeldState
      BY <2>4 DEF SendMouseButton, TypeOK, HeldState
    <3>2. [type |-> IF isDown THEN "MOUSE_DOWN" ELSE "MOUSE_UP",
           button |-> b, pos |-> x] \in NativeInputEvent
      BY DEF NativeInputEvent, ButtonEvents
    <3> QED BY <2>4, <3>1, <3>2, PushType DEF SendMouseButton
  <2>5. ASSUME NEW x \in Positions, SendMouseMove(x) PROVE TypeOK'
    <3>1. held' \in HeldState
      BY <2>5 DEF SendMouseMove, TypeOK, HeldState
    <3>2. [type |-> "MOUSE_MOVE", pos |-> x] \in NativeInputEvent
      BY DEF NativeInputEvent, MoveEvents
    <3> QED BY <2>5, <3>1, <3>2, PushType DEF SendMouseMove
  <2>6. ASSUME SendMouseScroll PROVE TypeOK'
    <3>1. held' \in HeldState
      BY <2>6 DEF SendMouseScroll, TypeOK
    <3>2. [type |-> "MOUSE_SCROLL"] \in NativeInputEvent
      BY DEF NativeInputEvent, PlainEvents
    <3> QED BY <2>6, <3>1, <3>2, PushType DEF SendMouseScroll
  <2>7. ASSUME ResetInput PROVE TypeOK'
    <3>1. RESET_INPUT \in NativeInputEvent
      BY DEF RESET_INPUT, NativeInputEvent, PlainEvents
    <3>2. eventQueue' \in Seq(NativeInputEvent) /\ Len(eventQueue') <= MAX_QUEUE_SIZE
      BY <2>7, <3>1, QueueAssumption DEF ResetInput
    <3> QED BY <2>7, <3>2 DEF ResetInput, WakeCompositorLoop, TypeOK
  <2>8. ASSUME ChangeNativeWindow PROVE TypeOK'
    BY <2>8, ResetSeatType DEF ChangeNativeWindow, TypeOK
  <2>9. ASSUME ProcessQueuedInput PROVE TypeOK'
    <3>1. Head(eventQueue) \in NativeInputEvent
      BY <2>9 DEF ProcessQueuedInput, TypeOK
    <3>2. seat' \in SeatState
      BY <2>9, <3>1, DispatchType DEF ProcessQueuedInput, TypeOK
    <3>3. eventQueue' \in Seq(NativeInputEvent) /\ Len(eventQueue') <= MAX_QUEUE_SIZE
      BY <2>9, QueueAssumption DEF ProcessQueuedInput, TypeOK
    <3> QED BY <2>9, <3>2, <3>3 DEF ProcessQueuedInput, TypeOK
  <2>10. ASSUME HandleWakeEvent \/ DrainDone \/ EnqueueWindowAction PROVE TypeOK'
    BY <2>10 DEF HandleWakeEvent, DrainDone, EnqueueWindowAction, TypeOK
  <2>11. ASSUME WorkerRunning \/ StartReturns \/ StartFails PROVE TypeOK'
    <3>1. CASE WorkerRunning
      BY <3>1 DEF WorkerRunning, TypeOK
    <3>2. CASE StartReturns
      BY <3>2 DEF StartReturns, TypeOK
    <3>3. CASE StartFails
      BY <3>3, ClearedType DEF StartFails, TypeOK
    <3> QED BY <2>11, <3>1, <3>2, <3>3
  <2>12. ASSUME Stop \/ WorkerTeardown PROVE TypeOK'
    <3>1. EmptySeat \in SeatState
      BY DEF EmptySeat, SeatState, NoTouch
    <3>2. seat' \in SeatState
      BY <2>12, <3>1, ResetSeatType DEF Stop, WorkerTeardown, TypeOK
    <3> QED BY <2>12, <3>2, ClearedType DEF Stop, WorkerTeardown, TypeOK
  <2>13. ASSUME UNCHANGED vars PROVE TypeOK'
    BY <2>13 DEF vars, TypeOK
  <2>14. ASSUME NEW key \in LinuxKeys, ProcessFifoKeyInput(key) PROVE TypeOK'
    BY <2>14 DEF ProcessFifoKeyInput, TypeOK, SeatState
  <2> QED BY <2>1, <2>2, <2>3, <2>4, <2>5, <2>6, <2>7, <2>8, <2>9, <2>10,
             <2>11, <2>12, <2>13, <2>14 DEF Next, Compositor
<1> QED BY <1>1, <1>2, PTL DEF Spec

-----------------------------------------------------------------------------
(* The wake fd is installed only while the host is RUNNING.  NoLostWakeup  *)
(* needs it: handleWakeEvent empties the eventfd without draining the      *)
(* queue when the host is not RUNNING, and a restart begins with a fresh,  *)
(* empty eventfd.                                                          *)
WakeFdOnlyRunning == wakeFd => host = "running"

WakeInv == WakeFdOnlyRunning /\ NoLostWakeup

(* A push preserves the wake-up invariant: it wakes the compositor unless  *)
(* it left the queue as it was.                                            *)
LEMMA PushWakes ==
    ASSUME TypeOK, WakeInv, NEW evt, Push(evt)
    PROVE  WakeInv'
<1>1. CASE Refused(eventQueue, evt)
  <2>1. eventQueue' = eventQueue
    BY <1>1 DEF Push, Pushed, Refused
  <2> QED BY <1>1, <2>1 DEF Push, WakeInv, WakeFdOnlyRunning, NoLostWakeup
<1>2. CASE ~Refused(eventQueue, evt)
  BY <1>2 DEF Push, WakeCompositorLoop, WakeInv, WakeFdOnlyRunning, NoLostWakeup,
              TypeOK
<1> QED BY <1>1, <1>2

(* No wake-up is ever lost: whenever the compositor sleeps with the wake   *)
(* fd installed, an event pushed since is announced by a readable eventfd, *)
(* for any number of producers and any queue size.                         *)
THEOREM WakeupSafety == Spec => []NoLostWakeup
<1>1. Init => WakeInv
  BY DEF Init, WakeInv, WakeFdOnlyRunning, NoLostWakeup
<1>2. TypeOK /\ WakeInv /\ [Next]_vars => WakeInv'
  <2> SUFFICES ASSUME TypeOK, WakeInv, [Next]_vars PROVE WakeInv'
    OBVIOUS
  <2> USE DEF WakeInv, WakeFdOnlyRunning, NoLostWakeup
  <2>1. ASSUME NEW evt, Push(evt) PROVE WakeInv'
    BY <2>1, PushWakes
  <2>2. ASSUME ResetInput \/ ChangeNativeWindow PROVE WakeInv'
    BY <2>2 DEF ResetInput, ChangeNativeWindow, WakeCompositorLoop, TypeOK
  <2>3. ASSUME HandleWakeEvent PROVE WakeInv'
    BY <2>3 DEF HandleWakeEvent
  <2>4. ASSUME ProcessQueuedInput \/ DrainDone \/ EnqueueWindowAction PROVE WakeInv'
    BY <2>4 DEF ProcessQueuedInput, DrainDone, EnqueueWindowAction
  <2>5. ASSUME WorkerRunning \/ StartReturns \/ StartFails PROVE WakeInv'
    <3>1. CASE WorkerRunning \/ StartFails
      BY <3>1 DEF WorkerRunning, StartFails
    <3>2. CASE StartReturns
      BY <3>2 DEF StartReturns
    <3> QED BY <2>5, <3>1, <3>2
  <2>6. ASSUME Stop \/ WorkerTeardown PROVE WakeInv'
    BY <2>6 DEF Stop, WorkerTeardown
  <2>7. ASSUME UNCHANGED vars PROVE WakeInv'
    BY <2>7 DEF vars
  <2>8. ASSUME NEW key \in LinuxKeys, ProcessFifoKeyInput(key) PROVE WakeInv'
    BY <2>8 DEF ProcessFifoKeyInput
  <2> QED BY <2>1, <2>2, <2>3, <2>4, <2>5, <2>6, <2>7, <2>8
          DEF Next, Compositor, SendKeyEvent, SendTouchEvent, SendTouchCancel,
              SendMouseButton, SendMouseMove, SendMouseScroll
<1>3. WakeInv => NoLostWakeup
  BY DEF WakeInv
<1> QED BY <1>1, <1>2, <1>3, TypeCorrect, PTL DEF Spec

-----------------------------------------------------------------------------
(* What a queue makes of a seat, for a queue of any length.                *)

\* r is what the seat goes through, event by event.
Course(r, s, e, n) ==
    /\ r \in [0..n -> SeatState] /\ r[0] = s
    /\ \A i \in 1..n : r[i] = Dispatch(r[i - 1], e[i])

LEMMA CourseExists ==
    ASSUME NEW s \in SeatState, NEW n \in Nat, NEW e, \A i \in 1..n : e[i] \in NativeInputEvent
    PROVE  \E r : Course(r, s, e, n)
<1> DEFINE T == {m \in Nat : m <= n => \E r : Course(r, s, e, m)}
<1>1. 0 \in T
  <2>1. Course([i \in 0..0 |-> s], s, e, 0)
    BY DEF Course
  <2> QED BY <2>1
<1>2. ASSUME NEW m \in T, m + 1 <= n PROVE \E r : Course(r, s, e, m + 1)
  <2>1. m \in Nat /\ m <= n
    BY <1>2
  <2>2. PICK r : Course(r, s, e, m)
    BY <1>2, <2>1
  <2>3. r[m] \in SeatState /\ e[m + 1] \in NativeInputEvent
    BY <1>2, <2>1, <2>2 DEF Course
  <2>4. PICK d \in SeatState : d = Dispatch(r[m], e[m + 1])
    BY <2>3, DispatchType
  <2> DEFINE t == [i \in 0..(m + 1) |-> IF i <= m THEN r[i] ELSE d]
  <2>5. t \in [0..(m + 1) -> SeatState] /\ t[0] = s
    BY <2>1, <2>2, <2>4 DEF Course
  <2>6. ASSUME NEW i \in 1..(m + 1) PROVE t[i] = Dispatch(t[i - 1], e[i])
    <3>1. CASE i <= m
      <4>1. t[i] = r[i] /\ t[i - 1] = r[i - 1] /\ i \in 1..m
        BY <2>1, <2>6, <3>1
      <4> QED BY <2>2, <4>1 DEF Course
    <3>2. CASE i = m + 1
      <4>1. t[i] = d /\ t[i - 1] = r[m]
        BY <2>1, <3>2
      <4> QED BY <2>4, <3>2, <4>1
    <3> QED BY <2>1, <2>6, <3>1, <3>2
  <2> HIDE DEF t
  <2>7. Course(t, s, e, m + 1)
    BY <2>5, <2>6 DEF Course
  <2> QED BY <2>7
<1>3. T \in SUBSET Nat /\ \A m \in T : m + 1 \in T
  BY <1>2
<1> HIDE DEF T
<1>4. T = Nat
  BY <1>1, <1>3, Induction
<1> QED BY <1>4 DEF T

\* Two seats that start the same and get the same events end the same.
LEMMA SameCourse ==
    ASSUME NEW n \in Nat, NEW r, NEW t, r[0] = t[0],
           \A i \in 1..n : r[i - 1] = t[i - 1] => r[i] = t[i]
    PROVE  r[n] = t[n]
<1> DEFINE T == {m \in Nat : m <= n => r[m] = t[m]}
<1>1. 0 \in T
  OBVIOUS
<1>2. ASSUME NEW m \in T, m + 1 <= n PROVE r[m + 1] = t[m + 1]
  <2>1. m \in Nat /\ m <= n /\ m + 1 \in 1..n /\ (m + 1) - 1 = m
    BY <1>2
  <2>2. r[m] = t[m]
    BY <1>2, <2>1
  <2> QED BY <2>1, <2>2
<1>3. T \in SUBSET Nat /\ \A m \in T : m + 1 \in T
  BY <1>2
<1> HIDE DEF T
<1>4. T = Nat
  BY <1>1, <1>3, Induction
<1> QED BY <1>4 DEF T

LEMMA SeatAfterIs ==
    ASSUME NEW s \in SeatState, NEW q \in Seq(NativeInputEvent)
    PROVE  \E r : Course(r, s, q, Len(q)) /\ SeatAfter(s, q) = r[Len(q)]
<1> DEFINE Runs(r) == r = [n \in 0..Len(q) |-> IF n = 0 THEN s ELSE Dispatch(r[n - 1], q[n])]
           run == CHOOSE r : Runs(r)
<1>1. SeatAfter(s, q) = run[Len(q)]
  BY DEF SeatAfter
<1>2. Len(q) \in Nat /\ \A i \in 1..Len(q) : q[i] \in NativeInputEvent
  OBVIOUS
<1>3. PICK r : Course(r, s, q, Len(q))
  BY <1>2, CourseExists
<1>4. Runs(r)
  <2>1. \A n \in 0..Len(q) : r[n] = IF n = 0 THEN s ELSE Dispatch(r[n - 1], q[n])
    BY <1>2, <1>3 DEF Course
  <2>2. r = [n \in 0..Len(q) |-> r[n]]
    BY <1>3 DEF Course
  <2> QED BY <2>1, <2>2
<1>5. Runs(run)
  BY <1>4
<1> HIDE DEF run
<1>6. run[0] = s /\ \A n \in 1..Len(q) : run[n] = Dispatch(run[n - 1], q[n])
  <2>1. \A n \in 0..Len(q) : run[n] = IF n = 0 THEN s ELSE Dispatch(run[n - 1], q[n])
    BY <1>5
  <2>2. 0 \in 0..Len(q) /\ \A n \in 1..Len(q) : n \in 0..Len(q) /\ n # 0
    BY <1>2
  <2> QED BY <2>1, <2>2
<1> HIDE DEF Runs
<1>7. run[Len(q)] = r[Len(q)]
  <2>1. r[0] = run[0]
    BY <1>3, <1>6 DEF Course
  <2>2. \A i \in 1..Len(q) : r[i - 1] = run[i - 1] => r[i] = run[i]
    BY <1>3, <1>6 DEF Course
  <2>3. PICK n \in Nat : n = Len(q)
    BY <1>2
  <2>4. r[n] = run[n]
    BY <2>1, <2>2, <2>3, SameCourse
  <2> QED BY <2>3, <2>4
<1> QED BY <1>1, <1>3, <1>7

LEMMA SeatAfterType ==
    ASSUME NEW s \in SeatState, NEW q \in Seq(NativeInputEvent)
    PROVE  SeatAfter(s, q) \in SeatState
<1>1. PICK r : Course(r, s, q, Len(q)) /\ SeatAfter(s, q) = r[Len(q)]
  BY SeatAfterIs
<1>2. Len(q) \in 0..Len(q)
  OBVIOUS
<1> QED BY <1>1, <1>2 DEF Course

LEMMA NothingQueued ==
    ASSUME NEW s \in SeatState
    PROVE  SeatAfter(s, <<>>) = s
<1>1. <<>> \in Seq(NativeInputEvent) /\ Len(<<>>) = 0
  OBVIOUS
<1>2. PICK r : Course(r, s, <<>>, 0) /\ SeatAfter(s, <<>>) = r[0]
  BY <1>1, SeatAfterIs
<1> QED BY <1>2 DEF Course

\* The newest event is dispatched last ...
LEMMA NewestLast ==
    ASSUME NEW s \in SeatState, NEW q \in Seq(NativeInputEvent), NEW evt \in NativeInputEvent
    PROVE  SeatAfter(s, Append(q, evt)) = Dispatch(SeatAfter(s, q), evt)
<1> DEFINE a == Append(q, evt)
           n == Len(q)
<1>1. /\ a \in Seq(NativeInputEvent) /\ n \in Nat /\ Len(a) = n + 1 /\ a[n + 1] = evt
      /\ \A i \in 1..n : a[i] = q[i]
  OBVIOUS
<1> HIDE DEF a
<1>2. PICK t : Course(t, s, a, Len(a)) /\ SeatAfter(s, a) = t[Len(a)]
  BY <1>1, SeatAfterIs
<1>3. PICK r : Course(r, s, q, n) /\ SeatAfter(s, q) = r[n]
  BY SeatAfterIs
<1> HIDE DEF n
<1>4. t[n] = r[n]
  <2>1. \A i \in 1..n : t[i - 1] = r[i - 1] => t[i] = r[i]
    BY <1>1, <1>2, <1>3 DEF Course
  <2>2. t[0] = r[0]
    BY <1>2, <1>3 DEF Course
  <2> QED BY <1>1, <2>1, <2>2, SameCourse
<1>5. t[n + 1] = Dispatch(t[n], evt)
  <2>1. n + 1 \in 1..(n + 1) /\ (n + 1) - 1 = n
    BY <1>1
  <2> QED BY <1>1, <1>2, <2>1 DEF Course
<1> QED BY <1>1, <1>2, <1>3, <1>4, <1>5 DEF a

\* ... and the oldest first.
LEMMA OldestFirst ==
    ASSUME NEW s \in SeatState, NEW q \in Seq(NativeInputEvent), q # <<>>
    PROVE  SeatAfter(s, q) = SeatAfter(Dispatch(s, Head(q)), Tail(q))
<1> DEFINE b == Tail(q)
           n == Len(b)
           d == Dispatch(s, Head(q))
<1>1. /\ b \in Seq(NativeInputEvent) /\ n \in Nat /\ Len(q) = n + 1 /\ q[1] = Head(q)
      /\ \A i \in 1..n : b[i] = q[i + 1]
      /\ Head(q) \in NativeInputEvent
  OBVIOUS
<1>2. d \in SeatState
  BY <1>1, DispatchType
<1> HIDE DEF b, d
<1>3. PICK t : Course(t, s, q, Len(q)) /\ SeatAfter(s, q) = t[Len(q)]
  BY SeatAfterIs
<1>4. PICK r : Course(r, d, b, n) /\ SeatAfter(d, b) = r[n]
  BY <1>1, <1>2, SeatAfterIs
<1> HIDE DEF n
<1> DEFINE u == [i \in 0..n |-> t[i + 1]]
<1>5. u[0] = r[0]
  <2>1. t[1] = d
    <3>1. 1 \in 1..Len(q) /\ 1 - 1 = 0
      BY <1>1
    <3> QED BY <1>1, <1>3, <3>1 DEF Course, d
  <2> QED BY <1>1, <1>4, <2>1 DEF Course
<1>6. ASSUME NEW i \in 1..n PROVE u[i] = Dispatch(u[i - 1], b[i]) /\ r[i] = Dispatch(r[i - 1], b[i])
  <2>1. u[i] = t[i + 1] /\ u[i - 1] = t[i] /\ i + 1 \in 1..Len(q) /\ (i + 1) - 1 = i
    BY <1>1, <1>6
  <2>2. t[i + 1] = Dispatch(t[i], q[i + 1])
    BY <1>3, <2>1 DEF Course
  <2> QED BY <1>1, <1>4, <1>6, <2>1, <2>2 DEF Course
<1>7. u[n] = t[n + 1]
  BY <1>1
<1> HIDE DEF u
<1>8. u[n] = r[n]
  <2>1. \A i \in 1..n : u[i - 1] = r[i - 1] => u[i] = r[i]
    BY <1>6
  <2> QED BY <1>1, <1>5, <2>1, SameCourse
<1> QED BY <1>1, <1>3, <1>4, <1>7, <1>8 DEF b, d

-----------------------------------------------------------------------------
(* What the seat settles at.                                               *)

\* s has no more pressed than t, the same contacts down, and differs from t
\* only in the positions that X names.
Behind(s, t, X) ==
    /\ s.keys \subseteq t.keys
    /\ \A p \in Pointers : t.touch[p] = Nowhere => s.touch[p] = Nowhere
    /\ \A p \in Pointers \ X : s.touch[p] = t.touch[p]
    /\ "pointer" \notin X => s.pos = t.pos

\* The seat says what Android says, as far as X does not except it.
Faithful(s, h, X) ==
    /\ s.keys \subseteq {AndroidToLinux[k] : k \in h.keys}
    /\ \A p \in Pointers : h.touch[p] = Nowhere => s.touch[p] = Nowhere
    /\ \A p \in Pointers \ X : s.touch[p] = h.touch[p]
    /\ "pointer" \notin X => s.pos = h.pos

\* A seat that is behind stays behind, whatever is dispatched to both.
LEMMA DispatchBehind ==
    ASSUME NEW s \in SeatState, NEW t \in SeatState, NEW X, Behind(s, t, X), NEW e \in NativeInputEvent
    PROVE  Behind(Dispatch(s, e), Dispatch(t, e), X)
<1>1. CASE e \in KeyEvents
  BY <1>1 DEF KeyEvents, Dispatch, SeatState, Behind
<1>2. CASE e \in TouchEvents
  BY <1>2 DEF TouchEvents, Dispatch, SeatState, Behind
<1>3. CASE e \in MoveEvents
  BY <1>3 DEF MoveEvents, Dispatch, SeatState, Behind
<1>4. CASE e \in ButtonEvents
  BY <1>4 DEF ButtonEvents, Dispatch, SeatState, Behind
<1>5. CASE e \in PlainEvents
  BY <1>5 DEF PlainEvents, Dispatch, SeatState, Behind, ResetSeat, NoTouch
<1> QED BY <1>1, <1>2, <1>3, <1>4, <1>5 DEF NativeInputEvent

LEMMA SeatAfterBehind ==
    ASSUME NEW s \in SeatState, NEW t \in SeatState, NEW X, Behind(s, t, X),
           NEW q \in Seq(NativeInputEvent)
    PROVE  Behind(SeatAfter(s, q), SeatAfter(t, q), X)
<1> DEFINE n == Len(q)
<1>1. n \in Nat /\ \A i \in 1..n : q[i] \in NativeInputEvent
  OBVIOUS
<1>2. PICK r : Course(r, s, q, n) /\ SeatAfter(s, q) = r[n]
  BY SeatAfterIs
<1>3. PICK u : Course(u, t, q, n) /\ SeatAfter(t, q) = u[n]
  BY SeatAfterIs
<1> HIDE DEF n
<1> DEFINE T == {m \in Nat : m <= n => Behind(r[m], u[m], X)}
<1>4. 0 \in T
  BY <1>2, <1>3 DEF Course
<1>5. ASSUME NEW m \in T, m + 1 <= n PROVE Behind(r[m + 1], u[m + 1], X)
  <2>1. /\ m \in Nat /\ m <= n /\ m + 1 \in 1..n /\ (m + 1) - 1 = m /\ m \in 0..n
    BY <1>1, <1>5
  <2>2. Behind(r[m], u[m], X) /\ r[m] \in SeatState /\ u[m] \in SeatState /\ q[m + 1] \in NativeInputEvent
    BY <1>1, <1>2, <1>3, <1>5, <2>1 DEF Course
  <2>3. r[m + 1] = Dispatch(r[m], q[m + 1]) /\ u[m + 1] = Dispatch(u[m], q[m + 1])
    BY <1>2, <1>3, <2>1 DEF Course
  <2> QED BY <2>2, <2>3, DispatchBehind
<1>6. T \in SUBSET Nat /\ \A m \in T : m + 1 \in T
  BY <1>5
<1> HIDE DEF T
<1>7. T = Nat
  BY <1>4, <1>6, Induction
<1>8. Behind(r[n], u[n], X)
  BY <1>1, <1>7 DEF T
<1> QED BY <1>2, <1>3, <1>8

\* What is behind a faithful seat is faithful; nothing but what X and Y name
\* is excepted.
LEMMA BehindFaithful ==
    ASSUME NEW s, NEW t, NEW h, NEW X, NEW Y, Behind(s, t, Y), Faithful(t, h, X)
    PROVE  Faithful(s, h, X \cup Y)
BY DEF Behind, Faithful

LEMMA MoreExcepted ==
    ASSUME NEW s, NEW h, NEW X, NEW Y, X \subseteq Y, Faithful(s, h, X)
    PROVE  Faithful(s, h, Y)
BY DEF Faithful

\* A reset leaves less than anybody holds.
LEMMA ResetBehind ==
    ASSUME NEW s \in SeatState
    PROVE  Behind(ResetSeat(s), s, Pointers)
BY DEF ResetSeat, Behind, SeatState, NoTouch

\* An evicted event that was no transition leaves stale what Stale says.
LEMMA EvictedBehind ==
    ASSUME NEW s \in SeatState, NEW e \in NativeInputEvent, "transition" \notin Stale(e)
    PROVE  Behind(s, Dispatch(s, e), Stale(e))
<1>1. CASE e \in KeyEvents \/ e \in ButtonEvents
  BY <1>1 DEF KeyEvents, ButtonEvents, Stale
<1>2. CASE e \in TouchEvents
  <2>1. e.type = "TOUCH_MOVE" /\ Stale(e) = {e.id} /\ e.id \in Pointers
    BY <1>2 DEF TouchEvents, Stale
  <2>2. Dispatch(s, e) = IF s.touch[e.id] = Nowhere THEN s ELSE [s EXCEPT !.touch[e.id] = e.pos]
    BY <2>1 DEF Dispatch
  <2>3. CASE s.touch[e.id] = Nowhere
    BY <2>2, <2>3 DEF Behind
  <2>4. CASE s.touch[e.id] # Nowhere
    <3> DEFINE d == Dispatch(s, e)
    <3>1. d.touch = [s.touch EXCEPT ![e.id] = e.pos] /\ d.keys = s.keys /\ d.pos = s.pos
      BY <2>2, <2>4 DEF SeatState
    <3>2. d.touch[e.id] # Nowhere /\ \A p \in Pointers : p # e.id => d.touch[p] = s.touch[p]
      BY <1>2, <2>1, <3>1, TableAssumption DEF SeatState, TouchEvents
    <3> HIDE DEF d
    <3>3. Behind(s, d, Stale(e))
      BY <2>1, <2>4, <3>1, <3>2 DEF Behind
    <3> QED BY <3>3 DEF d
  <2> QED BY <2>3, <2>4
<1>3. CASE e \in MoveEvents
  BY <1>3 DEF MoveEvents, Stale, Dispatch, SeatState, Behind
<1>4. CASE e \in PlainEvents
  BY <1>4 DEF PlainEvents, Stale, Dispatch, SeatState, Behind
<1> QED BY <1>1, <1>2, <1>3, <1>4 DEF NativeInputEvent

\* The queue whose last event a motion is merged into.
LEMMA CoalescedIs ==
    ASSUME NEW q \in Seq(NativeInputEvent), NEW evt \in NativeInputEvent, Coalesces(q, evt)
    PROVE  \E f \in Seq(NativeInputEvent), old \in NativeInputEvent :
              /\ q = Append(f, old) /\ Pushed(q, evt) = Append(f, evt)
              /\ evt.type = old.type /\ evt.type \in {"MOUSE_MOVE", "TOUCH_MOVE"}
              /\ evt.type = "TOUCH_MOVE" => old.id = evt.id
<1>1. q # <<>> /\ Len(q) \in Nat \ {0} /\ Last(q) = q[Len(q)] /\ Pushed(q, evt) = [q EXCEPT ![Len(q)] = evt]
  BY DEF Coalesces, Pushed, Last
<1> DEFINE n == Len(q)
           f == [i \in 1..(n - 1) |-> q[i]]
           old == q[n]
<1>2. f \in Seq(NativeInputEvent) /\ Len(f) = n - 1 /\ old \in NativeInputEvent
  BY <1>1
<1>3. q = Append(f, old)
  BY <1>1, <1>2
<1>4. Pushed(q, evt) = Append(f, evt)
  <2>1. /\ Pushed(q, evt) \in Seq(NativeInputEvent) /\ Len(Pushed(q, evt)) = n
        /\ \A i \in 1..n : Pushed(q, evt)[i] = IF i = n THEN evt ELSE q[i]
    BY <1>1
  <2>2. /\ Append(f, evt) \in Seq(NativeInputEvent) /\ Len(Append(f, evt)) = n
        /\ \A i \in 1..n : Append(f, evt)[i] = IF i = n THEN evt ELSE q[i]
    BY <1>1, <1>2
  <2>3. \A i \in 1..n : Pushed(q, evt)[i] = Append(f, evt)[i]
    BY <2>1, <2>2
  <2> HIDE DEF f, n
  <2> QED BY <2>1, <2>2, <2>3, SeqEqual
<1>5. /\ evt.type = old.type /\ evt.type \in {"MOUSE_MOVE", "TOUCH_MOVE"}
      /\ evt.type = "TOUCH_MOVE" => old.id = evt.id
  BY <1>1 DEF Coalesces
<1> HIDE DEF f, old
<1> QED BY <1>2, <1>3, <1>4, <1>5

-----------------------------------------------------------------------------
(* The inductive invariant: what the seat settles at is faithful as long   *)
(* as no transition has been thrown away, also while the host is stopped   *)
(* and events queue up for the next one, whose seat is empty.              *)
SettledFaithful ==
    host # "stopping" /\ "transition" \notin lost => Faithful(Settled, held, lost)
FaithInv ==
    /\ host = "stopped" => seat = EmptySeat /\ comp = "poll"
    /\ SettledFaithful

\* What Android has just done to what it holds, and the event about it.
Follows(h, g, evt) ==
    \A s \in SeatState : \A X :
        /\ Faithful(s, h, X) => Faithful(Dispatch(s, evt), g, X \ Refreshed(evt))
        /\ IsMotion(evt) /\ Faithful(s, h, X) => Faithful(s, g, X \cup Stale(evt))
        /\ \A old \in NativeInputEvent :
              /\ evt.type = old.type /\ evt.type \in {"MOUSE_MOVE", "TOUCH_MOVE"}
              /\ evt.type = "TOUCH_MOVE" => old.id = evt.id
              /\ Faithful(Dispatch(s, old), h, X)
              => Faithful(Dispatch(s, evt), g, X \ Refreshed(evt))

\* A push, whichever branch pushEventLocked takes.
LEMMA PushFaithful ==
    ASSUME TypeOK, SettledFaithful, NEW evt \in NativeInputEvent, Push(evt), Follows(held, held', evt)
    PROVE  SettledFaithful'
<1> DEFINE q == eventQueue
           gone == Discarded(q, evt)
<1>1. /\ q \in Seq(NativeInputEvent) /\ seat \in SeatState /\ seat' = seat /\ host' = host
      /\ eventQueue' = Pushed(q, evt) /\ Settled = SeatAfter(seat, q)
      /\ Settled' = SeatAfter(seat, Pushed(q, evt))
  BY DEF TypeOK, Push, Settled
<1>2. lost' = (lost \cup UNION {Stale(e) : e \in gone}) \ (IF Refused(q, evt) THEN {} ELSE Refreshed(evt))
  BY DEF Push
<1>3. "transition" \notin Refreshed(evt)
  BY PointerAssumption
     DEF Refreshed, NativeInputEvent, KeyEvents, TouchEvents, MoveEvents, ButtonEvents, PlainEvents
<1> HIDE DEF q
<1> SUFFICES ASSUME host # "stopping", "transition" \notin lost'
             PROVE  Faithful(SeatAfter(seat, Pushed(q, evt)), held', lost')
  BY <1>1 DEF SettledFaithful
<1>4. Faithful(SeatAfter(seat, q), held, lost)
  BY <1>1, <1>2, <1>3 DEF SettledFaithful
<1>5. CASE Coalesces(q, evt)
  <2>1. lost' = lost \ Refreshed(evt)
    BY <1>2, <1>5 DEF Refused, Discarded
  <2>2. PICK f \in Seq(NativeInputEvent), old \in NativeInputEvent :
              /\ q = Append(f, old) /\ Pushed(q, evt) = Append(f, evt)
              /\ evt.type = old.type /\ evt.type \in {"MOUSE_MOVE", "TOUCH_MOVE"}
              /\ evt.type = "TOUCH_MOVE" => old.id = evt.id
    BY <1>1, <1>5, CoalescedIs
  <2>3. /\ SeatAfter(seat, q) = Dispatch(SeatAfter(seat, f), old) /\ SeatAfter(seat, f) \in SeatState
        /\ SeatAfter(seat, Pushed(q, evt)) = Dispatch(SeatAfter(seat, f), evt)
    BY <1>1, <2>2, NewestLast, SeatAfterType
  <2> QED BY <1>4, <2>1, <2>2, <2>3 DEF Follows
<1>6. CASE Refused(q, evt)
  <2>1. ~Coalesces(q, evt) /\ Full(q) /\ IsMotion(evt) /\ Pushed(q, evt) = q /\ gone = {evt}
    BY <1>6 DEF Refused, Pushed, Discarded
  <2>2. lost' = lost \cup Stale(evt)
    BY <1>2, <1>6, <2>1
  <2>3. SeatAfter(seat, q) \in SeatState
    BY <1>1, SeatAfterType
  <2> QED BY <1>4, <2>1, <2>2, <2>3 DEF Follows
<1>7. CASE ~Coalesces(q, evt) /\ ~Refused(q, evt) /\ ~Full(q)
  <2>1. Pushed(q, evt) = Append(q, evt) /\ gone = {}
    BY <1>7 DEF Pushed, Discarded
  <2>2. lost' = lost \ Refreshed(evt)
    BY <1>2, <1>7, <2>1
  <2>3. SeatAfter(seat, Append(q, evt)) = Dispatch(SeatAfter(seat, q), evt) /\ SeatAfter(seat, q) \in SeatState
    BY <1>1, NewestLast, SeatAfterType
  <2> QED BY <1>4, <2>1, <2>2, <2>3 DEF Follows
<1>8. CASE ~Coalesces(q, evt) /\ ~Refused(q, evt) /\ Full(q)
  <2> DEFINE first == Head(q)
             rest == Tail(q)
             stale == Stale(first)
  <2>1. Pushed(q, evt) = Append(rest, evt) /\ gone = {first}
    BY <1>8 DEF Pushed, Discarded, Refused
  <2>2. lost' = (lost \cup stale) \ Refreshed(evt)
    <3> HIDE DEF stale
    <3>1. UNION {Stale(e) : e \in gone} = stale
      BY <2>1 DEF stale
    <3> QED BY <1>2, <1>8, <3>1
  <2>3. q # <<>> /\ first \in NativeInputEvent /\ rest \in Seq(NativeInputEvent)
    BY <1>1, <1>8, QueueAssumption DEF Full
  <2>4. "transition" \notin stale
    BY <1>3, <2>2
  <2> HIDE DEF first, rest, stale
  <2>5. Behind(seat, Dispatch(seat, first), stale) /\ Dispatch(seat, first) \in SeatState
    BY <1>1, <2>3, <2>4, EvictedBehind, DispatchType DEF stale
  <2>6. Behind(SeatAfter(seat, rest), SeatAfter(Dispatch(seat, first), rest), stale)
    BY <1>1, <2>3, <2>5, SeatAfterBehind
  <2>7. SeatAfter(seat, q) = SeatAfter(Dispatch(seat, first), rest)
    BY <1>1, <2>3, OldestFirst DEF first, rest
  <2>8. Faithful(SeatAfter(seat, rest), held, lost \cup stale)
    BY <1>4, <2>6, <2>7, BehindFaithful
  <2>9. /\ SeatAfter(seat, Append(rest, evt)) = Dispatch(SeatAfter(seat, rest), evt)
        /\ SeatAfter(seat, rest) \in SeatState
    BY <1>1, <2>3, NewestLast, SeatAfterType
  <2> QED BY <2>1, <2>2, <2>8, <2>9 DEF Follows
<1> QED BY <1>5, <1>6, <1>7, <1>8

\* The events of the Android side follow what it holds.
LEMMA KeyFollows ==
    ASSUME TypeOK, NEW k \in Keycodes, NEW isDown \in BOOLEAN, SendKeyEvent(k, isDown)
    PROVE  Follows(held, held', [type |-> IF isDown THEN "KEY_PRESS" ELSE "KEY_RELEASE", key |-> k])
<1> DEFINE evt == [type |-> IF isDown THEN "KEY_PRESS" ELSE "KEY_RELEASE", key |-> k]
<1>1. held \in HeldState /\ held' = [held EXCEPT !.keys = IF isDown THEN @ \cup {k} ELSE @ \ {k}]
  BY DEF SendKeyEvent, TypeOK
<1>2. /\ held'.touch = held.touch /\ held'.pos = held.pos
      /\ held'.keys = IF isDown THEN held.keys \cup {k} ELSE held.keys \ {k}
  BY <1>1 DEF HeldState
<1>3. ~IsMotion(evt) /\ evt.type \notin {"MOUSE_MOVE", "TOUCH_MOVE"} /\ Refreshed(evt) = {}
  BY DEF IsMotion, Refreshed
<1>4. ASSUME NEW s \in SeatState, NEW X, Faithful(s, held, X)
      PROVE  Faithful(Dispatch(s, evt), held', X)
  <2>1. CASE isDown
    <3>1. Dispatch(s, evt) = IF AndroidToLinux[k] = KEY_RESERVED THEN s
                             ELSE [s EXCEPT !.keys = @ \cup {AndroidToLinux[k]}]
      BY <2>1 DEF Dispatch
    <3> QED BY <1>2, <1>4, <2>1, <3>1 DEF Faithful, SeatState
  <2>2. CASE ~isDown
    <3>1. Dispatch(s, evt) = [s EXCEPT !.keys = @ \ {AndroidToLinux[k]}]
      BY <2>2 DEF Dispatch
    <3> QED BY <1>2, <1>4, <2>2, <3>1 DEF Faithful, SeatState
  <2> QED BY <2>1, <2>2
<1> HIDE DEF evt
<1>5. Follows(held, held', evt)
  BY <1>3, <1>4 DEF Follows
<1> QED BY <1>5 DEF evt

LEMMA TouchFollows ==
    ASSUME TypeOK, NEW p \in Pointers, NEW x \in Positions,
           NEW action \in {"TOUCH_DOWN", "TOUCH_UP", "TOUCH_MOVE"}, SendTouchEvent(action, p, x)
    PROVE  Follows(held, held', [type |-> action, id |-> p, pos |-> x])
<1> DEFINE evt == [type |-> action, id |-> p, pos |-> x]
           y == IF action = "TOUCH_UP" THEN Nowhere ELSE x
<1>1. /\ held \in HeldState /\ held' = [held EXCEPT !.touch[p] = y]
      /\ action = "TOUCH_DOWN" <=> held.touch[p] = Nowhere
  BY DEF SendTouchEvent, TypeOK
<1>2. /\ held'.keys = held.keys /\ held'.pos = held.pos /\ held'.touch[p] = y
      /\ \A o \in Pointers \ {p} : held'.touch[o] = held.touch[o]
  BY <1>1 DEF HeldState
<1>3. x # Nowhere
  BY TableAssumption
<1>4. evt.type = action /\ evt.id = p /\ evt.pos = x
  OBVIOUS
<1>5. ASSUME NEW s \in SeatState
      PROVE  LET d == Dispatch(s, evt) IN
             /\ d.keys = s.keys /\ d.pos = s.pos /\ \A o \in Pointers \ {p} : d.touch[o] = s.touch[o]
             /\ d.touch[p] = IF action = "TOUCH_MOVE" /\ s.touch[p] = Nowhere THEN Nowhere ELSE y
  <2>1. CASE action = "TOUCH_DOWN"
    BY <1>4, <2>1 DEF Dispatch, SeatState
  <2>2. CASE action = "TOUCH_UP"
    BY <1>4, <2>2 DEF Dispatch, SeatState
  <2>3. CASE action = "TOUCH_MOVE"
    BY <1>4, <2>3 DEF Dispatch, SeatState
  <2> QED BY <2>1, <2>2, <2>3
<1> HIDE DEF evt
<1>6. Refreshed(evt) = IF action = "TOUCH_DOWN" THEN {p} ELSE {}
  BY <1>4 DEF Refreshed
<1>7. action = "TOUCH_MOVE" => Stale(evt) = {p}
  BY <1>4 DEF Stale
<1>8. ASSUME NEW s \in SeatState, NEW X, Faithful(s, held, X)
      PROVE  Faithful(Dispatch(s, evt), held', X \ Refreshed(evt))
  BY <1>1, <1>2, <1>3, <1>5, <1>6, <1>8, PointerAssumption DEF Faithful
<1>9. ASSUME NEW s \in SeatState, NEW X, Faithful(s, held, X), action = "TOUCH_MOVE"
      PROVE  Faithful(s, held', X \cup Stale(evt))
  BY <1>1, <1>2, <1>3, <1>7, <1>9 DEF Faithful
<1>10. ASSUME NEW s \in SeatState, NEW X, NEW old \in NativeInputEvent, old.type = "TOUCH_MOVE",
              old.id = p, action = "TOUCH_MOVE", Faithful(Dispatch(s, old), held, X)
       PROVE  Faithful(Dispatch(s, evt), held', X \ Refreshed(evt))
  <2>1. old \in TouchEvents
    BY <1>10 DEF NativeInputEvent, KeyEvents, TouchEvents, MoveEvents, ButtonEvents, PlainEvents
  <2>2. LET d == Dispatch(s, old) IN
        /\ d.keys = s.keys /\ d.pos = s.pos /\ \A o \in Pointers \ {p} : d.touch[o] = s.touch[o]
        /\ s.touch[p] = Nowhere => d.touch[p] = Nowhere
    BY <1>10, <2>1 DEF Dispatch, SeatState
  <2> QED BY <1>1, <1>2, <1>3, <1>5, <1>6, <1>10, <2>2 DEF Faithful
<1>11. Follows(held, held', evt)
  BY <1>4, <1>8, <1>9, <1>10 DEF Follows, IsMotion
<1> QED BY <1>11 DEF evt

LEMMA CancelFollows ==
    ASSUME TypeOK, SendTouchCancel
    PROVE  Follows(held, held', [type |-> "TOUCH_CANCEL"])
<1> DEFINE evt == [type |-> "TOUCH_CANCEL"]
<1>1. /\ held'.keys = held.keys /\ held'.pos = held.pos /\ held'.touch = NoTouch
  BY DEF SendTouchCancel, TypeOK, HeldState
<1>2. ~IsMotion(evt) /\ evt.type \notin {"MOUSE_MOVE", "TOUCH_MOVE"} /\ Refreshed(evt) = {}
  BY DEF IsMotion, Refreshed
<1>3. ASSUME NEW s \in SeatState, NEW X, Faithful(s, held, X)
      PROVE  Faithful(Dispatch(s, evt), held', X)
  <2>1. Dispatch(s, evt) = [s EXCEPT !.touch = NoTouch]
    BY DEF Dispatch
  <2> QED BY <1>1, <1>3, <2>1 DEF Faithful, SeatState, NoTouch
<1> HIDE DEF evt
<1>4. Follows(held, held', evt)
  BY <1>2, <1>3 DEF Follows
<1> QED BY <1>4 DEF evt

LEMMA ButtonFollows ==
    ASSUME TypeOK, NEW b \in Buttons, NEW isDown \in BOOLEAN, NEW x \in Positions,
           SendMouseButton(b, isDown, x)
    PROVE  Follows(held, held', [type |-> IF isDown THEN "MOUSE_DOWN" ELSE "MOUSE_UP",
                                 button |-> b, pos |-> x])
<1> DEFINE evt == [type |-> IF isDown THEN "MOUSE_DOWN" ELSE "MOUSE_UP", button |-> b, pos |-> x]
<1>1. /\ held'.keys = held.keys /\ held'.pos = x /\ held'.touch = held.touch
  BY DEF SendMouseButton, TypeOK, HeldState
<1>2. ~IsMotion(evt) /\ evt.type \notin {"MOUSE_MOVE", "TOUCH_MOVE"} /\ Refreshed(evt) = {"pointer"}
  BY DEF IsMotion, Refreshed
<1>3. ASSUME NEW s \in SeatState
      PROVE  Dispatch(s, evt).keys = s.keys /\ Dispatch(s, evt).pos = x /\ Dispatch(s, evt).touch = s.touch
  BY DEF Dispatch, SeatState
<1> HIDE DEF evt
<1>4. Follows(held, held', evt)
  BY <1>1, <1>2, <1>3, PointerAssumption DEF Follows, Faithful
<1> QED BY <1>4 DEF evt

LEMMA MoveFollows ==
    ASSUME TypeOK, NEW x \in Positions, SendMouseMove(x)
    PROVE  Follows(held, held', [type |-> "MOUSE_MOVE", pos |-> x])
<1> DEFINE evt == [type |-> "MOUSE_MOVE", pos |-> x]
<1>1. /\ held'.keys = held.keys /\ held'.pos = x /\ held'.touch = held.touch
  BY DEF SendMouseMove, TypeOK, HeldState
<1>2. evt.type = "MOUSE_MOVE" /\ Refreshed(evt) = {"pointer"} /\ Stale(evt) = {"pointer"}
  BY DEF Refreshed, Stale
<1>3. ASSUME NEW s \in SeatState, NEW e, e.type = "MOUSE_MOVE"
      PROVE  /\ Dispatch(s, e).keys = s.keys /\ Dispatch(s, e).pos = e.pos
             /\ Dispatch(s, e).touch = s.touch
  BY <1>3 DEF Dispatch, SeatState
<1>4. evt.pos = x
  OBVIOUS
<1> HIDE DEF evt
<1>5. Follows(held, held', evt)
  BY <1>1, <1>2, <1>3, <1>4, PointerAssumption DEF Follows, Faithful
<1> QED BY <1>5 DEF evt

LEMMA ScrollFollows ==
    ASSUME TypeOK, SendMouseScroll
    PROVE  Follows(held, held', [type |-> "MOUSE_SCROLL"])
<1> DEFINE evt == [type |-> "MOUSE_SCROLL"]
<1>1. held' = held
  BY DEF SendMouseScroll
<1>2. ~IsMotion(evt) /\ evt.type \notin {"MOUSE_MOVE", "TOUCH_MOVE"} /\ Refreshed(evt) = {}
  BY DEF IsMotion, Refreshed
<1>3. \A s : Dispatch(s, evt) = s
  BY DEF Dispatch
<1> HIDE DEF evt
<1>4. Follows(held, held', evt)
  BY <1>1, <1>2, <1>3 DEF Follows
<1> QED BY <1>4 DEF evt

LEMMA FaithStep == TypeOK /\ FaithInv /\ [Next]_vars => FaithInv'
<1> SUFFICES ASSUME TypeOK, FaithInv, [Next]_vars PROVE FaithInv'
  OBVIOUS
<1>0. /\ SettledFaithful /\ eventQueue \in Seq(NativeInputEvent) /\ seat \in SeatState
      /\ host = "stopped" => seat = EmptySeat /\ comp = "poll"
      /\ Settled = SeatAfter(seat, eventQueue)
  BY DEF FaithInv, TypeOK, Settled
<1>a. EmptySeat \in SeatState /\ Faithful(EmptySeat, held, Pointers \cup {"pointer"})
  BY DEF EmptySeat, SeatState, NoTouch, Faithful
<1>b. ASSUME NEW evt \in NativeInputEvent, Push(evt), Follows(held, held', evt) PROVE FaithInv'
  <2>1. SettledFaithful'
    BY <1>0, <1>b, PushFaithful
  <2> QED BY <1>0, <1>b, <2>1 DEF FaithInv, Push
<1>c. ASSUME UNCHANGED <<eventQueue, seat, held, lost>>, host' = "stopping" \/ host # "stopping",
             host' = "stopped" => host = "stopped", comp' = comp \/ host' # "stopped"
      PROVE  FaithInv'
  BY <1>0, <1>c DEF FaithInv, SettledFaithful, Settled
<1>d. ASSUME host' = "stopping" PROVE FaithInv'
  BY <1>d DEF FaithInv, SettledFaithful
<1>e. ASSUME NEW X, Behind(seat', seat, X), seat' \in SeatState, lost' = lost \cup X,
             UNCHANGED <<eventQueue, held, host>>, host # "stopped"
      PROVE  FaithInv'
  <2>1. Behind(SeatAfter(seat', eventQueue), SeatAfter(seat, eventQueue), X)
    BY <1>0, <1>e, SeatAfterBehind
  <2>2. Settled' = SeatAfter(seat', eventQueue)
    BY <1>e DEF Settled
  <2>3. ASSUME host # "stopping", "transition" \notin lost' PROVE Faithful(Settled', held, lost')
    BY <1>0, <1>e, <2>1, <2>2, <2>3, BehindFaithful DEF SettledFaithful
  <2> QED BY <1>e, <2>3 DEF FaithInv, SettledFaithful
<1>1. ASSUME NEW k \in Keycodes, NEW isDown \in BOOLEAN, SendKeyEvent(k, isDown) PROVE FaithInv'
  <2>1. [type |-> IF isDown THEN "KEY_PRESS" ELSE "KEY_RELEASE", key |-> k] \in NativeInputEvent
    BY DEF NativeInputEvent, KeyEvents
  <2> QED BY <1>1, <1>b, <2>1, KeyFollows DEF SendKeyEvent
<1>2. ASSUME NEW p \in Pointers, NEW x \in Positions,
             NEW action \in {"TOUCH_DOWN", "TOUCH_UP", "TOUCH_MOVE"}, SendTouchEvent(action, p, x)
      PROVE  FaithInv'
  <2>1. [type |-> action, id |-> p, pos |-> x] \in NativeInputEvent
    BY DEF NativeInputEvent, TouchEvents
  <2> QED BY <1>2, <1>b, <2>1, TouchFollows DEF SendTouchEvent
<1>3. CASE SendTouchCancel
  <2>1. [type |-> "TOUCH_CANCEL"] \in NativeInputEvent
    BY DEF NativeInputEvent, PlainEvents
  <2> QED BY <1>3, <1>b, <2>1, CancelFollows DEF SendTouchCancel
<1>4. ASSUME NEW b \in Buttons, NEW isDown \in BOOLEAN, NEW x \in Positions,
             SendMouseButton(b, isDown, x)
      PROVE  FaithInv'
  <2>1. [type |-> IF isDown THEN "MOUSE_DOWN" ELSE "MOUSE_UP", button |-> b, pos |-> x]
           \in NativeInputEvent
    BY DEF NativeInputEvent, ButtonEvents
  <2> QED BY <1>4, <1>b, <2>1, ButtonFollows DEF SendMouseButton
<1>5. ASSUME NEW x \in Positions, SendMouseMove(x) PROVE FaithInv'
  <2>1. [type |-> "MOUSE_MOVE", pos |-> x] \in NativeInputEvent
    BY DEF NativeInputEvent, MoveEvents
  <2> QED BY <1>5, <1>b, <2>1, MoveFollows DEF SendMouseMove
<1>6. CASE SendMouseScroll
  <2>1. [type |-> "MOUSE_SCROLL"] \in NativeInputEvent
    BY DEF NativeInputEvent, PlainEvents
  <2> QED BY <1>6, <1>b, <2>1, ScrollFollows DEF SendMouseScroll
<1>7. CASE ResetInput
  <2>1. RESET_INPUT \in NativeInputEvent /\ Dispatch(seat, RESET_INPUT) = ResetSeat(seat)
    BY DEF RESET_INPUT, NativeInputEvent, PlainEvents, Dispatch
  <2>2. <<RESET_INPUT>> = Append(<<>>, RESET_INPUT) /\ <<>> \in Seq(NativeInputEvent)
    OBVIOUS
  <2>3. SeatAfter(seat, <<RESET_INPUT>>) = ResetSeat(seat)
    BY <1>0, <2>1, <2>2, NewestLast, NothingQueued
  <2>4. Settled' = ResetSeat(seat)
    BY <1>7, <2>3 DEF ResetInput, Settled
  <2>5. Faithful(ResetSeat(seat), held, Pointers \cup {"pointer"})
    BY <1>0 DEF Faithful, ResetSeat, SeatState, NoTouch
  <2> QED BY <1>0, <1>7, <2>4, <2>5 DEF ResetInput, FaithInv, SettledFaithful
<1>8. CASE ChangeNativeWindow
  BY <1>0, <1>8, <1>e, ResetBehind, ResetSeatType DEF ChangeNativeWindow
<1>9. CASE HandleWakeEvent \/ DrainDone
  BY <1>9, <1>0, <1>c DEF HandleWakeEvent, DrainDone, FaithInv, SettledFaithful, Settled
<1>10. CASE ProcessQueuedInput
  <2>1. Settled' = Settled
    BY <1>0, <1>10, OldestFirst DEF ProcessQueuedInput, Settled
  <2> QED BY <1>0, <1>10, <2>1 DEF ProcessQueuedInput, FaithInv, SettledFaithful
<1>11. ASSUME NEW key \in LinuxKeys, ProcessFifoKeyInput(key) PROVE FaithInv'
  <2>1. seat' \in SeatState /\ Behind(seat', seat, {})
    BY <1>0, <1>11 DEF ProcessFifoKeyInput, SeatState, Behind
  <2>2. lost' = lost \cup {}
    BY <1>11 DEF ProcessFifoKeyInput
  <2> QED BY <1>11, <1>e, <2>1, <2>2 DEF ProcessFifoKeyInput
<1>12. CASE EnqueueWindowAction \/ StartReturns \/ WorkerRunning \/ UNCHANGED vars
  BY <1>0, <1>12, <1>c
     DEF EnqueueWindowAction, StartReturns, WorkerRunning, vars, FaithInv, SettledFaithful, Settled
<1>13. CASE StartFails
  <2>1. CASE host = "stopped"
    <3>1. UNCHANGED <<host, seat, comp, held>> /\ lost' = lost \cup Pointers \cup {"pointer"}
          /\ Settled' = EmptySeat
      BY <1>0, <1>13, <1>a, <2>1, NothingQueued DEF StartFails, Settled
    <3>2. Faithful(EmptySeat, held, lost')
      BY <1>a, <3>1, MoreExcepted
    <3> QED BY <1>0, <3>1, <3>2 DEF FaithInv, SettledFaithful
  <2>2. CASE host # "stopped"
    BY <1>13, <1>d, <2>2 DEF StartFails, TypeOK
  <2> QED BY <2>1, <2>2
<1>14. CASE Stop
  BY <1>14, <1>d DEF Stop
<1>15. CASE WorkerTeardown
  <2>1. Settled' = EmptySeat /\ seat' = EmptySeat /\ comp' = "poll" /\ held' = held
        /\ lost' = Pointers \cup {"pointer"}
    BY <1>15, <1>a, NothingQueued DEF WorkerTeardown, Settled
  <2> QED BY <1>a, <2>1 DEF FaithInv, SettledFaithful
<1> QED BY <1>1, <1>2, <1>3, <1>4, <1>5, <1>6, <1>7, <1>8, <1>9, <1>10, <1>11, <1>12, <1>13, <1>14,
           <1>15 DEF Next, Compositor

LEMMA FaithInvariant == Spec => []FaithInv
<1>1. Init => FaithInv
  <2> SUFFICES ASSUME Init PROVE FaithInv
    OBVIOUS
  <2>1. EmptySeat \in SeatState /\ seat = EmptySeat /\ held = EmptySeat /\ eventQueue = <<>>
    BY DEF Init, EmptySeat, SeatState, NoTouch
  <2>2. Settled = EmptySeat
    BY <2>1, NothingQueued DEF Settled
  <2>3. Faithful(EmptySeat, EmptySeat, lost)
    BY DEF Faithful, EmptySeat
  <2> QED BY <2>1, <2>2, <2>3 DEF Init, FaithInv, SettledFaithful
<1> QED BY <1>1, FaithStep, TypeCorrect, PTL DEF Spec

(* No key and no contact gets stuck, for any number of keys, contacts and  *)
(* producers and any bound of the queue: unless a press or a release was   *)
(* thrown away since the last reset, the drained seat has nothing pressed  *)
(* that Android does not hold.                                             *)
THEOREM StuckInputSafety == Spec => []NoStuckInput
<1>1. FaithInv => NoStuckInput
  BY DEF FaithInv, SettledFaithful, Faithful, NoStuckInput
<1> QED BY <1>1, FaithInvariant, PTL

(* Merging motions, and refusing or evicting them at the bound, loses no   *)
(* final position but the ones that are recorded as lost.                  *)
THEOREM MotionSafety == Spec => []LatestMotionKept
<1>1. FaithInv => LatestMotionKept
  BY DEF FaithInv, SettledFaithful, Faithful, LatestMotionKept
<1> QED BY <1>1, FaithInvariant, PTL
=============================================================================
