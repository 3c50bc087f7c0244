-------------------------- MODULE VsyncBridgeProofs --------------------------
(* Proofs about VsyncBridge: one wake travels from the repaint loop to the *)
(* looper thread and back, and it is neither lost nor doubled.             *)
EXTENDS VsyncBridge, TLAPS

-----------------------------------------------------------------------------
(* The inductive invariant.                                                *)

\* A wake is in one place only: requested, taken by the pulse, or in the
\* eventfd.
OneWake ==
    /\ ~(wake_requested /\ looper = "wake")
    /\ ~(wake_requested /\ event_fd)
    /\ ~(looper = "wake" /\ event_fd)

\* The bridge that is made next finds no frame of the one before.
FreshBridge == host = "none" => frame = "idle"

WakeInv == TypeOK /\ OneWake /\ FreshBridge /\ NoLostCompletion /\ IdleIsQuiet

-----------------------------------------------------------------------------
(* The flags keep their types and the looper thread never outlives the     *)
(* bridge: stop() joins it before the worker deletes what it uses.         *)
THEOREM TypeCorrect == Spec => []TypeOK
<1>1. Init => TypeOK
  BY DEF Init, NoBridge, TypeOK, TimingStates
<1>2. TypeOK /\ [Next]_vars => TypeOK'
  <2> SUFFICES ASSUME TypeOK, [Next]_vars PROVE TypeOK'
    OBVIOUS
  <2> USE DEF TypeOK, TimingStates, flags, window
  <2>1. ASSUME StartBridge \/ StartReturns \/ StopBridge PROVE TypeOK'
    BY <2>1 DEF StartBridge, StartReturns, StopBridge
  <2>2. ASSUME StopReturns \/ DestroyBridge PROVE TypeOK'
    BY <2>2 DEF StopReturns, DestroyBridge
  <2>3. ASSUME LooperFails \/ LooperReady \/ LooperUnpaced \/ UnpacedReturns
               \/ WakeCompositor
        PROVE TypeOK'
    BY <2>3 DEF LooperFails, LooperReady, LooperUnpaced, UnpacedReturns, WakeCompositor
  <2>4. ASSUME PostNext \/ PollReturns PROVE TypeOK'
    BY <2>4 DEF PostNext, PollReturns, Posted
  <2>5. ASSUME VsyncCallback \/ HandleVsyncPulse PROVE TypeOK'
    BY <2>5 DEF VsyncCallback, HandleVsyncPulse
  <2>6. ASSUME ScheduleRepaint \/ Repaint \/ RepaintDropped \/ RequestWake
        PROVE TypeOK'
    BY <2>6 DEF ScheduleRepaint, Repaint, RepaintDropped, RequestWake
  <2>7. ASSUME HandleVsyncEvent PROVE TypeOK'
    BY <2>7 DEF HandleVsyncEvent
  <2>8. ASSUME SetNativeWindow \/ Resume PROVE TypeOK'
    BY <2>8 DEF SetNativeWindow, Resume
  <2>9. ASSUME DestroyNativeWindow \/ Detach PROVE TypeOK'
    BY <2>9 DEF DestroyNativeWindow, Detach
  <2>10. ASSUME UNCHANGED vars PROVE TypeOK'
    BY <2>10 DEF vars
  <2> QED BY <2>1, <2>2, <2>3, <2>4, <2>5, <2>6, <2>7, <2>8, <2>9, <2>10
          DEF Next, Looper
<1> QED BY <1>1, <1>2, PTL DEF Spec

(* The invariant holds throughout, whatever pauses, resumes, stops and     *)
(* failing loopers fall between the steps of a frame.                      *)
LEMMA WakeInvariant == Spec => []WakeInv
<1>1. Init => WakeInv
  BY DEF Init, NoBridge, WakeInv, TypeOK, TimingStates, OneWake, FreshBridge,
         NoLostCompletion, IdleIsQuiet
<1>2. TypeOK' /\ WakeInv /\ [Next]_vars => WakeInv'
  <2> SUFFICES ASSUME TypeOK', WakeInv, [Next]_vars PROVE WakeInv'
    OBVIOUS
  <2> USE DEF WakeInv, OneWake, FreshBridge, NoLostCompletion, IdleIsQuiet,
              flags, window
  <2>1. ASSUME StartBridge \/ StartReturns \/ StopBridge PROVE WakeInv'
    BY <2>1 DEF StartBridge, StartReturns, StopBridge
  <2>2. ASSUME StopReturns \/ DestroyBridge PROVE WakeInv'
    BY <2>2 DEF StopReturns, DestroyBridge, TypeOK
  <2>3. ASSUME LooperFails \/ LooperReady \/ LooperUnpaced \/ UnpacedReturns
               \/ WakeCompositor
        PROVE WakeInv'
    BY <2>3 DEF LooperFails, LooperReady, LooperUnpaced, UnpacedReturns, WakeCompositor
  <2>4. ASSUME PostNext \/ PollReturns \/ VsyncCallback PROVE WakeInv'
    BY <2>4 DEF PostNext, PollReturns, VsyncCallback
  <2>5. ASSUME HandleVsyncPulse PROVE WakeInv'
    BY <2>5 DEF HandleVsyncPulse
  <2>6. ASSUME ScheduleRepaint \/ Repaint \/ RepaintDropped PROVE WakeInv'
    BY <2>6 DEF ScheduleRepaint, Repaint, RepaintDropped
  <2>7. ASSUME RequestWake \/ HandleVsyncEvent PROVE WakeInv'
    BY <2>7 DEF RequestWake, HandleVsyncEvent
  <2>8. ASSUME SetNativeWindow \/ Resume \/ DestroyNativeWindow \/ Detach
        PROVE WakeInv'
    BY <2>8 DEF SetNativeWindow, Resume, DestroyNativeWindow, Detach
  <2>9. ASSUME UNCHANGED vars PROVE WakeInv'
    BY <2>9 DEF vars
  <2> QED BY <2>1, <2>2, <2>3, <2>4, <2>5, <2>6, <2>7, <2>8, <2>9
          DEF Next, Looper
<1> QED BY <1>1, <1>2, TypeCorrect, PTL DEF Spec

(* No completion is lost: a frame that awaits it always has its wake on    *)
(* the way, through every pause, resume and pulse in between.              *)
THEOREM CompletionSafety == Spec => []NoLostCompletion
<1>1. WakeInv => NoLostCompletion
  BY DEF WakeInv
<1> QED BY <1>1, WakeInvariant, PTL

(* The idle compositor is never woken: no wake outlives the frame that     *)
(* asked for it, and no frame gets two.                                    *)
THEOREM QuietWhenIdle == Spec => []IdleIsQuiet
<1>1. WakeInv => IdleIsQuiet
  BY DEF WakeInv
<1> QED BY <1>1, WakeInvariant, PTL
=============================================================================
