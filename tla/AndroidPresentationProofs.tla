---------------------- MODULE AndroidPresentationProofs ----------------------
(* Proofs about AndroidPresentation, for every pool capacity, every set of *)
(* windows and sizes, both renderers, and every bound on the pools.        *)
EXTENDS AndroidPresentation, FiniteSetTheorems, TLAPS

-----------------------------------------------------------------------------
(* The inductive invariants.                                               *)

\* A window comes with a size, and so does a resize.
ArgSized ==
    (arg.window # NoWindow \/ pc["ui"] \in {"resize", "drainResize"}) =>
        arg.size \in Sizes

TypeInv == TypeOK /\ ArgSized

\* The UI thread is inside one of its calls or between two.
UiLabels ==
    pc["ui"] \in {"idle", "set_window", "enable", "setWindow", "drainWindow",
                  "resize", "drainResize"}

StartLabels == {"attach", "set_window", "enable", "setWindow", "drainWindow",
                "set_mode", "apply_mode", "enableOutput"}
RepaintLabels == {"idle", "acquiring", "acquired", "locked", "submit"}
DetachLabels == {"set_window", "setWindow", "drainWindow"}
DestroyLabels == {"disable", "drainDisable", "destroy", "drainDestroy",
                  "invalidate", "delete", "gone"}

\* The worker starts the output and repaints it, and then tears it down.
WorkerLabels ==
    pc["comp"] \in IF closing THEN DetachLabels \cup DestroyLabels
                              ELSE StartLabels \cup RepaintLabels

\* window_mutex_ keeps the UI thread out while the worker attaches a window.
MutexHeld == Attaching => pc["ui"] = "idle"

\* enable() is called with a window only.
EnableHasWindow == \A t \in Threads : pc[t] = "enable" => Target(t) # NoWindow

CallInv == UiLabels /\ WorkerLabels /\ MutexHeld /\ EnableHasWindow

\* The order of destroy(): callbacks only while the token is valid, the token
\* invalidated only by destroy(), the backend deleted only after that.
TokenOrder ==
    /\ binder # None => alive
    /\ alive => ~deleted
    /\ alive <=> pc["comp"] \notin {"delete", "gone"}

Disabling == pc["comp"] \in {"drainDisable", "drainDestroy"}

\* Before enable() and past disable() the pool is empty, and whatever the UI
\* thread enables after that, nothing of it is ever submitted.
DisabledPoolEmpty ==
    /\ ~is_enabled /\ ~Disabling => slots = FreedPool
    /\ pc["comp"] \in {"invalidate", "delete", "gone"} =>
          \A s \in Slots : slots[s].state # "SUBMITTED"

SubmittedHasBuffer ==
    \A s \in Slots : slots[s].state = "SUBMITTED" => slots[s].buf # 0

SlotInv ==
    /\ TypeInv /\ CallInv /\ TokenOrder
    /\ DisabledPoolEmpty /\ SubmittedHasBuffer /\ SubmittedIsInFlight

\* Without drain timeouts, every callback that is due belongs to a SUBMITTED
\* slot of the current pool.
CallbacksCurrent ==
    \A c \in inflight \cup ({binder} \ {None}) :
        slots[c.slot] = [state |-> "SUBMITTED", buf |-> c.buf]

BinderNotInFlight == binder \notin inflight

CallbackInv ==
    /\ CallbacksCurrent /\ BinderNotInFlight
    /\ IsFiniteSet(inflight) /\ CountIsExact

\* The compositor paints a buffer, never nullptr, and not a SUBMITTED slot's.
PaintedNotSubmitted ==
    Painting => held.buf # 0 /\ slots[held.slot].state # "SUBMITTED"

\* A backend without a window has no surface, and one without a surface has
\* nothing in flight.
SurfaceInv ==
    /\ window = NoWindow => ~surface
    /\ ~surface => submitted = 0

\* Nothing is in flight before the first frame, nor once the teardown has
\* detached the window: no enable() runs over buffers that are out.
QuietAtEnds ==
    pc["comp"] \in (IF closing THEN DestroyLabels ELSE StartLabels) => submitted = 0

QuietInv == SurfaceInv /\ QuietAtEnds

ExactInv == SlotInv /\ CallbackInv /\ PaintedNotSubmitted /\ QuietInv

\* The frame in progress has a buffer, and its slot is LOCKED only between
\* lockBuffer and unlockBuffer.
FrameInOrder ==
    /\ Painting => is_enabled /\ held.buf # 0
    /\ pc["comp"] \in {"acquired", "submit"} => slots[held.slot].state # "LOCKED"

FrameInv == SlotInv /\ FrameInOrder /\ NoLeakedSlot

\* While no call fails, a backend without a surface has no window ...
BareHasNoWindow == is_enabled /\ ~surface => window = NoWindow

\* ... and has the window of the call as soon as it has a surface.
Attached ==
    \/ IsEnabled /\ window = arg.window
    \/ is_enabled /\ ~surface /\ window = NoWindow

\* output->native_window is the host's window, but for a call that is about
\* to set it and for the window the worker is about to attach.
NativeCurrent ==
    \/ closing \/ pc["ui"] = "set_window" \/ native = arg.window
    \/ native = NoWindow /\ pc["comp"] \in {"attach", "set_window"}

\* What a thread in the middle of set_window(w) has decided on stays true,
\* although the other thread may enable the output meanwhile; between two
\* calls of the UI thread the last window is attached.
AttachInOrder == ~closing =>
    /\ \A t \in Threads :
          /\ pc[t] = "enable" /\ is_enabled => Attached
          /\ pc[t] \in {"setWindow", "drainWindow"} /\ arg.window # NoWindow => is_enabled
    /\ pc["ui"] \in {"idle", "resize", "drainResize"} /\ native # NoWindow /\ ~Attaching
         => Attached

AttachInv == SlotInv /\ BareHasNoWindow /\ NativeCurrent /\ AttachInOrder

-----------------------------------------------------------------------------
(* Type correctness.                                                       *)

SlotArrays == [Slots -> [state : {"FREE", "ACQUIRED", "LOCKED", "SUBMITTED"},
                         buf : 0 .. MaxPools]]

(* Slot 0 and the null buffer exist, whatever the capacity.                *)
LEMMA NoneIsBuffer == None \in Buffer /\ 0 \in Slots /\ 0 \in 0 .. MaxPools
BY PresentationAssumption DEF None, Buffer, Slots

(* freeBufferPoolLocked leaves an array of slots, and so does              *)
(* allocateBufferPoolLocked within the bound on the pools.                 *)
LEMMA PoolTypes ==
    ASSUME pools \in 0 .. MaxPools
    PROVE  /\ FreedPool \in SlotArrays
           /\ pools < MaxPools => (NewPool \in SlotArrays /\ pools + 1 \in 0 .. MaxPools)
BY NoneIsBuffer, PresentationAssumption DEF FreedPool, NewPool, SlotArrays

(* Every step of the UI thread, the compositor thread and the Binder       *)
(* threads keeps the types.                                                *)
LEMMA TypeStep == TypeInv /\ [Next]_vars => TypeInv'
<1> SUFFICES ASSUME TypeInv, [Next]_vars PROVE TypeInv'
  OBVIOUS
<1> USE NoneIsBuffer, PresentationAssumption
        DEF pool, binding, token, host, Goto, Labels, Buffer, Threads
<1>0. /\ FreedPool \in SlotArrays
      /\ pools < MaxPools => (NewPool \in SlotArrays /\ pools + 1 \in 0 .. MaxPools)
  BY PoolTypes DEF TypeInv, TypeOK
<1>1. ASSUME NEW w \in Windows, NEW sz \in Sizes, SetNativeWindow(w, sz) PROVE TypeInv'
  BY <1>1 DEF TypeInv, TypeOK, ArgSized, SetNativeWindow
<1>2. ASSUME DestroyNativeWindow PROVE TypeInv'
  BY <1>2 DEF TypeInv, TypeOK, ArgSized, DestroyNativeWindow
<1>3. ASSUME SetOutputScale PROVE TypeInv'
  BY <1>3 DEF TypeInv, TypeOK, ArgSized, SetOutputScale
<1>4. ASSUME NEW t \in Threads, OutputSetWindow(t) PROVE TypeInv'
  BY <1>4 DEF TypeInv, TypeOK, ArgSized, OutputSetWindow, Target
<1>5. ASSUME NEW t \in Threads, EnableAlreadyEnabled(t) PROVE TypeInv'
  BY <1>5 DEF TypeInv, TypeOK, ArgSized, EnableAlreadyEnabled, AfterSetWindow
<1>6. ASSUME NEW t \in Threads, EnableSucceeds(t) PROVE TypeInv'
  <2>1. slots' \in SlotArrays /\ pools' \in 0 .. MaxPools /\ submitted' \in Nat
    BY <1>0, <1>6
    DEF TypeInv, TypeOK, SlotArrays, EnableSucceeds, Enable,
        AllocateBufferPool, AfterSetWindow, Target
  <2> QED
    BY <2>1, <1>6
    DEF TypeInv, TypeOK, SlotArrays, ArgSized, EnableSucceeds, Enable,
        AllocateBufferPool, AfterSetWindow, Target
<1>7. ASSUME NEW t \in Threads, EnableFails(t) PROVE TypeInv'
  <2>1. slots' \in SlotArrays /\ pools' \in 0 .. MaxPools /\ submitted' \in Nat
    BY <1>0, <1>7
    DEF TypeInv, TypeOK, SlotArrays, EnableFails, EnableError,
        FreeBufferPool, AfterSetWindow, Target
  <2> QED
    BY <2>1, <1>7
    DEF TypeInv, TypeOK, SlotArrays, ArgSized, EnableFails, EnableError,
        FreeBufferPool, AfterSetWindow, Target
<1>8. ASSUME NEW t \in Threads, SetWindow(t) PROVE TypeInv'
  <2>1. pc' \in [Threads -> Labels]
    <3>1. AfterSetWindow(t) \in Labels
      BY DEF AfterSetWindow
    <3>2. pc' = [pc EXCEPT ![t] = AfterSetWindow(t)]
             \/ pc' = [pc EXCEPT ![t] = "drainWindow"]
      BY <1>8 DEF SetWindow
    <3> QED BY <3>1, <3>2 DEF TypeInv, TypeOK
  <2>2. window' \in Windows \cup {NoWindow} /\ surface' \in BOOLEAN
    BY <1>8 DEF TypeInv, TypeOK, SetWindow, Target
  <2>3. ArgSized'
    BY <1>8 DEF TypeInv, TypeOK, ArgSized, SetWindow, AfterSetWindow, Target
  <2>4. UNCHANGED <<pool, token, is_enabled, size, outSize, host, held>>
    BY <1>8 DEF SetWindow
  <2> QED BY <2>1, <2>2, <2>3, <2>4 DEF TypeInv, TypeOK
<1>9. ASSUME NEW t \in Threads, WindowDrained(t) PROVE TypeInv'
  BY <1>9 DEF TypeInv, TypeOK, ArgSized, WindowDrained, AfterSetWindow, Target
<1>10. ASSUME Resize PROVE TypeInv'
  BY <1>10 DEF TypeInv, TypeOK, ArgSized, Resize
<1>11. ASSUME ResizeDrained PROVE TypeInv'
  <2>1. slots' \in SlotArrays /\ pools' \in 0 .. MaxPools /\ submitted' \in Nat
    BY <1>0, <1>11
    DEF TypeInv, TypeOK, SlotArrays, ResizeDrained, AllocateBufferPool
  <2> QED
    BY <2>1, <1>11
    DEF TypeInv, TypeOK, SlotArrays, ArgSized, ResizeDrained,
        AllocateBufferPool
<1>12. ASSUME OutputSetMode PROVE TypeInv'
  BY <1>12 DEF TypeInv, TypeOK, ArgSized, OutputSetMode
<1>13. ASSUME OutputEnable PROVE TypeInv'
  <2>1. slots' \in SlotArrays /\ pools' \in 0 .. MaxPools /\ submitted' \in Nat
    BY <1>0, <1>13
    DEF TypeInv, TypeOK, SlotArrays, OutputEnable, Enable,
        AllocateBufferPool
  <2> QED
    BY <2>1, <1>13
    DEF TypeInv, TypeOK, SlotArrays, ArgSized, OutputEnable, Enable,
        AllocateBufferPool
<1>14. ASSUME OutputEnableFails PROVE TypeInv'
  <2>1. slots' \in SlotArrays /\ pools' \in 0 .. MaxPools /\ submitted' \in Nat
    BY <1>0, <1>14
    DEF TypeInv, TypeOK, SlotArrays, OutputEnableFails, EnableError,
        FreeBufferPool
  <2> QED
    BY <2>1, <1>14
    DEF TypeInv, TypeOK, SlotArrays, ArgSized, OutputEnableFails,
        EnableError, FreeBufferPool
<1>15. ASSUME AcquireBuffer \/ AcquireWaited PROVE TypeInv'
  BY <1>15 DEF TypeInv, TypeOK, ArgSized, AcquireBuffer, AcquireWaited, TakeSlot, FreeSlots
<1>16. ASSUME LockBuffer PROVE TypeInv'
  BY <1>16 DEF TypeInv, TypeOK, ArgSized, LockBuffer
<1>17. ASSUME AbandonFrame PROVE TypeInv'
  BY <1>17 DEF TypeInv, TypeOK, ArgSized, AbandonFrame
<1>18. ASSUME UnlockBuffer PROVE TypeInv'
  BY <1>18 DEF TypeInv, TypeOK, ArgSized, UnlockBuffer, Unlock
<1>19. ASSUME SubmitBuffer PROVE TypeInv'
  BY <1>19 DEF TypeInv, TypeOK, ArgSized, SubmitBuffer
<1>20. ASSUME SubmitFails PROVE TypeInv'
  BY <1>20 DEF TypeInv, TypeOK, ArgSized, SubmitFails
<1>21. ASSUME NEW c \in inflight, HandleBufferRelease(c) PROVE TypeInv'
  BY <1>21 DEF TypeInv, TypeOK, ArgSized, HandleBufferRelease
<1>22. ASSUME OnBufferReleasedInternal PROVE TypeInv'
  BY <1>22 DEF TypeInv, TypeOK, ArgSized, OnBufferReleasedInternal
<1>23. ASSUME BeginTeardown PROVE TypeInv'
  BY <1>23 DEF TypeInv, TypeOK, ArgSized, BeginTeardown
<1>24. ASSUME Disable PROVE TypeInv'
  <2>1. PICK l \in Labels : pc' = [pc EXCEPT !["comp"] = l]
    BY <1>24 DEF Disable
  <2>2. pc' \in [Threads -> Labels] /\ pc'["ui"] = pc["ui"]
    BY <2>1 DEF TypeInv, TypeOK
  <2> QED BY <1>24, <2>2 DEF TypeInv, TypeOK, ArgSized, Disable
<1>25. ASSUME DisableDrained PROVE TypeInv'
  <2>1. slots' \in SlotArrays /\ pools' \in 0 .. MaxPools /\ submitted' \in Nat
    BY <1>0, <1>25
    DEF TypeInv, TypeOK, SlotArrays, DisableDrained, FreeBufferPool
  <2> QED
    BY <2>1, <1>25
    DEF TypeInv, TypeOK, SlotArrays, ArgSized, DisableDrained,
        FreeBufferPool
<1>26. ASSUME InvalidateToken PROVE TypeInv'
  BY <1>26 DEF TypeInv, TypeOK, ArgSized, InvalidateToken
<1>27. ASSUME Delete PROVE TypeInv'
  BY <1>27 DEF TypeInv, TypeOK, ArgSized, Delete
<1>29. ASSUME AttachNativeWindow PROVE TypeInv'
  BY <1>29 DEF TypeInv, TypeOK, ArgSized, AttachNativeWindow
<1>30. ASSUME ReadOutputMode PROVE TypeInv'
  BY <1>30 DEF TypeInv, TypeOK, ArgSized, ReadOutputMode
<1>31. ASSUME AcquireWaits \/ AcquireGivesUp PROVE TypeInv'
  BY <1>31 DEF TypeInv, TypeOK, ArgSized, AcquireWaits, AcquireGivesUp
<1>32. ASSUME AbandonLockedFrame PROVE TypeInv'
  BY <1>32 DEF TypeInv, TypeOK, ArgSized, AbandonLockedFrame, Unlock
<1>28. CASE UNCHANGED vars
  BY <1>28 DEF TypeInv, TypeOK, ArgSized, vars
<1> QED
  BY <1>1, <1>2, <1>3, <1>4, <1>5, <1>6, <1>7, <1>8, <1>9, <1>10, <1>11,
     <1>12, <1>13, <1>14, <1>15, <1>16, <1>17, <1>18, <1>19, <1>20, <1>21,
     <1>22, <1>23, <1>24, <1>25, <1>26, <1>27, <1>28, <1>29, <1>30,
     <1>31, <1>32
  DEF Next, UiCall, UiStep, OutputSetWindowCall, Repaint, Teardown

(* The initial states have the types.                                      *)
LEMMA InitType == Init => TypeInv
<1> SUFFICES ASSUME Init PROVE TypeInv
  OBVIOUS
<1>1. pools \in 0 .. MaxPools
  BY NoneIsBuffer DEF Init
<1>2. slots \in SlotArrays
  BY <1>1, PoolTypes DEF Init
<1>3. /\ arg \in [window : Windows \cup {NoWindow}, size : Sizes \cup {NoSize}]
      /\ arg.window # NoWindow => arg.size \in Sizes
  BY DEF Init
<1>4. pc \in [Threads -> Labels] /\ pc["ui"] = "idle"
  BY DEF Init, Threads, Labels
<1> QED
  BY <1>1, <1>2, <1>3, <1>4, NoneIsBuffer
  DEF Init, TypeInv, TypeOK, ArgSized, SlotArrays

(* Type correctness of the presentation backend.                           *)
THEOREM TypeCorrect == Spec => []TypeOK
<1>1. Init => TypeInv
  BY InitType
<1>2. TypeInv => TypeOK
  BY DEF TypeInv
<1> QED BY <1>1, <1>2, TypeStep, PTL DEF Spec

-----------------------------------------------------------------------------
(* Slots, callbacks and the lifetime token.                                *)

(* Every step keeps the threads' calls in order: window_mutex_ excludes    *)
(* them while a window is attached, and enable() gets a window.            *)
LEMMA CallStep == TypeInv /\ CallInv /\ [Next]_vars => CallInv'
<1> SUFFICES ASSUME TypeInv, CallInv, [Next]_vars PROVE CallInv'
  OBVIOUS
<1> USE DEF pool, binding, token, host, Goto, Threads, TypeInv, TypeOK, CallInv,
            UiLabels, WorkerLabels, StartLabels, RepaintLabels, DetachLabels,
            DestroyLabels, MutexHeld, Attaching, EnableHasWindow, Target
<1>1. ASSUME \/ \E w \in Windows, sz \in Sizes : SetNativeWindow(w, sz)
             \/ DestroyNativeWindow \/ SetOutputScale \/ Resize \/ ResizeDrained
      PROVE  CallInv'
  BY <1>1 DEF SetNativeWindow, DestroyNativeWindow, SetOutputScale, Serving, Resize,
              ResizeDrained
<1>2. ASSUME NEW t \in Threads, OutputSetWindow(t) PROVE CallInv'
  BY <1>2 DEF OutputSetWindow
<1>3. ASSUME NEW t \in Threads, EnableAlreadyEnabled(t) PROVE CallInv'
  BY <1>3 DEF EnableAlreadyEnabled, AfterSetWindow
<1>4. ASSUME NEW t \in Threads, EnableSucceeds(t) PROVE CallInv'
  BY <1>4 DEF EnableSucceeds, AfterSetWindow
<1>5. ASSUME NEW t \in Threads, EnableFails(t) PROVE CallInv'
  BY <1>5 DEF EnableFails, AfterSetWindow
<1>6. ASSUME NEW t \in Threads, SetWindow(t) PROVE CallInv'
  BY <1>6 DEF SetWindow, AfterSetWindow
<1>7. ASSUME NEW t \in Threads, WindowDrained(t) PROVE CallInv'
  BY <1>7 DEF WindowDrained, AfterSetWindow
<1>8. ASSUME AttachNativeWindow \/ ReadOutputMode \/ OutputSetMode PROVE CallInv'
  BY <1>8 DEF AttachNativeWindow, ReadOutputMode, OutputSetMode
<1>9. ASSUME OutputEnable \/ OutputEnableFails \/ BeginTeardown PROVE CallInv'
  BY <1>9 DEF OutputEnable, OutputEnableFails, BeginTeardown
<1>10. ASSUME AcquireBuffer \/ AcquireWaits \/ AcquireWaited \/ AcquireGivesUp
       PROVE  CallInv'
  BY <1>10 DEF AcquireBuffer, AcquireWaits, AcquireWaited, AcquireGivesUp, TakeSlot
<1>11. ASSUME LockBuffer \/ AbandonFrame \/ UnlockBuffer \/ AbandonLockedFrame
       PROVE  CallInv'
  BY <1>11 DEF LockBuffer, AbandonFrame, UnlockBuffer, AbandonLockedFrame
<1>12. ASSUME SubmitBuffer \/ SubmitFails PROVE CallInv'
  BY <1>12 DEF SubmitBuffer, SubmitFails, AtSubmit
<1>13. ASSUME Disable \/ DisableDrained \/ InvalidateToken \/ Delete PROVE CallInv'
  BY <1>13 DEF Disable, DisableDrained, InvalidateToken, Delete
<1>14. ASSUME (\E c \in inflight : HandleBufferRelease(c)) \/ OnBufferReleasedInternal
       PROVE  CallInv'
  BY <1>14 DEF HandleBufferRelease, OnBufferReleasedInternal
<1>15. CASE UNCHANGED vars
  BY <1>15 DEF vars
<1> QED
  BY <1>1, <1>2, <1>3, <1>4, <1>5, <1>6, <1>7, <1>8, <1>9, <1>10, <1>11,
     <1>12, <1>13, <1>14, <1>15
  DEF Next, UiCall, UiStep, OutputSetWindowCall, Repaint, Teardown

(* Every step keeps the order of destroy(), an empty pool outside enable   *)
(* and disable, and a callback for every SUBMITTED slot.                   *)
LEMMA SlotStep == SlotInv /\ [Next]_vars => SlotInv'
<1> SUFFICES ASSUME SlotInv, [Next]_vars PROVE SlotInv'
  OBVIOUS
<1> TypeInv' /\ CallInv'
  BY TypeStep, CallStep DEF SlotInv
<1> USE NoneIsBuffer
        DEF pool, binding, token, host, Goto, Threads, Buffer, TypeInv, TypeOK,
            SlotInv, TokenOrder, Disabling, DisabledPoolEmpty,
            SubmittedHasBuffer, SubmittedIsInFlight
<1>1. ASSUME NEW w \in Windows, NEW sz \in Sizes, SetNativeWindow(w, sz) PROVE SlotInv'
  BY <1>1 DEF SetNativeWindow, FreedPool
<1>2. ASSUME DestroyNativeWindow PROVE SlotInv'
  BY <1>2 DEF DestroyNativeWindow, FreedPool
<1>3. ASSUME SetOutputScale PROVE SlotInv'
  BY <1>3 DEF SetOutputScale, FreedPool
<1>4. ASSUME NEW t \in Threads, OutputSetWindow(t) PROVE SlotInv'
  BY <1>4 DEF OutputSetWindow, FreedPool
<1>5. ASSUME NEW t \in Threads, EnableAlreadyEnabled(t) PROVE SlotInv'
  BY <1>5 DEF EnableAlreadyEnabled, AfterSetWindow, FreedPool
<1>6. ASSUME NEW t \in Threads, EnableSucceeds(t) PROVE SlotInv'
  BY <1>6
  DEF EnableSucceeds, Enable, AllocateBufferPool, NewPool, AfterSetWindow,
      FreedPool
<1>7. ASSUME NEW t \in Threads, EnableFails(t) PROVE SlotInv'
  BY <1>7
  DEF EnableFails, EnableError, FreeBufferPool, FreedPool, AfterSetWindow
<1>8. ASSUME NEW t \in Threads, SetWindow(t) PROVE SlotInv'
  BY <1>8 DEF SetWindow, AfterSetWindow, FreedPool
<1>9. ASSUME NEW t \in Threads, WindowDrained(t) PROVE SlotInv'
  BY <1>9 DEF WindowDrained, AfterSetWindow, FreedPool
<1>10. ASSUME Resize PROVE SlotInv'
  BY <1>10 DEF Resize, FreedPool
<1>11. ASSUME ResizeDrained PROVE SlotInv'
  BY <1>11 DEF ResizeDrained, AllocateBufferPool, NewPool, FreedPool, IsEnabled
<1>12. ASSUME OutputSetMode PROVE SlotInv'
  BY <1>12 DEF OutputSetMode, FreedPool
<1>13. ASSUME OutputEnable PROVE SlotInv'
  BY <1>13 DEF OutputEnable, Enable, AllocateBufferPool, NewPool, FreedPool
<1>14. ASSUME OutputEnableFails PROVE SlotInv'
  BY <1>14 DEF OutputEnableFails, EnableError, FreeBufferPool, FreedPool
<1>15. ASSUME AcquireBuffer \/ AcquireWaited PROVE SlotInv'
  BY <1>15 DEF AcquireBuffer, AcquireWaited, TakeSlot, FreeSlots, FreedPool, IsEnabled
<1>16. ASSUME LockBuffer PROVE SlotInv'
  BY <1>16 DEF LockBuffer, FreedPool
<1>17. ASSUME AbandonFrame PROVE SlotInv'
  BY <1>17 DEF AbandonFrame, FreedPool
<1>18. ASSUME UnlockBuffer PROVE SlotInv'
  BY <1>18 DEF UnlockBuffer, Unlock, FreedPool
<1>19. ASSUME SubmitBuffer PROVE SlotInv'
  BY <1>19 DEF SubmitBuffer, FreedPool, IsEnabled, AtSubmit
<1>20. ASSUME SubmitFails PROVE SlotInv'
  BY <1>20 DEF SubmitFails, FreedPool, AtSubmit
<1>21. ASSUME NEW c \in inflight, HandleBufferRelease(c) PROVE SlotInv'
  <2>1. ASSUME NEW s \in Slots, slots[s].state = "SUBMITTED"
        PROVE  [slot |-> s, buf |-> slots[s].buf] \in inflight /\ alive
    BY <1>21, <2>1 DEF HandleBufferRelease, FreedPool, None
  <2>2. SubmittedIsInFlight'
    BY <1>21, <2>1 DEF HandleBufferRelease
  <2> QED
    BY <1>21, <2>2 DEF HandleBufferRelease
<1>22. ASSUME OnBufferReleasedInternal PROVE SlotInv'
  <2>0. ASSUME slots = FreedPool PROVE slots' = FreedPool
    <3>1. /\ slots' = [slots EXCEPT ![binder.slot].state = "FREE"]
          /\ binder.slot \in Slots
      BY <1>22 DEF OnBufferReleasedInternal
    <3> QED BY <2>0, <3>1 DEF FreedPool
  <2>1. DisabledPoolEmpty'
    BY <1>22, <2>0 DEF OnBufferReleasedInternal
  <2>2. SubmittedIsInFlight' /\ SubmittedHasBuffer'
    BY <1>22 DEF OnBufferReleasedInternal
  <2> QED
    BY <1>22, <2>1, <2>2 DEF OnBufferReleasedInternal
<1>23. ASSUME BeginTeardown PROVE SlotInv'
  BY <1>23 DEF BeginTeardown, FreedPool
<1>24. ASSUME Disable PROVE SlotInv'
  BY <1>24 DEF Disable, FreedPool
<1>25. ASSUME DisableDrained PROVE SlotInv'
  BY <1>25 DEF DisableDrained, FreeBufferPool, FreedPool
<1>26. ASSUME InvalidateToken PROVE SlotInv'
  BY <1>26 DEF InvalidateToken, FreedPool
<1>27. ASSUME Delete PROVE SlotInv'
  BY <1>27 DEF Delete, FreedPool
<1>29. ASSUME AttachNativeWindow PROVE SlotInv'
  BY <1>29 DEF AttachNativeWindow, FreedPool
<1>30. ASSUME ReadOutputMode PROVE SlotInv'
  BY <1>30 DEF ReadOutputMode, FreedPool
<1>31. ASSUME AcquireWaits \/ AcquireGivesUp PROVE SlotInv'
  BY <1>31 DEF AcquireWaits, AcquireGivesUp, FreedPool
<1>32. ASSUME AbandonLockedFrame PROVE SlotInv'
  BY <1>32 DEF AbandonLockedFrame, Unlock, FreedPool
<1>28. CASE UNCHANGED vars
  BY <1>28 DEF vars
<1> QED
  BY <1>1, <1>2, <1>3, <1>4, <1>5, <1>6, <1>7, <1>8, <1>9, <1>10, <1>11,
     <1>12, <1>13, <1>14, <1>15, <1>16, <1>17, <1>18, <1>19, <1>20, <1>21,
     <1>22, <1>23, <1>24, <1>25, <1>26, <1>27, <1>28, <1>29, <1>30,
     <1>31, <1>32
  DEF Next, UiCall, UiStep, OutputSetWindowCall, Repaint, Teardown

\* The slot invariant holds initially: nothing has been allocated.
LEMMA InitSlot == Init => SlotInv
BY InitType DEF Init, SlotInv, CallInv, UiLabels, WorkerLabels, StartLabels, MutexHeld,
   Attaching, EnableHasWindow, TokenOrder, Disabling, DisabledPoolEmpty, SubmittedHasBuffer, SubmittedIsInFlight, FreedPool, Threads

(* A release callback never runs into a deleted backend, with any number   *)
(* of slots, windows and late callbacks.                                   *)
THEOREM CallbackSafety == Spec => []NoUseAfterFree
<1>1. SlotInv => NoUseAfterFree
  BY DEF SlotInv, TokenOrder, NoUseAfterFree
<1> QED BY <1>1, InitSlot, SlotStep, PTL DEF Spec

(* A SUBMITTED slot always has its callback coming, drain timeouts and     *)
(* failing NDK calls included.                                             *)
THEOREM NoForgottenSlot == Spec => []SubmittedIsInFlight
<1>1. SlotInv => SubmittedIsInFlight
  BY DEF SlotInv
<1> QED BY <1>1, InitSlot, SlotStep, PTL DEF Spec

-----------------------------------------------------------------------------
(* Without drain timeouts.                                                 *)

(* While the count is exact, a drain that ends without a timeout has left  *)
(* nothing in flight and no callback running.                              *)
LEMMA DrainedMeansNone ==
    ASSUME ExactInv, submitted = 0
    PROVE  inflight = {} /\ binder = None
<1>1. Cardinality(inflight) \in Nat
  BY FS_CardinalityType DEF ExactInv, CallbackInv
<1>2. Cardinality(inflight) = 0 /\ binder = None
  BY <1>1 DEF ExactInv, CallbackInv, CountIsExact
<1> QED BY <1>2, FS_EmptySet DEF ExactInv, CallbackInv

(* A disabled pool has nothing in flight.                                  *)
LEMMA FreedMeansNone ==
    ASSUME ExactInv, slots = FreedPool
    PROVE  inflight = {} /\ binder = None /\ submitted = 0
<1>1. ASSUME NEW c \in inflight \cup ({binder} \ {None}) PROVE FALSE
  <2>0. inflight \subseteq Buffer /\ binder \in Buffer
    BY DEF ExactInv, SlotInv, TypeInv, TypeOK
  <2>1. c.slot \in Slots
    BY <2>0 DEF Buffer
  <2>2. slots[c.slot] = [state |-> "SUBMITTED", buf |-> c.buf]
    BY DEF ExactInv, CallbackInv, CallbacksCurrent
  <2> QED BY <2>1, <2>2 DEF FreedPool
<1>2. inflight = {} /\ binder = None
  BY <1>1
<1> QED BY <1>2, FS_EmptySet DEF ExactInv, CallbackInv, CountIsExact

(* Nothing that concerns a callback changes.                               *)
LEMMA CallbackUnchanged ==
    ASSUME CallbackInv, UNCHANGED <<slots, submitted, inflight, binder>>
    PROVE  CallbackInv'
BY DEF CallbackInv, CallbacksCurrent, BinderNotInFlight, CountIsExact

(* A slot that is not SUBMITTED changes: no callback is about it.          *)
LEMMA CallbackElsewhere ==
    ASSUME TypeOK, CallbackInv, NEW s \in Slots, slots[s].state # "SUBMITTED",
           \A r \in Slots \ {s} : slots'[r] = slots[r],
           UNCHANGED <<submitted, inflight, binder>>
    PROVE  CallbackInv'
<1>1. ASSUME NEW c \in inflight \cup ({binder} \ {None})
      PROVE  slots'[c.slot] = slots[c.slot]
  <2>1. c \in Buffer /\ c.slot \in Slots
    BY DEF TypeOK, Buffer
  <2>2. slots[c.slot] = [state |-> "SUBMITTED", buf |-> c.buf]
    BY DEF CallbackInv, CallbacksCurrent
  <2> QED BY <2>1, <2>2
<1>2. CallbacksCurrent'
  BY <1>1 DEF CallbackInv, CallbacksCurrent
<1> QED BY <1>2 DEF CallbackInv, BinderNotInFlight, CountIsExact

(* Nothing is in flight: there is no callback to speak of.                 *)
LEMMA CallbackNone ==
    ASSUME inflight = {}, binder = None, submitted' = 0,
           UNCHANGED <<inflight, binder>>
    PROVE  CallbackInv'
BY FS_EmptySet DEF CallbackInv, CallbacksCurrent, BinderNotInFlight, CountIsExact

(* enable() finds nothing in flight: the pool of a disabled backend is     *)
(* empty, and while disable() still waits for its drain there is nothing   *)
(* left to drain.                                                          *)
LEMMA EnablingMeansNone ==
    ASSUME ExactInv, ~is_enabled
    PROVE  inflight = {} /\ binder = None /\ submitted = 0
<1>1. CASE Disabling
  <2>1. closing
    BY <1>1 DEF ExactInv, SlotInv, CallInv, WorkerLabels, Disabling, StartLabels, RepaintLabels
  <2>2. submitted = 0
    BY <1>1, <2>1 DEF ExactInv, QuietInv, QuietAtEnds, Disabling, DestroyLabels
  <2> QED BY <2>2, DrainedMeansNone
<1>2. CASE ~Disabling
  <2>1. slots = FreedPool
    BY <1>2 DEF ExactInv, SlotInv, DisabledPoolEmpty
  <2> QED BY <2>1, FreedMeansNone
<1> QED BY <1>1, <1>2

(* As long as drains do not time out, nothing is in flight without a       *)
(* surface, before the first frame and after the last.                     *)
LEMMA QuietStep ==
    ASSUME ~DrainTimeouts
    PROVE  ExactInv /\ [Next]_vars => QuietInv'
<1> SUFFICES ASSUME ExactInv, [Next]_vars PROVE QuietInv'
  OBVIOUS
<1> TypeOK /\ TypeOK' /\ SlotInv /\ CallInv' /\ QuietInv
  BY SlotStep DEF ExactInv, SlotInv, TypeInv
<1> SurfaceInv /\ QuietAtEnds /\ WorkerLabels /\ EnableHasWindow
  BY DEF QuietInv, SlotInv, CallInv
<1> USE DEF pool, binding, token, host, Goto, Threads, TypeOK, QuietInv, SurfaceInv,
            QuietAtEnds, StartLabels, DestroyLabels
<1>1. ASSUME \/ \E w \in Windows, sz \in Sizes : SetNativeWindow(w, sz)
             \/ DestroyNativeWindow \/ SetOutputScale \/ Resize \/ ResizeDrained
      PROVE  QuietInv'
  BY <1>1 DEF SetNativeWindow, DestroyNativeWindow, SetOutputScale, Resize, ResizeDrained
<1>2. ASSUME NEW t \in Threads, OutputSetWindow(t) PROVE QuietInv'
  BY <1>2 DEF OutputSetWindow
<1>3. ASSUME NEW t \in Threads, EnableAlreadyEnabled(t) PROVE QuietInv'
  BY <1>3 DEF EnableAlreadyEnabled, AfterSetWindow, EnableHasWindow, Target
<1>4. ASSUME NEW t \in Threads, EnableSucceeds(t) PROVE QuietInv'
  <2>1. submitted = 0
    BY <1>4, EnablingMeansNone DEF EnableSucceeds
  <2> QED BY <1>4, <2>1 DEF EnableSucceeds, Enable, AllocateBufferPool, EnableHasWindow
<1>5. ASSUME NEW t \in Threads, EnableFails(t) PROVE QuietInv'
  <2>1. submitted = 0
    BY <1>5, EnablingMeansNone DEF EnableFails
  <2> QED BY <1>5, <2>1 DEF EnableFails, EnableError, FreeBufferPool, EnableHasWindow
<1>6. ASSUME NEW t \in Threads, SetWindow(t) PROVE QuietInv'
  BY <1>6 DEF SetWindow, AfterSetWindow, Target
<1>7. ASSUME NEW t \in Threads, WindowDrained(t) PROVE QuietInv'
  BY <1>7 DEF WindowDrained, Drained, AfterSetWindow
<1>8. ASSUME AttachNativeWindow \/ ReadOutputMode \/ OutputSetMode PROVE QuietInv'
  BY <1>8 DEF AttachNativeWindow, ReadOutputMode, OutputSetMode, WorkerLabels, RepaintLabels,
              DetachLabels
<1>9. ASSUME OutputEnable PROVE QuietInv'
  BY <1>9 DEF OutputEnable, Enable, AllocateBufferPool, WorkerLabels, DetachLabels
<1>10. ASSUME OutputEnableFails PROVE QuietInv'
  BY <1>10 DEF OutputEnableFails, EnableError, FreeBufferPool, WorkerLabels, DetachLabels
<1>11. ASSUME BeginTeardown PROVE QuietInv'
  BY <1>11 DEF BeginTeardown
<1>12. ASSUME AcquireBuffer \/ AcquireWaits \/ AcquireWaited \/ AcquireGivesUp
       PROVE  QuietInv'
  BY <1>12 DEF AcquireBuffer, AcquireWaits, AcquireWaited, AcquireGivesUp, TakeSlot,
               WorkerLabels, DetachLabels
<1>13. ASSUME LockBuffer \/ AbandonFrame \/ UnlockBuffer \/ AbandonLockedFrame
       PROVE  QuietInv'
  BY <1>13 DEF LockBuffer, AbandonFrame, UnlockBuffer, AbandonLockedFrame, WorkerLabels,
               DetachLabels
<1>14. ASSUME SubmitBuffer PROVE QuietInv'
  BY <1>14 DEF SubmitBuffer, AtSubmit, IsEnabled, WorkerLabels, DetachLabels
<1>15. ASSUME SubmitFails PROVE QuietInv'
  BY <1>15 DEF SubmitFails, AtSubmit, WorkerLabels, DetachLabels
<1>16. ASSUME Disable PROVE QuietInv'
  BY <1>16 DEF Disable, WorkerLabels, RepaintLabels
<1>17. ASSUME DisableDrained PROVE QuietInv'
  BY <1>17 DEF DisableDrained, FreeBufferPool
<1>18. ASSUME InvalidateToken \/ Delete PROVE QuietInv'
  BY <1>18 DEF InvalidateToken, Delete, WorkerLabels, RepaintLabels
<1>19. ASSUME (\E c \in inflight : HandleBufferRelease(c)) \/ OnBufferReleasedInternal
       PROVE  QuietInv'
  BY <1>19 DEF HandleBufferRelease, OnBufferReleasedInternal
<1>20. CASE UNCHANGED vars
  BY <1>20 DEF vars
<1> QED
  BY <1>1, <1>2, <1>3, <1>4, <1>5, <1>6, <1>7, <1>8, <1>9, <1>10, <1>11,
     <1>12, <1>13, <1>14, <1>15, <1>16, <1>17, <1>18, <1>19, <1>20
  DEF Next, UiCall, UiStep, OutputSetWindowCall, Repaint, Teardown

(* As long as drains do not time out, every step keeps the count exact and *)
(* every callback due to a slot of the current pool.                       *)
LEMMA ExactStep ==
    ASSUME ~DrainTimeouts
    PROVE  ExactInv /\ [Next]_vars => ExactInv'
<1> SUFFICES ASSUME ExactInv, [Next]_vars PROVE CallbackInv' /\ PaintedNotSubmitted'
  BY SlotStep, QuietStep DEF ExactInv
<1> TypeOK /\ TypeOK' /\ SlotInv /\ SlotInv' /\ QuietInv /\ CallbackInv /\ PaintedNotSubmitted
  BY SlotStep DEF ExactInv, SlotInv, TypeInv
<1> USE NoneIsBuffer DEF pool, binding, token, host, Goto, Threads
<1> DEFINE Goal == CallbackInv' /\ PaintedNotSubmitted'
<1>1. ASSUME NEW w \in Windows, NEW sz \in Sizes, SetNativeWindow(w, sz) PROVE Goal
  BY <1>1, CallbackUnchanged
  DEF SetNativeWindow, PaintedNotSubmitted, Painting, TypeOK
<1>2. ASSUME DestroyNativeWindow PROVE Goal
  BY <1>2, CallbackUnchanged
  DEF DestroyNativeWindow, PaintedNotSubmitted, Painting, TypeOK
<1>3. ASSUME SetOutputScale PROVE Goal
  BY <1>3, CallbackUnchanged
  DEF SetOutputScale, PaintedNotSubmitted, Painting, TypeOK
<1>4. ASSUME NEW t \in Threads, OutputSetWindow(t) PROVE Goal
  BY <1>4, CallbackUnchanged
  DEF OutputSetWindow, PaintedNotSubmitted, Painting, TypeOK
<1>5. ASSUME NEW t \in Threads, EnableAlreadyEnabled(t) PROVE Goal
  BY <1>5, CallbackUnchanged
  DEF EnableAlreadyEnabled, AfterSetWindow, PaintedNotSubmitted, Painting,
      TypeOK
<1>6. ASSUME NEW t \in Threads, SetWindow(t) PROVE Goal
  BY <1>6, CallbackUnchanged
  DEF SetWindow, AfterSetWindow, PaintedNotSubmitted, Painting, TypeOK
<1>7. ASSUME NEW t \in Threads, WindowDrained(t) PROVE Goal
  BY <1>7, CallbackUnchanged
  DEF WindowDrained, AfterSetWindow, PaintedNotSubmitted, Painting, TypeOK
<1>8. ASSUME Resize PROVE Goal
  BY <1>8, CallbackUnchanged DEF Resize, PaintedNotSubmitted, Painting, TypeOK
<1>9. ASSUME OutputSetMode PROVE Goal
  BY <1>9, CallbackUnchanged
  DEF OutputSetMode, PaintedNotSubmitted, Painting, TypeOK
<1>10. ASSUME AbandonFrame PROVE Goal
  BY <1>10, CallbackUnchanged
  DEF AbandonFrame, PaintedNotSubmitted, Painting, TypeOK
<1>11. ASSUME BeginTeardown PROVE Goal
  BY <1>11, CallbackUnchanged
  DEF BeginTeardown, PaintedNotSubmitted, Painting, TypeOK
<1>12. ASSUME Disable PROVE Goal
  BY <1>12, CallbackUnchanged
  DEF Disable, PaintedNotSubmitted, Painting, TypeOK
<1>13. ASSUME InvalidateToken PROVE Goal
  BY <1>13, CallbackUnchanged
  DEF InvalidateToken, PaintedNotSubmitted, Painting, TypeOK
<1>14. ASSUME Delete PROVE Goal
  BY <1>14, CallbackUnchanged DEF Delete, PaintedNotSubmitted, Painting, TypeOK
<1>15. ASSUME NEW t \in Threads, EnableSucceeds(t) PROVE Goal
  <2>2. inflight = {} /\ binder = None /\ submitted = 0
    BY <1>15, EnablingMeansNone DEF EnableSucceeds
  <2>3. CallbackInv'
    BY <1>15, <2>2, CallbackNone DEF EnableSucceeds, Enable, AllocateBufferPool
  <2>4. PaintedNotSubmitted'
    BY <1>15
    DEF EnableSucceeds, Enable, AllocateBufferPool, AfterSetWindow,
        NewPool, FreedPool, PaintedNotSubmitted, Painting, TypeOK, Buffer
  <2> QED BY <2>3, <2>4
<1>16. ASSUME NEW t \in Threads, EnableFails(t) PROVE Goal
  <2>2. inflight = {} /\ binder = None /\ submitted = 0
    BY <1>16, EnablingMeansNone DEF EnableFails
  <2>3. CallbackInv'
    BY <1>16, <2>2, CallbackNone DEF EnableFails, EnableError, FreeBufferPool
  <2>4. PaintedNotSubmitted'
    BY <1>16
    DEF EnableFails, EnableError, FreeBufferPool, AfterSetWindow, NewPool,
        FreedPool, PaintedNotSubmitted, Painting, TypeOK, Buffer
  <2> QED BY <2>3, <2>4
<1>17. ASSUME OutputEnable PROVE Goal
  <2>1. CASE is_enabled
    BY <1>17, <2>1, CallbackUnchanged
    DEF OutputEnable, Enable, AllocateBufferPool, PaintedNotSubmitted,
        Painting, TypeOK
  <2>2. CASE ~is_enabled
    <3>2. inflight = {} /\ binder = None /\ submitted = 0
      BY <1>17, <2>2, EnablingMeansNone DEF OutputEnable
    <3>3. CallbackInv'
      BY <1>17, <2>2, <3>2, CallbackNone
      DEF OutputEnable, Enable, AllocateBufferPool
    <3>4. PaintedNotSubmitted'
      BY <1>17
      DEF OutputEnable, Enable, AllocateBufferPool, PaintedNotSubmitted,
          Painting, TypeOK
    <3> QED BY <3>3, <3>4
  <2> QED BY <2>1, <2>2 DEF TypeOK
<1>18. ASSUME OutputEnableFails PROVE Goal
  <2>1. CASE is_enabled
    BY <1>18, <2>1, CallbackUnchanged
    DEF OutputEnableFails, EnableError, FreeBufferPool,
        PaintedNotSubmitted, Painting, TypeOK
  <2>2. CASE ~is_enabled
    <3>2. inflight = {} /\ binder = None /\ submitted = 0
      BY <1>18, <2>2, EnablingMeansNone DEF OutputEnableFails
    <3>3. CallbackInv'
      BY <1>18, <2>2, <3>2, CallbackNone
      DEF OutputEnableFails, EnableError, FreeBufferPool
    <3>4. PaintedNotSubmitted'
      BY <1>18
      DEF OutputEnableFails, EnableError, FreeBufferPool,
          PaintedNotSubmitted, Painting, TypeOK
    <3> QED BY <3>3, <3>4
  <2> QED BY <2>1, <2>2 DEF TypeOK
<1>19. ASSUME ResizeDrained PROVE Goal
  <2>1. inflight = {} /\ binder = None
    BY <1>19, DrainedMeansNone DEF ResizeDrained, AllocateBufferPool, Drained
  <2>2. CallbackInv'
    BY <1>19, <2>1, CallbackNone DEF ResizeDrained, AllocateBufferPool
  <2>3. PaintedNotSubmitted'
    BY <1>19
    DEF ResizeDrained, AllocateBufferPool, NewPool, FreedPool,
        PaintedNotSubmitted, Painting, TypeOK, Buffer
  <2> QED BY <2>2, <2>3
<1>20. ASSUME DisableDrained PROVE Goal
  <2>1. inflight = {} /\ binder = None
    BY <1>20, DrainedMeansNone DEF DisableDrained, FreeBufferPool, Drained
  <2>2. CallbackInv'
    BY <1>20, <2>1, CallbackNone DEF DisableDrained, FreeBufferPool
  <2>3. PaintedNotSubmitted'
    BY <1>20
    DEF DisableDrained, FreeBufferPool, NewPool, FreedPool,
        PaintedNotSubmitted, Painting, TypeOK, Buffer
  <2> QED BY <2>2, <2>3
<1>21. ASSUME AcquireBuffer \/ AcquireWaited PROVE Goal
  <2>1. PICK s \in FreeSlots :
            /\ slots' = [slots EXCEPT ![s].state = "ACQUIRED"]
            /\ held' = [slot |-> s, buf |-> slots[s].buf]
    BY <1>21 DEF AcquireBuffer, AcquireWaited, TakeSlot
  <2>2. s \in Slots /\ slots[s].state # "SUBMITTED"
    BY DEF FreeSlots
  <2>3. CallbackInv'
    BY <1>21, <2>1, <2>2, CallbackElsewhere
    DEF AcquireBuffer, AcquireWaited, TakeSlot, TypeOK
  <2>4. held'.slot = s /\ held'.buf = slots[s].buf
    BY <2>1
  <2>5. slots'[s].state = "ACQUIRED" /\ slots'[s].buf = slots[s].buf
    BY <2>1, <2>2 DEF TypeOK
  <2>6. slots[s].buf # 0
    BY <2>1 DEF FreeSlots
  <2> QED BY <2>3, <2>4, <2>5, <2>6 DEF PaintedNotSubmitted
<1>22. ASSUME LockBuffer PROVE Goal
  <2>1. held.slot \in Slots /\ slots[held.slot].state # "SUBMITTED"
    BY <1>22
    DEF LockBuffer, AtSubmit, PaintedNotSubmitted, Painting, TypeOK,
        Buffer
  <2>2. CallbackInv'
    BY <1>22, <2>1, CallbackElsewhere DEF LockBuffer, TypeOK
  <2> QED BY <1>22, <2>1, <2>2 DEF LockBuffer, PaintedNotSubmitted, Painting, TypeOK
<1>23. ASSUME UnlockBuffer \/ AbandonLockedFrame PROVE Goal
  <2>1. held.slot \in Slots /\ slots[held.slot].state # "SUBMITTED"
    BY <1>23
    DEF UnlockBuffer, AbandonLockedFrame, PaintedNotSubmitted, Painting, TypeOK, Buffer
  <2>2. CallbackInv'
    BY <1>23, <2>1, CallbackElsewhere DEF UnlockBuffer, AbandonLockedFrame, Unlock, TypeOK
  <2> QED BY <1>23, <2>1, <2>2
          DEF UnlockBuffer, AbandonLockedFrame, Unlock, PaintedNotSubmitted, Painting, TypeOK
<1>24. ASSUME SubmitFails PROVE Goal
  <2>1. held.slot \in Slots /\ slots[held.slot].state # "SUBMITTED"
    BY <1>24
    DEF SubmitFails, AtSubmit, PaintedNotSubmitted, Painting, TypeOK,
        Buffer
  <2>2. CallbackInv'
    BY <1>24, <2>1, CallbackElsewhere DEF SubmitFails, TypeOK
  <2> QED BY <1>24, <2>1, <2>2 DEF SubmitFails, PaintedNotSubmitted, Painting, TypeOK
<1>25. ASSUME SubmitBuffer PROVE Goal
  <2> DEFINE s == held.slot
             c == [slot |-> s, buf |-> slots[s].buf]
  <2>1. /\ s \in Slots /\ slots[s].state = "ACQUIRED" /\ slots[s].buf # 0
        /\ c # None /\ c \in Buffer
    BY <1>25 DEF SubmitBuffer, TypeOK, Buffer, None
  <2>2. c \notin inflight /\ c # binder
    <3>1. c \in inflight \cup ({binder} \ {None}) => slots[c.slot] = [state |-> "SUBMITTED", buf |-> c.buf]
      BY DEF CallbackInv, CallbacksCurrent
    <3> QED BY <2>1, <3>1
  <2>3. /\ slots' = [slots EXCEPT ![s].state = "SUBMITTED"]
        /\ submitted' = submitted + 1 /\ inflight' = inflight \cup {c}
        /\ binder' = binder
    BY <1>25 DEF SubmitBuffer
  <2>4. IsFiniteSet(inflight') /\ Cardinality(inflight') = Cardinality(inflight) + 1
    BY <2>2, <2>3, FS_AddElement DEF CallbackInv
  <2>5. CountIsExact'
    BY <2>3, <2>4, FS_CardinalityType DEF CallbackInv, CountIsExact
  <2>6. CallbacksCurrent'
    <3>1. ASSUME NEW d \in inflight \cup ({binder} \ {None})
          PROVE  slots'[d.slot] = [state |-> "SUBMITTED", buf |-> d.buf]
      <4>1. d \in Buffer /\ d.slot \in Slots
        BY DEF TypeOK, Buffer
      <4>2. slots[d.slot] = [state |-> "SUBMITTED", buf |-> d.buf]
        BY DEF CallbackInv, CallbacksCurrent
      <4> QED BY <2>1, <2>3, <4>1, <4>2 DEF TypeOK
    <3>2. slots'[c.slot] = [state |-> "SUBMITTED", buf |-> c.buf]
      BY <2>1, <2>3 DEF TypeOK
    <3> QED BY <2>3, <3>1, <3>2 DEF CallbacksCurrent
  <2>7. BinderNotInFlight'
    BY <2>2, <2>3 DEF CallbackInv, BinderNotInFlight
  <2>8. PaintedNotSubmitted'
    BY <1>25 DEF SubmitBuffer, PaintedNotSubmitted, Painting, TypeOK
  <2> QED BY <2>4, <2>5, <2>6, <2>7, <2>8 DEF CallbackInv
<1>26. ASSUME NEW c \in inflight, HandleBufferRelease(c) PROVE Goal
  <2>1. /\ binder = None /\ inflight' = inflight \ {c}
        /\ UNCHANGED <<slots, submitted>>
    BY <1>26 DEF HandleBufferRelease
  <2>2. c \in Buffer /\ c.slot \in Slots
    BY DEF TypeOK, Buffer
  <2>3. slots[c.slot] = [state |-> "SUBMITTED", buf |-> c.buf]
    BY DEF CallbackInv, CallbacksCurrent
  <2>4. c # None /\ alive
    BY <2>2, <2>3
    DEF SlotInv, SubmittedHasBuffer, TokenOrder, DisabledPoolEmpty,
        FreedPool, None
  <2>5. binder' = c
    BY <1>26, <2>4 DEF HandleBufferRelease
  <2>6. /\ IsFiniteSet(inflight') /\ Cardinality(inflight') = Cardinality(inflight) - 1
        /\ Cardinality(inflight) \in Nat
    BY <2>1, FS_RemoveElement, FS_CardinalityType DEF CallbackInv
  <2>7. CountIsExact'
    BY <2>1, <2>4, <2>5, <2>6 DEF CallbackInv, CountIsExact
  <2>8. CallbacksCurrent' /\ BinderNotInFlight'
    BY <2>1, <2>5 DEF CallbackInv, CallbacksCurrent, BinderNotInFlight
  <2>9. PaintedNotSubmitted'
    BY <1>26 DEF HandleBufferRelease, PaintedNotSubmitted, Painting
  <2> QED BY <2>6, <2>7, <2>8, <2>9 DEF CallbackInv
<1>27. ASSUME OnBufferReleasedInternal PROVE Goal
  <2>1. /\ binder # None /\ binder' = None /\ UNCHANGED <<inflight, pc, held>>
        /\ slots' = [slots EXCEPT ![binder.slot].state = "FREE"]
        /\ submitted' = IF submitted > 0 THEN submitted - 1 ELSE 0
    BY <1>27 DEF OnBufferReleasedInternal
  <2>2. Cardinality(inflight) \in Nat /\ submitted = Cardinality(inflight) + 1
    BY <2>1, FS_CardinalityType DEF CallbackInv, CountIsExact
  <2>3. CountIsExact'
    BY <2>1, <2>2 DEF CountIsExact
  <2>4. ASSUME NEW d \in inflight
        PROVE  slots'[d.slot] = [state |-> "SUBMITTED", buf |-> d.buf] /\ d # None
    <3>1. d \in Buffer /\ d.slot \in Slots /\ binder \in Buffer /\ binder.slot \in Slots
      BY DEF TypeOK, Buffer
    <3>2. slots[d.slot] = [state |-> "SUBMITTED", buf |-> d.buf]
      BY DEF CallbackInv, CallbacksCurrent
    <3>3. slots[binder.slot] = [state |-> "SUBMITTED", buf |-> binder.buf]
      BY <2>1 DEF CallbackInv, CallbacksCurrent
    <3>4. d # binder
      BY DEF CallbackInv, BinderNotInFlight
    <3>5. d.slot # binder.slot
      BY <3>1, <3>2, <3>3, <3>4 DEF Buffer
    <3>6. d.buf # 0
      BY <3>1, <3>2 DEF SlotInv, SubmittedHasBuffer
    <3> QED BY <2>1, <3>1, <3>2, <3>5, <3>6 DEF TypeOK, None
  <2>5. CallbacksCurrent' /\ BinderNotInFlight'
    BY <2>1, <2>4 DEF CallbacksCurrent, BinderNotInFlight
  <2>6. PaintedNotSubmitted'
    BY <2>1 DEF PaintedNotSubmitted, Painting, TypeOK, Buffer
  <2> QED BY <2>1, <2>3, <2>5, <2>6 DEF CallbackInv
<1>29. ASSUME AttachNativeWindow \/ ReadOutputMode PROVE Goal
  BY <1>29, CallbackUnchanged
  DEF AttachNativeWindow, ReadOutputMode, PaintedNotSubmitted, Painting, TypeOK
<1>30. ASSUME AcquireWaits \/ AcquireGivesUp PROVE Goal
  BY <1>30, CallbackUnchanged
  DEF AcquireWaits, AcquireGivesUp, PaintedNotSubmitted, Painting, TypeOK
<1>28. CASE UNCHANGED vars
  BY <1>28, CallbackUnchanged DEF vars, PaintedNotSubmitted, Painting
<1> QED
  BY <1>1, <1>2, <1>3, <1>4, <1>5, <1>6, <1>7, <1>8, <1>9, <1>10, <1>11,
     <1>12, <1>13, <1>14, <1>15, <1>16, <1>17, <1>18, <1>19, <1>20, <1>21,
     <1>22, <1>23, <1>24, <1>25, <1>26, <1>27, <1>28, <1>29, <1>30
  DEF Next, UiCall, UiStep, OutputSetWindowCall, Repaint, Teardown

(* The initial states have no callback.                                    *)
LEMMA InitExact == Init => ExactInv
BY InitSlot, FS_EmptySet
DEF Init, ExactInv, CallbackInv, CallbacksCurrent, BinderNotInFlight,
    CountIsExact, PaintedNotSubmitted, Painting, QuietInv, SurfaceInv, QuietAtEnds, Threads

(* As long as no drain times out, submitted_count_ counts the callbacks    *)
(* still to come, so that a drain that ends has drained.                   *)
THEOREM ExactCount == ~DrainTimeouts => (Spec => []CountIsExact)
<1> SUFFICES ASSUME ~DrainTimeouts PROVE Spec => []CountIsExact
  OBVIOUS
<1>1. ExactInv => CountIsExact
  BY DEF ExactInv, CallbackInv
<1>2. ExactInv /\ [Next]_vars => ExactInv'
  BY ExactStep
<1> QED BY <1>1, <1>2, InitExact, PTL DEF Spec

(* As long as no drain times out, the compositor paints no buffer whose    *)
(* callback is still to come or is running, even while the UI thread       *)
(* replaces the pool under it.                                             *)
THEOREM PaintingSafety == ~DrainTimeouts => (Spec => []NoPaintBeforeCallback)
<1> SUFFICES ASSUME ~DrainTimeouts PROVE Spec => []NoPaintBeforeCallback
  OBVIOUS
<1>1. ExactInv => NoPaintBeforeCallback
  <2>1. ASSUME ExactInv, held \in inflight \cup ({binder} \ {None})
        PROVE  slots[held.slot] = [state |-> "SUBMITTED", buf |-> held.buf]
    BY <2>1 DEF ExactInv, CallbackInv, CallbacksCurrent
  <2> QED BY <2>1 DEF ExactInv, PaintedNotSubmitted, None, NoPaintBeforeCallback
<1>2. ExactInv /\ [Next]_vars => ExactInv'
  BY ExactStep
<1> QED BY <1>1, <1>2, InitExact, PTL DEF Spec

(* As long as no drain times out, a release frees the SUBMITTED slot it    *)
(* was issued for, although it names the slot by its index only.           *)
THEOREM ReleaseSafety == ~DrainTimeouts => (Spec => []ReleaseFreesItsOwnSlot)
<1> SUFFICES ASSUME ~DrainTimeouts PROVE Spec => []ReleaseFreesItsOwnSlot
  OBVIOUS
<1>1. ExactInv => ReleaseFreesItsOwnSlot
  BY DEF ExactInv, CallbackInv, CallbacksCurrent, ReleaseFreesItsOwnSlot
<1>2. ExactInv /\ [Next]_vars => ExactInv'
  BY ExactStep
<1> QED BY <1>1, <1>2, InitExact, PTL DEF Spec

-----------------------------------------------------------------------------
(* While no NDK call fails.                                                *)

(* Nothing that concerns the frame in progress changes.                    *)
LEMMA FrameUnchanged ==
    ASSUME FrameInOrder, NoLeakedSlot, is_enabled' = is_enabled,
           UNCHANGED <<slots, held>>, pc'["comp"] = pc["comp"]
    PROVE  FrameInOrder' /\ NoLeakedSlot'
BY DEF FrameInOrder, NoLeakedSlot, Painting

(* The pool is replaced: no slot of the new one is taken.                  *)
LEMMA FrameReplaced ==
    ASSUME TypeOK, FrameInOrder, slots' \in {NewPool, FreedPool},
           is_enabled => is_enabled', held' = held,
           pc'["comp"] = pc["comp"] \/ pc'["comp"] \notin {"acquired", "locked", "submit"}
    PROVE  FrameInOrder' /\ NoLeakedSlot'
<1>1. ASSUME NEW s \in Slots PROVE slots'[s].state = "FREE"
  BY DEF NewPool, FreedPool
<1>2. held.slot \in Slots
  BY DEF TypeOK, Buffer
<1> QED BY <1>1, <1>2 DEF FrameInOrder, NoLeakedSlot, Painting

(* Outside a frame no slot is taken, and none is after a step that starts  *)
(* none.                                                                   *)
LEMMA FrameNone ==
    ASSUME NoLeakedSlot, ~Painting, UNCHANGED slots, ~Painting'
    PROVE  FrameInOrder' /\ NoLeakedSlot'
BY DEF FrameInOrder, NoLeakedSlot, Painting

(* While no NDK call fails, every step keeps the frame in order.           *)
LEMMA FrameStep ==
    ASSUME ~Faults
    PROVE  FrameInv /\ [Next]_vars => FrameInv'
<1> SUFFICES ASSUME FrameInv, [Next]_vars PROVE FrameInOrder' /\ NoLeakedSlot'
  BY SlotStep DEF FrameInv
<1> TypeOK /\ TypeOK' /\ SlotInv /\ FrameInOrder /\ NoLeakedSlot
  BY SlotStep DEF FrameInv, SlotInv, TypeInv
<1> USE NoneIsBuffer DEF pool, binding, token, host, Goto, Threads
<1> DEFINE Goal == FrameInOrder' /\ NoLeakedSlot'
<1>1. ASSUME \/ \E w \in Windows, sz \in Sizes : SetNativeWindow(w, sz)
             \/ DestroyNativeWindow \/ SetOutputScale \/ Resize
      PROVE  Goal
  BY <1>1, FrameUnchanged
  DEF SetNativeWindow, DestroyNativeWindow, SetOutputScale, Resize, TypeOK
<1>2. ASSUME NEW t \in Threads,
             OutputSetWindow(t) \/ EnableAlreadyEnabled(t) \/ SetWindow(t) \/ WindowDrained(t)
      PROVE  Goal
  <2>1. CASE t = "ui"
    BY <1>2, <2>1, FrameUnchanged
    DEF OutputSetWindow, EnableAlreadyEnabled, SetWindow, WindowDrained, TypeOK
  <2>2. CASE t = "comp"
    BY <1>2, <2>2, FrameNone
    DEF OutputSetWindow, EnableAlreadyEnabled, SetWindow, WindowDrained,
        AfterSetWindow, Painting, TypeOK
  <2> QED BY <2>1, <2>2
<1>3. ASSUME NEW t \in Threads, EnableSucceeds(t) PROVE Goal
  <2>1. pc'["comp"] = pc["comp"] \/ pc'["comp"] \notin {"acquired", "locked", "submit"}
    BY <1>3 DEF EnableSucceeds, AfterSetWindow, TypeOK
  <2> QED BY <1>3, <2>1, FrameReplaced DEF EnableSucceeds, Enable, AllocateBufferPool
<1>4. ASSUME (\E t \in Threads : EnableFails(t)) \/ OutputEnableFails PROVE Goal
  BY <1>4 DEF EnableFails, OutputEnableFails, EnableError
<1>5. ASSUME ResizeDrained PROVE Goal
  BY <1>5, FrameReplaced DEF ResizeDrained, AllocateBufferPool, TypeOK
<1>6. ASSUME \/ AttachNativeWindow \/ ReadOutputMode \/ OutputSetMode \/ AcquireWaits
             \/ AcquireGivesUp \/ BeginTeardown \/ Disable \/ InvalidateToken \/ Delete
      PROVE  Goal
  BY <1>6, FrameNone
  DEF AttachNativeWindow, ReadOutputMode, OutputSetMode, AcquireWaits, AcquireGivesUp,
      BeginTeardown, Disable, InvalidateToken, Delete, Painting, TypeOK
<1>7. ASSUME OutputEnable PROVE Goal
  <2>1. ~Painting /\ ~Painting'
    BY <1>7 DEF OutputEnable, Painting, TypeOK
  <2>2. CASE UNCHANGED slots
    BY <2>1, <2>2, FrameNone
  <2>3. CASE ~UNCHANGED slots
    BY <1>7, <2>1, <2>3, FrameReplaced
    DEF OutputEnable, Enable, AllocateBufferPool, Painting
  <2> QED BY <2>2, <2>3
<1>8. ASSUME DisableDrained PROVE Goal
  BY <1>8, FrameReplaced DEF DisableDrained, FreeBufferPool, TypeOK
<1>9. ASSUME AcquireBuffer \/ AcquireWaited PROVE Goal
  <2>1. PICK s \in FreeSlots :
            /\ slots' = [slots EXCEPT ![s].state = "ACQUIRED"]
            /\ held' = [slot |-> s, buf |-> slots[s].buf]
    BY <1>9 DEF AcquireBuffer, AcquireWaited, TakeSlot
  <2>2. s \in Slots /\ slots[s].buf # 0
    BY DEF FreeSlots
  <2>3. ASSUME NEW r \in Slots PROVE slots[r].state \notin {"ACQUIRED", "LOCKED"}
    BY <1>9 DEF AcquireBuffer, AcquireWaited, NoLeakedSlot, Painting
  <2>4. pc'["comp"] = "acquired" /\ is_enabled'
    BY <1>9 DEF AcquireBuffer, AcquireWaited, TakeSlot, IsEnabled, TypeOK
  <2> QED BY <2>1, <2>2, <2>3, <2>4 DEF FrameInOrder, NoLeakedSlot, Painting, TypeOK
<1>10. ASSUME LockBuffer PROVE Goal
  <2>1. held.slot \in Slots
    BY DEF TypeOK, Buffer
  <2> QED BY <1>10, <2>1 DEF LockBuffer, FrameInOrder, NoLeakedSlot, Painting, TypeOK
<1>11. ASSUME AbandonFrame PROVE Goal
  <2>1. ASSUME NEW s \in Slots, slots[s].state \in {"ACQUIRED", "LOCKED"} PROVE FALSE
    <3>1. held = [slot |-> s, buf |-> slots[s].buf]
      BY <2>1 DEF NoLeakedSlot
    <3> QED BY <1>11, <2>1, <3>1 DEF AbandonFrame, FrameInOrder, Painting
  <2> QED BY <1>11, <2>1 DEF AbandonFrame, FrameInOrder, NoLeakedSlot, Painting, TypeOK
<1>12. ASSUME UnlockBuffer PROVE Goal
  <2>1. held.slot \in Slots /\ held.buf # 0 /\ is_enabled
    BY <1>12 DEF UnlockBuffer, FrameInOrder, Painting, TypeOK, Buffer
  <2>2. slots[held.slot].state = "LOCKED" => slots[held.slot].buf # 0
    BY <2>1 DEF NoLeakedSlot
  <2> QED BY <1>12, <2>1, <2>2 DEF UnlockBuffer, Unlock, FrameInOrder, NoLeakedSlot, Painting, TypeOK
<1>13. ASSUME SubmitBuffer \/ SubmitFails PROVE Goal
  <2>1. ASSUME NEW s \in Slots PROVE slots'[s].state \notin {"ACQUIRED", "LOCKED"}
    <3>1. slots[s].state \in {"ACQUIRED", "LOCKED"} => s = held.slot
      BY DEF NoLeakedSlot
    <3>2. held.slot \in Slots
      BY DEF TypeOK, Buffer
    <3>3. pc["comp"] \in {"acquired", "submit"}
      BY <1>13 DEF SubmitBuffer, SubmitFails, AtSubmit
    <3> QED BY <1>13, <3>1, <3>2, <3>3 DEF SubmitBuffer, SubmitFails, FrameInOrder, TypeOK
  <2>2. ~Painting'
    BY <1>13 DEF SubmitBuffer, SubmitFails, Painting, TypeOK
  <2> QED BY <2>1, <2>2 DEF FrameInOrder, NoLeakedSlot, Painting
<1>14. ASSUME NEW c \in inflight, HandleBufferRelease(c) PROVE Goal
  BY <1>14, FrameUnchanged DEF HandleBufferRelease
<1>15. ASSUME OnBufferReleasedInternal PROVE Goal
  <2>1. ASSUME NEW s \in Slots
        PROVE  slots'[s].state = "FREE" \/ slots'[s] = slots[s]
    BY <1>15 DEF OnBufferReleasedInternal, TypeOK
  <2>2. held.slot \in Slots
    BY DEF TypeOK, Buffer
  <2> QED BY <1>15, <2>1, <2>2
          DEF OnBufferReleasedInternal, FrameInOrder, NoLeakedSlot, Painting
<1>17. ASSUME AbandonLockedFrame PROVE Goal
  BY <1>17 DEF AbandonLockedFrame
<1>16. CASE UNCHANGED vars
  BY <1>16, FrameUnchanged DEF vars
<1> QED
  BY <1>1, <1>2, <1>3, <1>4, <1>5, <1>6, <1>7, <1>8, <1>9, <1>10, <1>11,
     <1>12, <1>13, <1>14, <1>15, <1>16, <1>17
  DEF Next, UiCall, UiStep, OutputSetWindowCall, Repaint, Teardown

(* While no NDK call fails the pool loses no slot, whatever the UI thread  *)
(* resizes, detaches and attaches under the painter, and even when drains  *)
(* time out.                                                               *)
THEOREM NoLostSlot == ~Faults => (Spec => []NoLeakedSlot)
<1> SUFFICES ASSUME ~Faults PROVE Spec => []NoLeakedSlot
  OBVIOUS
<1>1. Init => FrameInv
  BY InitSlot DEF Init, FrameInv, FrameInOrder, NoLeakedSlot, Painting, FreedPool, Threads
<1>2. FrameInv /\ [Next]_vars => FrameInv'
  BY FrameStep
<1>3. FrameInv => NoLeakedSlot
  BY DEF FrameInv
<1> QED BY <1>1, <1>2, <1>3, PTL DEF Spec

(* Nothing that concerns an attachment changes, and no thread enters the   *)
(* middle of set_window.                                                   *)
LEMMA AttachUnchanged ==
    ASSUME BareHasNoWindow, NativeCurrent, AttachInOrder,
           UNCHANGED <<is_enabled, surface, window, native>>, arg' = arg,
           closing => closing',
           \A t \in Threads : pc'[t] = pc[t] \/ pc'[t] \notin {"enable", "setWindow", "drainWindow"},
           pc["ui"] \in {"idle", "resize", "drainResize"} \/ pc'["ui"] \notin {"idle", "resize", "drainResize"},
           pc["ui"] = "set_window" => pc'["ui"] = "set_window",
           pc["comp"] \in {"attach", "set_window"} /\ native = NoWindow /\ ~closing' =>
               pc'["comp"] \in {"attach", "set_window"} \/ arg.window = NoWindow,
           Attaching => closing' \/ Attaching'
    PROVE  BareHasNoWindow' /\ NativeCurrent' /\ AttachInOrder'
BY DEF BareHasNoWindow, NativeCurrent, AttachInOrder, Attached, IsEnabled, Threads

(* While no NDK call fails, every step keeps what set_window has decided.  *)
LEMMA AttachStep ==
    ASSUME ~Faults
    PROVE  AttachInv /\ [Next]_vars => AttachInv'
<1> SUFFICES ASSUME AttachInv, [Next]_vars
             PROVE  BareHasNoWindow' /\ NativeCurrent' /\ AttachInOrder'
  BY SlotStep DEF AttachInv
<1> TypeOK /\ TypeOK' /\ SlotInv /\ SlotInv' /\ BareHasNoWindow /\ NativeCurrent /\ AttachInOrder
  BY SlotStep DEF AttachInv, SlotInv, TypeInv
<1> UiLabels /\ WorkerLabels /\ MutexHeld /\ EnableHasWindow
  BY DEF SlotInv, CallInv
<1> USE DEF pool, binding, token, host, Goto, Threads
<1> DEFINE Goal == BareHasNoWindow' /\ NativeCurrent' /\ AttachInOrder'
<1>1. ASSUME SetOutputScale \/ Resize \/ ResizeDrained PROVE Goal
  BY <1>1, AttachUnchanged DEF SetOutputScale, Resize, ResizeDrained, Attaching, TypeOK
<1>2. ASSUME \/ LockBuffer \/ AbandonFrame \/ UnlockBuffer \/ AbandonLockedFrame
             \/ SubmitBuffer \/ SubmitFails
      PROVE  Goal
  BY <1>2, AttachUnchanged
  DEF LockBuffer, AbandonFrame, UnlockBuffer, AbandonLockedFrame, SubmitBuffer,
      SubmitFails, AtSubmit, Attaching, TypeOK
<1>3. ASSUME AcquireBuffer \/ AcquireWaits \/ AcquireWaited \/ AcquireGivesUp PROVE Goal
  BY <1>3, AttachUnchanged
  DEF AcquireBuffer, AcquireWaits, AcquireWaited, AcquireGivesUp, TakeSlot, Attaching, TypeOK
<1>4. ASSUME (\E c \in inflight : HandleBufferRelease(c)) \/ OnBufferReleasedInternal
      PROVE  Goal
  BY <1>4, AttachUnchanged
  DEF HandleBufferRelease, OnBufferReleasedInternal, Attaching
<1>5. ASSUME InvalidateToken \/ Delete \/ ReadOutputMode \/ OutputSetMode PROVE Goal
  BY <1>5, AttachUnchanged
  DEF InvalidateToken, Delete, ReadOutputMode, OutputSetMode, Attaching, TypeOK
<1>6. ASSUME AttachNativeWindow PROVE Goal
  BY <1>6, AttachUnchanged DEF AttachNativeWindow, Attaching, TypeOK
<1>7. ASSUME (\E w \in Windows, sz \in Sizes : SetNativeWindow(w, sz)) \/ DestroyNativeWindow
      PROVE  Goal
  BY <1>7
  DEF SetNativeWindow, DestroyNativeWindow, Serving, Attaching, TypeOK,
      BareHasNoWindow, NativeCurrent, AttachInOrder, Attached, IsEnabled
<1>8. ASSUME BeginTeardown \/ OutputEnableFails PROVE Goal
  BY <1>8
  DEF BeginTeardown, OutputEnableFails, EnableError, TypeOK, BareHasNoWindow,
      NativeCurrent, AttachInOrder
<1>9. ASSUME Disable \/ DisableDrained PROVE Goal
  <2>1. closing
    BY <1>9 DEF Disable, DisableDrained, WorkerLabels, StartLabels, RepaintLabels
  <2> QED BY <1>9, <2>1
          DEF Disable, DisableDrained, BareHasNoWindow, NativeCurrent, AttachInOrder
<1>10. ASSUME OutputEnable PROVE Goal
  BY <1>10
  DEF OutputEnable, Enable, Attaching, TypeOK, BareHasNoWindow, NativeCurrent,
      AttachInOrder, Attached, IsEnabled, UiLabels
<1>11. ASSUME NEW t \in Threads, EnableFails(t) PROVE Goal
  BY <1>11 DEF EnableFails, EnableError
<1>12. ASSUME NEW t \in Threads, OutputSetWindow(t) PROVE Goal
  BY <1>12
  DEF OutputSetWindow, Target, Attaching, MutexHeld, TypeOK, BareHasNoWindow,
      NativeCurrent, AttachInOrder, Attached, IsEnabled
<1>13. ASSUME NEW t \in Threads, EnableAlreadyEnabled(t) PROVE Goal
  BY <1>13
  DEF EnableAlreadyEnabled, AfterSetWindow, Target, Attaching, MutexHeld, EnableHasWindow,
      TypeOK, BareHasNoWindow, NativeCurrent, AttachInOrder, Attached, IsEnabled
<1>14. ASSUME NEW t \in Threads, EnableSucceeds(t) PROVE Goal
  BY <1>14
  DEF EnableSucceeds, Enable, AfterSetWindow, Target, Attaching, MutexHeld, EnableHasWindow,
      TypeOK, BareHasNoWindow, NativeCurrent, AttachInOrder, Attached, IsEnabled
<1>15. ASSUME NEW t \in Threads, SetWindow(t) PROVE Goal
  BY <1>15
  DEF SetWindow, AfterSetWindow, Target, Attaching, MutexHeld, TypeOK, BareHasNoWindow,
      NativeCurrent, AttachInOrder, Attached, IsEnabled
<1>16. ASSUME NEW t \in Threads, WindowDrained(t) PROVE Goal
  BY <1>16
  DEF WindowDrained, AfterSetWindow, Target, Attaching, MutexHeld, TypeOK, BareHasNoWindow,
      NativeCurrent, AttachInOrder, Attached, IsEnabled
<1>17. CASE UNCHANGED vars
  BY <1>17, AttachUnchanged DEF vars, Attaching
<1> QED
  BY <1>1, <1>2, <1>3, <1>4, <1>5, <1>6, <1>7, <1>8, <1>9, <1>10, <1>11,
     <1>12, <1>13, <1>14, <1>15, <1>16, <1>17
  DEF Next, UiCall, UiStep, OutputSetWindowCall, Repaint, Teardown

(* While no NDK call fails and the output is not being torn down, a window *)
(* that has been attached is presented, unless one was detached before,    *)
(* however the calls of the UI thread overlap with the start of the output *)
(* and with its frames.                                                    *)
THEOREM AttachSafety == Spec => []AttachResumesUnlessDetached
<1>1. CASE Faults
  <2>1. AttachResumesUnlessDetached
    BY <1>1 DEF AttachResumesUnlessDetached
  <2> QED BY <2>1, PTL
<1>2. CASE ~Faults
  <2>1. Init => AttachInv
    BY InitSlot
    DEF Init, AttachInv, BareHasNoWindow, NativeCurrent, AttachInOrder, Threads
  <2>2. AttachInv /\ [Next]_vars => AttachInv'
    BY <1>2, AttachStep
  <2>3. AttachInv => AttachResumesUnlessDetached
    BY DEF AttachInv, NativeCurrent, AttachInOrder, Attached, SlotInv, CallInv, MutexHeld,
           AttachResumesUnlessDetached
  <2> QED BY <2>1, <2>2, <2>3, PTL DEF Spec
<1> QED BY <1>1, <1>2
=============================================================================
