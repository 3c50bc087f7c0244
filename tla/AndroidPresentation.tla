------------------------- MODULE AndroidPresentation -------------------------
(***************************************************************************)
(* The presentation backend (android_presentation.cpp) with its callers in *)
(* linuxdroid_backend.c: a pool of hardware buffers that the compositor    *)
(* thread paints and submits, that come back through Binder callbacks, and *)
(* that the Android UI thread rebinds and resizes through                  *)
(* linuxdroid_output_set_window and linuxdroid_output_resize while the     *)
(* compositor runs.  mutex_ makes each action below atomic; a drain waits  *)
(* on cv_ with mutex_ released and is a step of its own.  token_mutex is   *)
(* held from the start of a release callback to its end.                   *)
(*                                                                         *)
(* A callback says that a buffer is FREE again, not that SurfaceFlinger    *)
(* has stopped reading it: from API 36 on it comes with a release fence    *)
(* that is closed without a wait, and before that it is setOnComplete's,   *)
(* which comes when the buffer has been latched.  The model follows the    *)
(* callbacks and claims nothing about what is being read.                  *)
(*                                                                         *)
(* The object lives for one output: Init is weston_compositor_create_      *)
(* output, the end is linuxdroid_output_destroy_hook.  The worker tears    *)
(* the output down without window_mutex_, so that a call of the UI thread  *)
(* can overlap the teardown; a step of that call on the deleted backend is *)
(* undefined behaviour, and the model ends the UI thread there.            *)
(***************************************************************************)
EXTENDS Integers, FiniteSets

CONSTANTS
    CAPACITY,       \* LINUXDROID_BUFFER_POOL_CAPACITY
    Windows,        \* ANativeWindow pointers
    NoWindow,       \* nullptr
    Sizes,          \* output sizes
    Renderer,       \* "GLES" or "PIXMAN"
    DrainTimeouts,  \* may a callback come later than a drain waits for it
    Faults,         \* may an NDK or allocation call fail
    MaxPools        \* bound: how many buffer pools are allocated

ASSUME PresentationAssumption ==
    /\ CAPACITY \in Nat \ {0}
    /\ NoWindow \notin Windows
    /\ Renderer \in {"GLES", "PIXMAN"}
    /\ DrainTimeouts \in BOOLEAN
    /\ Faults \in BOOLEAN
    /\ MaxPools \in Nat

VARIABLES
    slots,       \* slots_: state and buffer of each slot
    is_enabled,  \* is_enabled_
    surface,     \* surface_control_ # nullptr
    window,      \* native_window_
    size,        \* width_ and height_, the size of the pool's buffers
    outSize,     \* output->width and height
    submitted,   \* submitted_count_
    pools,       \* number of pools allocated so far; names the buffers
    inflight,    \* submitted buffers whose callback is still to come
    binder,      \* the callback that holds token_mutex, if any
    alive,       \* token_->is_alive
    deleted,     \* the backend has been deleted
    pc,          \* where each thread is
    arg,         \* GuiHost's native_window_, window_width_ and height_
    native,      \* output->native_window
    mode,        \* the size the worker has read for the output's mode
    closing,     \* the worker tears the output down
    held         \* the slot and buffer the compositor paints

pool    == <<slots, submitted, pools>>
binding == <<is_enabled, surface, window, size, outSize>>
token   == <<inflight, binder, alive, deleted>>
host    == <<arg, native, mode, closing>>
vars    == <<pool, binding, token, pc, host, held>>

Slots == 0 .. CAPACITY - 1

\* Buffer 0 is nullptr; the buffers of the n-th pool are numbered n.
Buffer == [slot : Slots, buf : 0 .. MaxPools]
None == [slot |-> 0, buf |-> 0]

Threads == {"ui", "comp"}
NoSize == "none"

Goto(t, l) == pc' = [pc EXCEPT ![t] = l]

\* getStats, isEnabled
IsEnabled == is_enabled /\ surface

\* Mutant: a slot whose callback is still to come is taken for free.
FreeSlotsSubmitted == {s \in Slots : slots[s].state # "ACQUIRED" /\ slots[s].buf # 0}
FreeSlots == {s \in Slots : slots[s].state = "FREE" /\ slots[s].buf # 0}

\* freeBufferPoolLocked
FreedPool == [s \in Slots |-> [state |-> "FREE", buf |-> 0]]
\* allocateBufferPoolLocked, when every allocation succeeds
NewPool == [s \in Slots |-> [state |-> "FREE", buf |-> pools + 1]]

FreeBufferPool == slots' = FreedPool /\ submitted' = 0 /\ UNCHANGED pools

AllocateBufferPool ==
    /\ pools < MaxPools
    /\ slots' = NewPool
    /\ pools' = pools + 1

\* Mutants: a drain that stops one buffer early, one that never gives up.
DrainedOneEarly == submitted <= 1 \/ DrainTimeouts
DrainedForever == submitted = 0

\* drainOutstandingBuffersLocked returns: nothing is in flight, or time is up.
Drained == submitted = 0 \/ DrainTimeouts

-----------------------------------------------------------------------------
(* linuxdroid_output_set_window(window), by the UI thread and, with a      *)
(* window attached before the start, by the worker, both with              *)
(* window_mutex_ held; and by the worker with NULL, without it, when it    *)
(* tears the output down.                                                  *)

\* The argument of thread t's call.
Target(t) == IF t = "comp" /\ closing THEN NoWindow ELSE arg.window

\* android_presentation_is_enabled decides between enable and setWindow.
OutputSetWindow(t) ==
    /\ pc[t] = "set_window"
    /\ native' = Target(t)
    /\ Goto(t, IF ~IsEnabled /\ Target(t) # NoWindow THEN "enable" ELSE "setWindow")
    /\ UNCHANGED <<pool, binding, token, arg, mode, closing, held>>

\* Where a thread goes when set_window returns: the UI thread resizes unless
\* it has detached the window, the worker goes on with its start or teardown.
AfterSetWindow(t) ==
    IF t = "ui" THEN (IF arg.window = NoWindow THEN "idle" ELSE "resize")
    ELSE IF closing THEN "disable" ELSE "set_mode"

\* enable(w): a SurfaceControl on the window and a pool of buffers ...
Enable(w) ==
    /\ AllocateBufferPool
    /\ is_enabled' = TRUE
    /\ surface' = TRUE
    /\ window' = w
    /\ size' = outSize

\* ... or no SurfaceControl, or a SurfaceControl but no buffers.
EnableError(w) ==
    /\ Faults
    /\ \/ UNCHANGED pool
       \/ FreeBufferPool
    /\ surface' = FALSE
    /\ window' = w
    /\ size' = outSize
    /\ UNCHANGED is_enabled

EnableAlreadyEnabled(t) ==
    /\ pc[t] = "enable" /\ is_enabled
    /\ Goto(t, AfterSetWindow(t))
    /\ UNCHANGED <<pool, binding, token, host, held>>

EnableSucceeds(t) ==
    /\ pc[t] = "enable" /\ ~is_enabled
    /\ Enable(Target(t))
    /\ Goto(t, AfterSetWindow(t))
    /\ UNCHANGED <<token, submitted, outSize, arg, native, mode, closing, held>>

EnableFails(t) ==
    /\ pc[t] = "enable" /\ ~is_enabled
    /\ EnableError(Target(t))
    /\ Goto(t, AfterSetWindow(t))
    /\ UNCHANGED <<token, outSize, arg, native, mode, closing, held>>

SetWindow(t) ==
    /\ pc[t] = "setWindow"
    /\ IF window = Target(t)
         THEN Goto(t, AfterSetWindow(t)) /\ UNCHANGED window
         ELSE IF surface
           THEN Goto(t, "drainWindow") /\ UNCHANGED window
           ELSE Goto(t, AfterSetWindow(t)) /\ window' = Target(t)
    /\ IF ~surface /\ is_enabled /\ window # Target(t) /\ Target(t) # NoWindow
         THEN surface' \in {TRUE, ~Faults} ELSE UNCHANGED surface
    /\ UNCHANGED <<pool, token, is_enabled, size, outSize, host, held>>

\* Mutant: no SurfaceControl is created for the new window.
WindowDrainedBare(t) ==
    /\ pc[t] = "drainWindow" /\ Drained
    /\ window' = Target(t)
    /\ surface' = FALSE
    /\ Goto(t, AfterSetWindow(t))
    /\ UNCHANGED <<pool, token, is_enabled, size, outSize, host, held>>

\* The old SurfaceControl is released and, when enabled, a new one created.
WindowDrained(t) ==
    /\ pc[t] = "drainWindow" /\ Drained
    /\ window' = Target(t)
    /\ IF is_enabled /\ Target(t) # NoWindow
         THEN surface' \in {TRUE, ~Faults} ELSE surface' = FALSE
    /\ Goto(t, AfterSetWindow(t))
    /\ UNCHANGED <<pool, token, is_enabled, size, outSize, host, held>>

-----------------------------------------------------------------------------
(* The UI thread: GuiHost::setNativeWindow and changeNativeWindow set the  *)
(* window and resize, destroyNativeWindow sets NULL, setOutputScale        *)
(* resizes to the current size.                                            *)

\* The worker holds window_mutex_ while it attaches the first window.
Attaching ==
    ~closing /\ pc["comp"] \in {"set_window", "enable", "setWindow", "drainWindow"}

\* The output exists and window_mutex_ is not held by the worker.
Serving == ~deleted /\ ~Attaching

SetNativeWindow(w, sz) ==
    /\ pc["ui"] = "idle" /\ Serving
    /\ arg' = [window |-> w, size |-> sz]
    /\ Goto("ui", "set_window")
    /\ UNCHANGED <<pool, binding, token, native, mode, closing, held>>

DestroyNativeWindow ==
    /\ pc["ui"] = "idle" /\ Serving
    /\ arg' = [arg EXCEPT !.window = NoWindow]
    /\ Goto("ui", "set_window")
    /\ UNCHANGED <<pool, binding, token, native, mode, closing, held>>

SetOutputScale ==
    /\ pc["ui"] = "idle" /\ Serving /\ arg.size # NoSize
    /\ Goto("ui", "resize")
    /\ UNCHANGED <<pool, binding, token, host, held>>

\* linuxdroid_output_resize: nothing to do, or drain first.
Resize ==
    /\ pc["ui"] = "resize"
    /\ outSize' = arg.size
    /\ Goto("ui", IF size = arg.size /\ is_enabled THEN "idle" ELSE "drainResize")
    /\ UNCHANGED <<pool, token, is_enabled, surface, window, size, host, held>>

\* The pool is freed, whatever its slots are doing, and reallocated.
ResizeDrained ==
    /\ pc["ui"] = "drainResize" /\ Drained
    /\ size' = arg.size
    /\ submitted' = 0
    /\ \/ IsEnabled /\ AllocateBufferPool
       \/ (~IsEnabled \/ Faults) /\ slots' = FreedPool /\ UNCHANGED pools
    /\ Goto("ui", "idle")
    /\ UNCHANGED <<token, is_enabled, surface, window, outSize, host, held>>

-----------------------------------------------------------------------------
(* The worker's start: the window attached before it, set_mode and         *)
(* weston_output_enable.                                                   *)

AttachNativeWindow ==
    /\ pc["comp"] = "attach" /\ pc["ui"] = "idle"
    /\ Goto("comp", IF arg.window = NoWindow THEN "set_mode" ELSE "set_window")
    /\ UNCHANGED <<pool, binding, token, host, held>>

\* The size is read with window_mutex_ held and used after it is released.
ReadOutputMode ==
    /\ pc["comp"] = "set_mode" /\ pc["ui"] = "idle"
    /\ mode' = arg.size
    /\ Goto("comp", "apply_mode")
    /\ UNCHANGED <<pool, binding, token, arg, native, closing, held>>

OutputSetMode ==
    /\ pc["comp"] = "apply_mode"
    /\ outSize' = IF mode = NoSize THEN outSize ELSE mode
    /\ mode' = NoSize
    /\ Goto("comp", "enableOutput")
    /\ UNCHANGED <<pool, token, is_enabled, surface, window, size,
                   arg, native, closing, held>>

\* linuxdroid_output_enable_gles and _pixman: without a window, or when the
\* window is already presented, there is nothing to enable.
OutputEnable ==
    /\ pc["comp"] = "enableOutput"
    /\ IF native = NoWindow \/ is_enabled
         THEN UNCHANGED <<pool, binding>>
         ELSE Enable(native) /\ UNCHANGED <<submitted, outSize>>
    /\ Goto("comp", "idle")
    /\ UNCHANGED <<token, host, held>>

\* An output that cannot be enabled is destroyed.
OutputEnableFails ==
    /\ pc["comp"] = "enableOutput" /\ native # NoWindow
    /\ IF is_enabled THEN Faults /\ UNCHANGED <<pool, binding>>
                     ELSE EnableError(native) /\ UNCHANGED outSize
    /\ closing' = TRUE
    /\ Goto("comp", "destroy")
    /\ UNCHANGED <<token, arg, native, mode, held>>

-----------------------------------------------------------------------------
(* The compositor thread: linuxdroid_output_repaint_gles and _pixman.      *)

\* acquireBuffer takes the first free slot ...
TakeSlot ==
    /\ \E s \in FreeSlots :
         /\ \A r \in FreeSlots : s <= r
         /\ slots' = [slots EXCEPT ![s].state = "ACQUIRED"]
         /\ held' = [slot |-> s, buf |-> slots[s].buf]
    /\ Goto("comp", "acquired")
    /\ UNCHANGED <<binding, token, submitted, pools, host>>

AcquireBuffer == pc["comp"] = "idle" /\ IsEnabled /\ TakeSlot

\* ... and with none waits on cv_.
AcquireWaits ==
    /\ pc["comp"] = "idle" /\ IsEnabled /\ FreeSlots = {}
    /\ Goto("comp", "acquiring")
    /\ UNCHANGED <<pool, binding, token, host, held>>

\* After the wait only is_enabled_ is looked at again.
AcquireWaited == pc["comp"] = "acquiring" /\ is_enabled /\ TakeSlot

\* The wait has timed out, or the output has been disabled: no frame.
AcquireGivesUp ==
    /\ pc["comp"] = "acquiring"
    /\ Goto("comp", "idle")
    /\ UNCHANGED <<pool, binding, token, host, held>>

\* lockBuffer maps the slot's buffer for the Pixman renderer.
LockBuffer ==
    /\ pc["comp"] = "acquired" /\ Renderer = "PIXMAN"
    /\ is_enabled
    /\ slots[held.slot].state = "ACQUIRED" /\ slots[held.slot].buf # 0
    /\ slots' = [slots EXCEPT ![held.slot].state = "LOCKED"]
    /\ held' = [held EXCEPT !.buf = slots[held.slot].buf]
    /\ Goto("comp", "locked")
    /\ UNCHANGED <<binding, token, submitted, pools, host>>

\* lockBuffer fails, or the GLES slot has no renderbuffer: the repaint
\* returns and leaves the slot as it is.
AbandonFrame ==
    /\ pc["comp"] = "acquired"
    /\ \/ Faults
       \/ /\ Renderer = "PIXMAN"
          /\ \/ ~is_enabled
             \/ slots[held.slot].state # "ACQUIRED" \/ slots[held.slot].buf = 0
    /\ Goto("comp", "idle")
    /\ held' = None
    /\ UNCHANGED <<pool, binding, token, host>>

\* unlockBuffer
Unlock ==
    LET s == held.slot IN
    \/ /\ slots[s].state = "LOCKED" /\ slots[s].buf # 0
       /\ slots' = [slots EXCEPT ![s].state = "ACQUIRED"]
    \/ /\ Faults \/ slots[s].state # "LOCKED" \/ slots[s].buf = 0
       /\ UNCHANGED slots

\* The frame is painted; the repaint goes on to submit even when the unlock
\* fails.
UnlockBuffer ==
    /\ pc["comp"] = "locked"
    /\ Unlock
    /\ Goto("comp", "submit")
    /\ UNCHANGED <<binding, token, submitted, pools, host, held>>

\* No pixel format or no renderbuffer: the Pixman repaint unlocks the buffer,
\* returns and leaves the slot ACQUIRED.
AbandonLockedFrame ==
    /\ pc["comp"] = "locked" /\ Faults
    /\ Unlock
    /\ Goto("comp", "idle")
    /\ held' = None
    /\ UNCHANGED <<binding, token, submitted, pools, host>>

AtSubmit == pc["comp"] = IF Renderer = "GLES" THEN "acquired" ELSE "submit"

\* Mutant: the transaction is applied without a release callback.
SubmitWithoutCallback ==
    /\ AtSubmit /\ IsEnabled
    /\ slots[held.slot].state = "ACQUIRED" /\ slots[held.slot].buf # 0
    /\ slots' = [slots EXCEPT ![held.slot].state = "SUBMITTED"]
    /\ submitted' = submitted + 1
    /\ Goto("comp", "idle")
    /\ held' = None
    /\ UNCHANGED <<binding, token, pools, host>>

\* submitBuffer hands the buffer to SurfaceFlinger with a callback, that of
\* setBufferWithRelease or that of setOnComplete.
SubmitBuffer ==
    /\ AtSubmit /\ IsEnabled
    /\ slots[held.slot].state = "ACQUIRED" /\ slots[held.slot].buf # 0
    /\ slots' = [slots EXCEPT ![held.slot].state = "SUBMITTED"]
    /\ submitted' = submitted + 1
    /\ inflight' = inflight \cup {[slot |-> held.slot, buf |-> slots[held.slot].buf]}
    /\ Goto("comp", "idle")
    /\ held' = None
    /\ UNCHANGED <<binding, pools, binder, alive, deleted, host>>

\* Mutant: the slot of a frame that cannot be submitted is kept.
SubmitFailsKeepsSlot ==
    /\ AtSubmit /\ ~IsEnabled
    /\ Goto("comp", "idle")
    /\ held' = None
    /\ UNCHANGED <<pool, binding, token, host>>

\* submitBuffer fails: the slot is given back if no window or no transaction,
\* and left alone if it is not ACQUIRED.
SubmitFails ==
    /\ AtSubmit
    /\ ~IsEnabled \/ Faults \/ slots[held.slot].state # "ACQUIRED"
         \/ slots[held.slot].buf = 0
    /\ slots' = IF slots[held.slot].state = "ACQUIRED"
                  THEN [slots EXCEPT ![held.slot].state = "FREE"] ELSE slots
    /\ Goto("comp", "idle")
    /\ held' = None
    /\ UNCHANGED <<binding, token, submitted, pools, host>>

-----------------------------------------------------------------------------
(* A Binder thread: the callback of a submitted buffer.                    *)

\* PresentationLifetimeToken::handleBufferRelease takes token_mutex; after
\* destroy() it only closes the fence.
HandleBufferRelease(c) ==
    /\ c \in inflight /\ binder = None
    /\ inflight' = inflight \ {c}
    /\ binder' = IF alive THEN c ELSE None
    /\ UNCHANGED <<pool, binding, alive, deleted, pc, host, held>>

\* Mutant: submitted_count_ is decremented without a check.
ReleasedUnderflows ==
    /\ binder # None
    /\ slots' = [slots EXCEPT ![binder.slot].state = "FREE"]
    /\ submitted' = submitted - 1
    /\ binder' = None
    /\ UNCHANGED <<binding, pools, inflight, alive, deleted, pc, host, held>>

\* onBufferReleasedInternal: the slot is FREE, whatever it was.  The release
\* fence is closed and not waited for.
OnBufferReleasedInternal ==
    /\ binder # None
    /\ slots' = [slots EXCEPT ![binder.slot].state = "FREE"]
    /\ submitted' = IF submitted > 0 THEN submitted - 1 ELSE 0
    /\ binder' = None
    /\ UNCHANGED <<binding, pools, inflight, alive, deleted, pc, host, held>>

-----------------------------------------------------------------------------
(* The worker tears the output down without window_mutex_: set_window(NULL)*)
(* and disable() by weston_output_disable, then destroy(), which disables  *)
(* once more.                                                              *)

BeginTeardown ==
    /\ pc["comp"] = "idle"
    /\ closing' = TRUE
    /\ Goto("comp", "set_window")
    /\ UNCHANGED <<pool, binding, token, arg, native, mode, held>>

\* disable(), until it waits for its drain.
Disable ==
    /\ pc["comp"] \in {"disable", "destroy"}
    /\ is_enabled' = FALSE
    /\ Goto("comp", IF pc["comp"] = "disable"
                      THEN IF is_enabled THEN "drainDisable" ELSE "destroy"
                      ELSE IF is_enabled THEN "drainDestroy" ELSE "invalidate")
    /\ UNCHANGED <<pool, token, surface, window, size, outSize, host, held>>

DisableDrained ==
    /\ pc["comp"] \in {"drainDisable", "drainDestroy"} /\ Drained
    /\ surface' = FALSE
    /\ FreeBufferPool
    /\ window' = NoWindow
    /\ Goto("comp", IF pc["comp"] = "drainDisable" THEN "destroy" ELSE "invalidate")
    /\ UNCHANGED <<token, is_enabled, size, outSize, host, held>>

\* Mutant: the token is invalidated without taking token_mutex.
InvalidateTokenUnlocked ==
    /\ pc["comp"] = "invalidate"
    /\ alive' = FALSE
    /\ Goto("comp", "delete")
    /\ UNCHANGED <<pool, binding, inflight, binder, deleted, host, held>>

\* destroy() invalidates the token under token_mutex ...
InvalidateToken ==
    /\ pc["comp"] = "invalidate" /\ binder = None
    /\ alive' = FALSE
    /\ Goto("comp", "delete")
    /\ UNCHANGED <<pool, binding, inflight, binder, deleted, host, held>>

\* ... and only then is the backend deleted.
Delete ==
    /\ pc["comp"] = "delete"
    /\ deleted' = TRUE
    /\ Goto("comp", "gone")
    /\ UNCHANGED <<pool, binding, inflight, binder, alive, host, held>>

-----------------------------------------------------------------------------
Init ==
    /\ slots = FreedPool
    /\ is_enabled = FALSE
    /\ surface = FALSE
    /\ window = NoWindow
    /\ size \in Sizes
    /\ outSize = size
    /\ submitted = 0
    /\ pools = 0
    /\ inflight = {}
    /\ binder = None
    /\ alive = TRUE
    /\ deleted = FALSE
    /\ arg \in [window : Windows, size : Sizes]
                \cup {[window |-> NoWindow, size |-> NoSize]}
    /\ native = NoWindow
    /\ mode = NoSize
    /\ closing = FALSE
    /\ pc = [t \in Threads |-> IF t = "ui" THEN "idle" ELSE "attach"]
    /\ held = None

OutputSetWindowCall(t) ==
    \/ OutputSetWindow(t) \/ EnableAlreadyEnabled(t) \/ EnableSucceeds(t)
    \/ EnableFails(t) \/ SetWindow(t) \/ WindowDrained(t)

UiCall ==
    \/ \E w \in Windows, sz \in Sizes : SetNativeWindow(w, sz)
    \/ DestroyNativeWindow
    \/ SetOutputScale
UiStep == ~deleted /\ (OutputSetWindowCall("ui") \/ Resize \/ ResizeDrained)

Repaint ==
    \/ AcquireBuffer \/ AcquireWaits \/ AcquireWaited \/ AcquireGivesUp
    \/ LockBuffer \/ AbandonFrame \/ UnlockBuffer \/ AbandonLockedFrame
    \/ SubmitBuffer \/ SubmitFails

Teardown ==
    \/ OutputSetWindowCall("comp") \/ Disable \/ DisableDrained
    \/ InvalidateToken \/ Delete

Next ==
    \/ UiCall
    \/ UiStep
    \/ AttachNativeWindow \/ ReadOutputMode \/ OutputSetMode
    \/ OutputEnable \/ OutputEnableFails
    \/ Repaint
    \/ \E c \in inflight : HandleBufferRelease(c)
    \/ OnBufferReleasedInternal
    \/ BeginTeardown
    \/ Teardown

\* The worker thread finishes a teardown it has begun, and a Binder thread
\* inside a callback returns; a callback need never come.
Spec == Init /\ [][Next]_vars /\ WF_vars(Teardown) /\ WF_vars(OnBufferReleasedInternal)

-----------------------------------------------------------------------------
Labels == {"idle", "set_window", "enable", "setWindow", "drainWindow", "resize",
           "drainResize", "attach", "set_mode", "apply_mode", "enableOutput",
           "acquiring", "acquired", "locked", "submit", "disable", "drainDisable",
           "destroy", "drainDestroy", "invalidate", "delete", "gone"}

(* Types; submitted_count_ never goes below zero, although a release that  *)
(* comes after a timed-out drain finds the counter already reset.          *)
TypeOK ==
    /\ slots \in [Slots -> [state : {"FREE", "ACQUIRED", "LOCKED", "SUBMITTED"},
                            buf : 0 .. MaxPools]]
    /\ is_enabled \in BOOLEAN
    /\ surface \in BOOLEAN
    /\ window \in Windows \cup {NoWindow}
    /\ size \in Sizes
    /\ outSize \in Sizes
    /\ submitted \in Nat
    /\ pools \in 0 .. MaxPools
    /\ inflight \subseteq Buffer
    /\ binder \in Buffer
    /\ alive \in BOOLEAN
    /\ deleted \in BOOLEAN
    /\ pc \in [Threads -> Labels]
    /\ arg \in [window : Windows \cup {NoWindow}, size : Sizes \cup {NoSize}]
    /\ native \in Windows \cup {NoWindow}
    /\ mode \in Sizes \cup {NoSize}
    /\ closing \in BOOLEAN
    /\ held \in Buffer

Painting == pc["comp"] \in {"acquired", "locked", "submit"}

(* A release callback never runs into a deleted backend: the lifetime      *)
(* token, checked under token_mutex, is invalidated before the backend is  *)
(* deleted, however late the callback comes.                               *)
NoUseAfterFree == binder # None => alive /\ ~deleted

(* A SUBMITTED slot has a callback to wait for: its own is still to come   *)
(* or is running, so that the pool cannot lose a slot to a release that    *)
(* has already happened.                                                   *)
SubmittedIsInFlight ==
    \A s \in Slots : slots[s].state = "SUBMITTED" =>
        LET c == [slot |-> s, buf |-> slots[s].buf] IN c \in inflight \/ binder = c

(* As long as no drain times out, the compositor paints no buffer whose    *)
(* callback is still to come or is running, whatever the UI thread does to *)
(* the pool meanwhile.  (Whether SurfaceFlinger has stopped reading it by  *)
(* then is not what the callback says.)                                    *)
NoPaintBeforeCallback == Painting => held \notin inflight /\ held # binder

(* As long as no drain times out, submitted_count_ is the number of        *)
(* callbacks still to come or running, so that a drain that ends has       *)
(* drained.                                                                *)
CountIsExact ==
    submitted = Cardinality(inflight) + (IF binder = None THEN 0 ELSE 1)

(* While no NDK call fails, every slot that is taken is taken by someone:  *)
(* the frame being painted, or a submission.                               *)
NoLeakedSlot ==
    \A s \in Slots : slots[s].state \in {"ACQUIRED", "LOCKED"} =>
        Painting /\ held = [slot |-> s, buf |-> slots[s].buf]

(* A teardown always ends with the backend deleted, even if callbacks      *)
(* never come and the UI thread keeps calling.                             *)
TeardownCompletes == closing ~> deleted

(* "FREE --acquire--> ACQUIRED --submit--> SUBMITTED --release--> FREE": a *)
(* release frees the SUBMITTED slot it was issued for and no other.  It    *)
(* names the slot by index only, so this rests on drains that complete:    *)
(* after one that timed out, a late release frees a slot in use.           *)
ReleaseFreesItsOwnSlot ==
    binder # None =>
        slots[binder.slot] = [state |-> "SUBMITTED", buf |-> binder.buf]

(* "Attaches the native window and initializes or resumes presentation":   *)
(* once set_window(w) has returned, no call failed and the output is not   *)
(* being torn down, presentation is enabled on w, however it interleaves   *)
(* with frames, releases and the start of the output.  The one exception:  *)
(* a window was detached before, and enable() took the enabled backend     *)
(* without a surface for one that is set up.                               *)
AttachResumesUnlessDetached ==
    (pc["ui"] = "resize" /\ native # NoWindow /\ ~Faults /\ ~closing) =>
        \/ IsEnabled /\ window = native
        \/ is_enabled /\ ~surface /\ window = NoWindow
=============================================================================
