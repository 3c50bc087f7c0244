# A TLA+ development for LinuxDroid

LinuxDroid is an Android app that runs a Linux distribution without root: a root
file system in the app's private storage, PRoot to enter it, and a libweston
compositor inside the app's own process that shows the guest's Wayland clients on
an Android surface. This directory holds TLA+ models of the parts of it in which
threads, coroutines, callbacks and crashes meet; TLC configurations that check
them on small instances; and TLAPS proofs of the central properties for every
value of the constants. `PROJECT.json` relates every definition to the lines it
models, lists the runs, the mutants, the hazards and the theorems.

## 1. The system and its parts

Paths are below `src/`; `cpp/` stands for `native/bridge/src/main/cpp/`.

| Part | State | Operations | What is hard |
|---|---|---|---|
| Input path: `cpp/input_bridge.cpp`, `processQueuedInput` in `cpp/gui_host.cpp`, `cpp/linuxdroid_backend.c` | bounded event queue, wake fd, the seat's pressed keys, buttons and contacts | push with coalescing and eviction, reset, wake, drain, keys from the desktop's FIFO | UI threads push while the compositor drains; eventfd wake-ups; a full queue |
| Presentation: `cpp/android_presentation.cpp`, renderers in `cpp/linuxdroid_backend.c` | pool of `AHardwareBuffer` slots, count of submitted buffers, SurfaceControl, lifetime token | enable, acquire, lock, submit, release callback, resize, set window, drain, disable, destroy | three threads (UI, compositor, binder); drains that time out; callbacks after teardown |
| GUI host: `cpp/gui_host.cpp` | lifecycle state, mutex, condition variable, worker thread, output | start, stop, window calls, the worker's set-up, loop and teardown | concurrent start and stop, joins, missed terminations |
| Environments: `EnvironmentManager.kt`, `EnvironmentStorage.kt`, `RootfsDeploymentManager.kt`, `LocalRootfsImporter.kt` | database record per environment, `rootfs`, `rootfs-staging`, `rootfs-backup`, a map of mutexes | create, install, reset, clone, delete, promote, reconcile | crashes between renames, failing renames, cancellation, mutexes that are removed from their map |
| Frame timing: `cpp/vsync_bridge.cpp` | running, paused, wake requested, callback pending, an eventfd | start, stop, pause, resume, post a callback, pulse, wake | Choreographer thread against the compositor's repaint loop |
| Gestures: `GuiSurfaceView.kt` | long press, two-finger drag | touch events, focus loss | a gesture that changes its meaning half way |
| Sessions: `DefaultSessionManager.kt` | `sessionMap`, supervision jobs, the launcher's listener | start, stop, supervise, await readiness | no lock; read, wait and write back |
| Windows: `cpp/window_model.cpp`, `desktop_window_tracker.cpp`, `window_manager.cpp`, `desktop_state.cpp` | windows, focus, stacking, pending actions | track, focus, minimise, close, snapshot | compositor thread against UI snapshots |
| Runtime: `ProotRuntimeBackend.kt`, `PtySession.kt`, `RuntimeAssetsManager.kt` | processes, PTYs | start, stop, exec | process exit against stop; waits that block a thread |
| Terminal: `TerminalBuffer.kt`, `terminal/` | grid, scrollback, parser state | append, resize, select | boundaries of the grid and of UTF-8 sequences |
| Guest provisioning, logging, diagnostics, network, packages, host wrappers, UI | mostly files and Android services | | I/O |
| LDDM, LDDE (`vendor/`) | guest programs | | separate programs |

They interact as follows. `GuiSurfaceView` calls JNI functions that push into
`InputBridge` and that call `GuiHost`'s window operations on the UI thread.
`GuiHost`'s worker thread runs the libweston loop: it drains `InputBridge` when
the eventfd fires and paints through `linuxdroid_backend.c` into the slots of
`AndroidPresentation`, whose release callbacks come back on binder threads.
The worker also owns the `VsyncBridge`, whose looper thread tells the repaint loop
when a frame is complete, and works off the window actions that the UI and the
taskbar queue. `DefaultSessionManager` starts and stops the host and the runtime
for an environment whose root file system `EnvironmentStorage` keeps.

### What makes the parts correct

* **Input**: an event in the queue is drained; nothing stays pressed that Android
  has released; coalescing keeps the last position of every contact.
* **Presentation**: no buffer is painted whose callback is still to come; the drain
  counter is the number of such buffers; no slot is lost; no callback uses a deleted backend;
  teardown ends.
* **Host**: RUNNING means a compositor that serves; `start` and `stop` return.
* **Environments**: a root file system is replaced in one step and never lost;
  two calls never work at once on an environment that has a record; READY is true; no record stays in a transient state; calls return.
* **Sessions**: a running process is never forgotten, but for a shell that the
  first call to close it is about to kill; no session stays in a
  transient state; what is up is supervised and has its launcher; an ended session
  stays ended but for the ways the property names.
* **Windows**: the active window is the top one; a table names live surfaces only,
  across a restart of the host too; the screen ends up as the model says; a queued
  action is worked off.
* **Frame timing**: a frame that awaits its completion gets it; the idle
  compositor is not woken; starting and stopping the bridge return.

## 2. Modules

| Module | Models | Extended by |
|---|---|---|
| `InputBridge` | queue, eventfd, drain, seat | `MCInputBridge`, `InputBridgeProofs` |
| `AndroidPresentation` | buffer pool, surface, callbacks, teardown | `MCAndroidPresentation`, `AndroidPresentationProofs` |
| `GuiHost` | lifecycle of the compositor thread | `MCGuiHost`, `GuiHostProofs` |
| `RootfsStore` | abstract specification: what the store of root file systems promises | instantiated by `Environment` |
| `Environment` | manager, installer, promotion, crash, recovery | `MCEnvironment`, `EnvironmentProofs` |
| `SessionManager` | sessions, supervision, the runtime's process table | `MCSessionManager`, `SessionManagerProofs` |
| `VsyncBridge` | frame timing between Choreographer and repaint loop | `MCVsyncBridge`, `VsyncBridgeProofs` |
| `Windows` | window tables, action queue, taskbar, stop and start | `MCWindows`, `WindowsProofs` |
| `Extremes` | nothing of the code: the least and the greatest of some natural numbers, and induction, as lemmas about sets | `InputBridgeProofs`, `WindowsProofs` |

Operators named as mutants (`FullOffByOne`, `DrainedForever`, ...) are wrong
variants of the definition that follows them. They are no part of the
specifications; putting one in the place of its original must break the property
that `PROJECT.json` names, which shows that the property is about the code.

### InputBridge

`eventQueue`, `wakeFd`, `eventfd` are the members of the same name. `seat` is what
weston believes is pressed and where; `held` is what the Android side has
reported. Each `send...Event` is one action because it runs under the queue's
mutex: `Push` coalesces, refuses or evicts, and `WakeCompositorLoop` writes the
eventfd. The compositor is in `poll` or in `drain`: `HandleWakeEvent` reads the
eventfd and starts the drain, `ProcessQueuedInput` pops one event into the seat,
`DrainDone` finds the queue empty. `ProcessFifoKeyInput` is the desktop's own
keyboard, whose FIFO goes past the queue straight to the seat. The host's start and stop are reduced to what
they do to the queue and the wake fd. Two history variables make the properties
precise: `lost` records what an overflow has dropped, `stranded` that events were
queued when the wake fd was installed. `Settled` is the seat once the queue has been
drained; `SeatAfter` dispatches a queue to a seat by a recursive function, which a
proof can follow event by event. Key codes go through the translation
table, in which several codes may share a Linux key or have none.

### AndroidPresentation

A slot is FREE, ACQUIRED, LOCKED or SUBMITTED. A buffer is a number; a release callback
carries the slot index, as in the code, and the model also remembers the buffer
it was for. The UI thread (`SetNativeWindow`, `DestroyNativeWindow`, `SetOutputScale`, `Resize`), the
compositor thread (the output's start, frames, teardown) and the
binder thread (callbacks) take one step per critical section. Both the UI and the
compositor thread call `linuxdroid_output_set_window`, so its steps take the thread
as a parameter. `window_mutex_` excludes the UI thread only while the output starts
(`Attaching`); its calls overlap the frames, and the teardown up to `Delete`. A drain
is a wait that ends when the counter is zero or, where the constants allow it, at the
timeout; the wait for a free slot looks at `is_enabled_` only when it ends
(`AcquireWaited`). NDK calls may fail where the constants allow it.

A callback makes its slot FREE and means no more than that. With
`setBufferWithRelease` it brings a fence, which the code closes without waiting for
it; without that function it is `setOnComplete`'s, which comes when the transaction is
latched, with the buffer still on screen. The model has no notion of what is on
screen, and no property here is about it.

### GuiHost

One process counter per calling thread and one for the worker. A caller holds
`lifecycle_mutex_` for the duration of an action, except where it sleeps on
`init_cv_` or joins; `At` says that a caller has been woken and gets the mutex.
`Join` is external and blocks until the worker has returned. `wl_display_run` is
modelled by its run flag: it sets it on entry, and `wl_display_terminate` clears
it. A set-up that fails frees the output and nulls `output_` before it takes the mutex to
report (`WorkerFails`, `WorkerClearsOutput`, `WorkerReportsFailure`).

### Environment and RootfsStore

A directory tree is absent, broken, or a numbered version. The database column
`db` has the states of `EnvironmentState` that the manager writes; those of a
running session (STARTING, RUNNING, ...) belong to the session manager. A mutex is
a pair of an id and a generation, because `deleteEnvironment` removes the mutex
from the map and the next `getLock` makes another. Neither `getLock` nor
`deleteEnvironment` looks for a record, and a caller's list may be stale, so `GetLock`
takes any id that was ever generated. A call is a sequence of steps
labelled by `pc`; each rename is one step, and a `deleteRecursively` may be
interrupted half way by a crash. `Crash` ends all calls and keeps the disk;
`Reconcile` is `reconcileEnvironments`, and it may crash as well. `Cancel` stops a
coroutine at a suspension point, the wait for a mutex included.

In this version of the repository `DefaultEnvironmentManager` is complete and
tested, but the app's view models do most of the same steps themselves and write
the database directly. The model is of the manager.

`RootfsStore` knows a version per environment and the set of removed ones.
`Environment` maps to it by `Surviving(i)`: the rootfs if it verifies, else the
backup if that does. The refinement says that promotion is atomic as seen from
there, and that only a deletion loses a version, whatever fails or crashes.

### SessionManager

`sessionMap` is the map of that name, `active` the backend's `activeProcesses`,
`sup` the supervision coroutine of each LDDM with the copy of the session it has
read, `host` and `listener` what the session manager does to the GUI host and its
application launcher. Nothing in the Kotlin code is locked, so an action is what a
coroutine does between two places where another can see its writes, and `Write`
stores the call's own copy whole, as the code does. `StartSession`, `StartShell`,
`StopSession` and `StopEnvironment` begin calls of the view models and of
`LinuxSessionService`; a call then walks through its labels (`verify`, `prepare`,
`probeWait`, ..., `await`; or `stopServices`, `stopHost`, `stopRuntime`, `loop`).
`PrepareFails`, `StartThrows`, `LaunchLddm` and `ProbeExits` reach the catch block
(`StartFails`, `TearDown`), `CancelStart` and `StopCancelled` are a view model that
goes away. A PTY shell is closed in steps: the first `close()` sets `isClosed` and sends
SIGTERM (`CloseTerminal`, `StopProcess`), a second one returns at once and its stop
drops the handle, and up to 200 ms later the first one kills (`ShellKilled`). The
launcher's request (`RequestApp`) and the coroutine that serves it (`LaunchApp`) are two
steps, so a stop falls between them. `Readiness` is a round of
`awaitGraphicalSessionReadiness` with its comparisons of ordinals; `AwaitDeadline` its
time limit. The guest's state file and readiness files hold anything whenever they are
read. `ProcessStopped` waits for the exit although a timeout surrounds the wait:
`waitFor()` blocks the thread.

### VsyncBridge

The variables are the bridge's atomics, `timing.state`, the eventfd, and the
program counters of the looper, the worker and the UI thread; `frame` is libweston's
repaint status of the output, from `due` through `submitted` to `awaiting`. The
looper posts a Choreographer callback, polls, and in the callback takes
`wake_requested` and writes the eventfd. An action is one atomic access or one
critical section, so a pause or a resume falls between any two of them. The module
has no constants; the looper that cannot be made (`LooperFails`) and the one that gets no
Choreographer (`LooperUnpaced`) are steps of their own.

### Windows

`surface` is what the compositor has, `model` and `tracker` the two tables,
`queue` and `batch` the pending actions and those swapped out, `wake` the eventfd.
Each table and the queue has its own mutex, and each change of a table is a step of its
own: the taskbar's `activateWindow` is look up, raise, queue, wake, and the compositor's
`SurfaceMapped` or `ShowWindow` goes on with `WindowRaised` and `TrackerFocuses`, with
what is still to do in `task`. What reads a table without changing it, and what touches
the compositor's own surfaces, belongs to the first of these steps. The
UI's actions carry a window id, the taskbar's the surface pointer, as in the code;
a handle is an address and is used again, and a read of a freed one either sees
the null that the removal left or ends the process (`UseFreedSurface`). `StopSession`,
`StopClears`, `Teardown` and `StopReturns` are `GuiHost::stop()` and the worker as they
clear the tables and the queue one after the other, while the loop still dispatches. The taskbar exists only in builds with `LINUXDROID_ENABLE_INTERNAL_SHELL`;
without it `DesktopSession::stop()` returns early and clears nothing, which is
`shell.at = "off"`.

## 3. Runs

| Run | Instance | Shows |
|---|---|---|
| `input_keys` | queue of 2, keys and a button | `NoLostWakeup`, `NoStuckInput`, `PendingInputDrained` |
| `input_pointer` | queue of 2, two contacts, two positions | `NoStuckInput`, `LatestMotionKept` |
| `presentation_prompt` | drains complete, nothing fails | `NoPaintBeforeCallback`, `CountIsExact`, `NoLeakedSlot`, `ReleaseFreesItsOwnSlot`, `AttachResumesUnlessDetached` |
| `presentation_late` | drains time out, calls fail | `NoUseAfterFree`, `SubmittedIsInFlight`, `TeardownCompletes` |
| `host_lifecycle` | three callers, failing set-ups | `RunningIsServed`, `NoForgottenWaiter`, `StartReturnsEventually`, `StopTerminates` |
| `host_join_deadlock` | two callers, two starts | **violated**: `NoJoinDeadlock` |
| `environment_crash` | 2 environments, 2 callers, 2 versions, 2 crashes, failing renames | `ReadyIsVerified`, `InterruptedIsOwned`, `ImplementsStore`, `RestartCompletes` |
| `environment_cancel` | 2 environments, 2 callers, cancellation, deletions from a stale list | `OneOwner`, `CallsReturn` |
| `session_lifecycle` | 1 environment, 2 callers, 3 calls, 2 session ids, 2 process handles, 2 guest reports | `LiveIsTracked`, `TransientIsOwned`, `SupervisedWhileUp`, `LauncherConnected`, `EndedStaysEnded` |
| `session_stop_hangs` | the same with 2 calls | **violated**: `StopReturns` |
| `vsync_pacing` | the whole module; deadlock is checked | `NoLostCompletion`, `IdleIsQuiet`, `FrameCompletes`, `BridgeCallsReturn` |
| `window_actions` | 3 addresses, 3 windows, 2 requests, 1 stop and restart | `ActiveIsTop`, `TablesAreLive`, `ScreenMatchesModel`, `NoLostWake` |

Four runs also check the type invariant of their module (`input_keys`,
`presentation_late`, `host_lifecycle` and `vsync_pacing`); those of `Environment`, `SessionManager` and `Windows` are
proved instead (section 4).

### Bounds

* The queue of two is full after two pushes, so eviction, refusal and coalescing
  with both a last and an earlier element happen; 256 adds nothing but length.
* A pool of two slots has one out while the other is painted, and is
  exhausted by two submissions; two pools (`MaxPools`) let a callback of the first
  meet the second. Two windows and two sizes give a change of each. The run with
  prompt drains has the code's three slots and up to four pools.
* Two callers suffice for the deadlock: one has a stop() on its way back to the mutex
  while the other starts the host anew. Three callers add a second
  stop, or a start, that waits meanwhile.
* Two versions make a replacement, two environments a clone, two callers a delete
  against every other call. Two crashes: one inside a call, one inside the
  reconciliation that follows it. Two dropped mutexes (`MaxGens`): a caller waits for
  the first, one for the second, and a third delete makes another.
* Two session ids and three calls: two starts that do not see each other, then a
  stop of one; or a start, its stop and a restart under another id while the first
  is still supervised; or a start, an application asked for and a stop (a request of
  the launcher counts as a call). Two process handles, used again when nothing refers to them,
  are a probe or an LDDM of each. The two guest reports are one that ends a session
  and one that completes it; the supervisor treats every other line as one of
  these, and in `Readiness` the lines in between only climb towards GUI_READY, as
  the two files do. One environment: nothing but the GUI host is shared between two. The callers are
  interchangeable (`AnyCaller`).
* Three windows make a middle of the stack, three addresses let all be open and a
  later one reuse an address. Two requests are the UI's and the taskbar's, in
  flight together; one stop and restart lets either outlive the host it was made
  for. The UI asks to minimise and to maximise; to activate and to close
  are the taskbar's requests, and restore differs from maximise only in the mode it
  sets.
* `VsyncBridge` is finite (973 states) and is checked whole.

### Fairness

Weak fairness of the compositor's event loop, of the worker thread, of callers
that hold what they need, and of SurfaceFlinger's release callbacks where a drain
waits for them: threads of one process that the kernel schedules. Pushes, calls,
crashes and failures are never fair. The host's worker has strong
fairness for the one step that competes with window calls for `window_mutex_`. In
`Environment` the steps of a call have strong fairness, because kotlinx's `Mutex`
serves its waiters in order, and reconciliation has weak fairness, being a loop on
a dispatcher.

In `SessionManager` a call's own steps are weakly fair; nothing is assumed of
processes, which may run for ever, or of the guest, which may never report. In
`VsyncBridge` the looper's steps, the worker's steps in start, stop and destroy, the
compositor's reaction to the eventfd and the second half of a window call that has
begun are weakly fair, and a posted callback is called, since the display has a
next vsync; windows, pauses and the host's stop are not. `Windows` has safety
properties only.

`StartReturnsEventually` and `StopTerminates` exclude, by name, the two orders in
which the code does not return: a `stop` that overtakes a `start` still waiting
for its worker (`StopRacesStart`), and a `stop` between RUNNING and
`wl_display_run` (`StopBeforeLoop`).

### What the violated properties mean

* `NoJoinDeadlock`: the failure path of `start()` joins its worker under the mutex, on
  the assumption that a state other than RUNNING is the report of a worker that is
  done. In the trace a first start has brought the host up but has not been woken;
  `stop()` sets STOPPING, leaves the mutex and joins the worker; the first start wakes,
  finds STOPPING, writes STOPPED and returns false; its thread calls `start()` again,
  which writes STARTING, spawns a worker and waits. Now `stop()` gets the mutex back,
  writes STOPPED over STARTING and notifies. The second start wakes, takes STOPPED for
  a failure, and joins its own worker, which is still in its set-up and needs the mutex
  to report. The comment at `gui_host.cpp:250`, on unlocking while joining, is about the
  join in `stop()`; the join in `start()` does not follow that rule.

* `StopReturns`: `stopForEnvironment` means to wait two seconds and then to send
  SIGKILL, but `withTimeoutOrNull` cannot interrupt the blocking `waitFor()`. A
  process that ignores SIGTERM, as PRoot itself does, keeps the stop waiting.

### Races without a property

These the models contain, or the code has beside them, and no statement about them
holds that would say more than what happens:

* Input: a mouse button whose release is thrown away by a reset; events queued
  before `setWakeFd`; a transition that arrives at a full queue evicts the oldest
  event, a transition too, although the comment at `input_bridge.cpp:65` promises
  to keep them.
* Presentation: a resize that frees the pool under the painter; a release that
  comes after a drain has timed out frees, by index, whatever is in its slot now;
  after a detach `enable()` returns early because `is_enabled_` is still set, so a
  new window is not presented (`wayland.md:121` says it is). Hence
  `ReleaseFreesItsOwnSlot` is checked with drains that complete, and
  `AttachResumesUnlessDetached` excludes the detach by name. The Pixman repaint
  keeps a slot whose lock or unlock fails. A slot is FREE before SurfaceFlinger has done
  reading it: the release fence is closed unwaited (`android_presentation.cpp:500`), and
  `setOnComplete` (`:462-478`) fires while the buffer is shown, although
  `docs/display/wayland.md:82` has buffers returned "once SurfaceFlinger completes
  composition".
* Host: two threads in `join`; a window call on an output being destroyed.
* Environments: the orphan directory of a clone deleted before its mutex was
  locked; a record left INSTALLING by a cancelled coroutine; two calls at once on an
  environment whose record is gone (a mutex that was removed has waiters, and the
  next `getLock` makes another); the view models' own writes.
* Sessions: two starts of one environment that do not see each other; a stop whose
  list of processes was taken before a start launched LDDM, which leaves a STOPPED
  session with a live desktop; GUI_READY at the deadline although nothing is ready;
  the one stale write of a supervision that had read before the stop
  (`EndedStaysEnded` names it); a failed GUI start that also stops the terminals of
  its environment; one GUI host for all environments; an application
  launched after the stop of its session; a shell still closing whose handle a second
  stop has dropped (`LiveIsTracked` names it).
* Windows: the taskbar's action on a surface freed since; a minimised window that
  stays active in the tracker, or is active again because the window above it went.
* Frame timing: a bridge whose looper could not be made, or that got no Choreographer, is
  kept and never wakes anybody.
* Gestures: a long press leaves the touch it started without an up; ACTION_CANCEL
  does not release the right button.

## 4. Proofs

Every safety property of every run is proved, for all values of the constants that
the named assumptions allow. TLC checked each inductive invariant below on the
instance of its run (with two addresses for those of `Windows`) before it was
proved. A proof module has the invariant at its head, then what the operators of
the model return, then one step per action, then the theorems.

Several theorems carry the condition under which the run checks the same property,
`~DrainTimeouts`, `~Faults` or `~Cancels`. These are constants of the modules;
without the conditions the statements are false for the reasons listed under "Races
without a property".

### `InputBridgeProofs`

| Theorem | States |
|---|---|
| `TypeCorrect` | `TypeOK`: the queue keeps its type and its bound |
| `WakeupSafety` | `NoLostWakeup` |
| `StuckInputSafety` | `NoStuckInput` |
| `MotionSafety` | `LatestMotionKept` |

`NoLostWakeup` is inductive relative to types. The other two are not: they speak of
a host that runs, but events queue up while it is stopped and the next host starts
with an empty seat. `FaithInv` says the same of the stopped host, and that its seat
is empty. A push that evicts, merges or refuses changes what the queue does to
*any* seat; so the lemmas compare two seats that get the same events. `Behind(s, t, X)`
says that `s` has nothing pressed that `t` has not and differs from it, in
positions, only in `X`; `DispatchBehind` that one event keeps this, `SeatAfterBehind`
that a queue does. Then `OldestFirst` (an eviction), `NewestLast` (an append) and
the merge of two motions are each a step from `Behind` to `Faithful`, the relation
between the seat and what Android holds. `LatestMotionKept` needs
`PointerAssumption`: `lost` holds the dropped contacts beside the names "pointer" and
"transition", so a contact of such a name would be excepted by mistake. Contacts are
numbers in the code.

### `AndroidPresentationProofs`

| Theorem | States | Under |
|---|---|---|
| `TypeCorrect` | `TypeOK` | |
| `CallbackSafety` | `NoUseAfterFree` | |
| `NoForgottenSlot` | `SubmittedIsInFlight` | |
| `ExactCount` | `CountIsExact` | `~DrainTimeouts` |
| `PaintingSafety` | `NoPaintBeforeCallback` | `~DrainTimeouts` |
| `ReleaseSafety` | `ReleaseFreesItsOwnSlot` | `~DrainTimeouts` |
| `NoLostSlot` | `NoLeakedSlot` | `~Faults` |
| `AttachSafety` | `AttachResumesUnlessDetached` | (`~Faults` is in the property) |

`SlotInv` holds whatever drains and calls do: the UI thread is kept out while the output
starts, and only then; the token is invalidated before the backend is deleted; a disabled
backend has no pool, and one that a window call enables again during the teardown is
never submitted from; a SUBMITTED slot has a buffer and a callback to come. `ExactInv` adds,
for drains that complete, that every callback belongs to a SUBMITTED slot of the
present pool, one each, and that their number is the counter: neither `CountIsExact`
nor `NoPaintBeforeCallback` is inductive alone, both need to know that no callback of
an earlier pool is around; and both that nothing is in flight before the first frame or
once the teardown has detached the window, where a late call may still enable. `FrameInv` ties the painter's place to its slot.
`AttachInv` says what a thread inside `set_window(w)` has decided on and that it stays
true while the other thread starts the output, and that between two calls of the UI
thread the last window is attached, until the teardown begins.

### `GuiHostProofs`

`TypeCorrect` (`TypeOK`), `RunningSafety` (`RunningIsServed`), `WaiterSafety`
(`NoForgottenWaiter`), for any set of callers, from `HostInv`: at most one caller holds
the lifecycle, the state it holds it in, the output lives as long as the worker is
between set-up and teardown, the loop runs while the state is RUNNING, and STOPPING
has a stopper.

### `VsyncBridgeProofs`

`TypeCorrect` (`TypeOK`), `CompletionSafety` (`NoLostCompletion`), `QuietWhenIdle`
(`IdleIsQuiet`). The two properties are two halves of one account, in `WakeInv`: a
wake is in one place only, requested, taken by the looper's pulse, or in the eventfd
(`OneWake`), and a bridge that is made finds no frame of the one before
(`FreshBridge`).

### `EnvironmentProofs`

| Theorem | States | From |
|---|---|---|
| `TypeCorrect` | `TypeOK` | |
| `MutualExclusion` | `OneOwner` | `LockInv` |
| `ReadySafety` | `ReadyIsVerified` | `ReadyInv` |
| `OwnershipSafety` | `InterruptedIsOwned` | `OwnedInv` |
| `StoreRefinement` | `~Cancels => (Spec => ImplementsStore)` | `StoreInv` |

The invariants build on each other. `LockInv` is why the mutexes that `deleteEnvironment`
removes from their map do no harm to an environment with a record: the map drops a mutex
only after the record, and ids are never used again, so as long as there is a record
every call has fetched the first mutex and who works holds it. Later generations are
handed out, to deletions from a stale list, and all that is claimed of those who hold
them is that their environment has no record. `ReadyInv` adds the record's state that belongs to an owner's
place; `OwnedInv` what reconciliation has passed already. `StoreInv` describes the
three directories: the trees of a record that is not on its way out are absent or
complete except a backup that is being deleted, and where promotion is. The
refinement is then proved action by action, each one a step of `RootfsStore` or a
stutter of `Surviving`.

With cancellation the refinement is false, which is why `environment_crash` checks it
and `environment_cancel` does not: a delete cancelled half way leaves the record DELETING,
and a clone whose new environment it is, still waiting for the mutex, writes CLONING
over that, so that an id that was removed is in use again (TLC finds this in seven
steps).

### `SessionManagerProofs`

| Theorem | States | From |
|---|---|---|
| `TypeCorrect` | `TypeOK` | `TypeInv` |
| `TrackingSafety` | `LiveIsTracked` | `TrackInv` |
| `LauncherSafety` | `LauncherConnected` | itself, with types |
| `TransientSafety` | `TransientIsOwned` | `SessionInv` |
| `SupervisionSafety` | `SupervisedWhileUp` | `SessionInv` |
| `EndedSafety` | `EndedStaysEnded` (an action property) | `TypeInv`, step by step |

`TypeOK` needs `TypeInv`: a call has at each place what the place reads (a session, a
process), and sessions are never taken out of the map. `SessionInv` says that a
transient session has a call that *will still write it* (`Writing`, narrower than what
`TransientIsOwned` says: past the first write and before the last), that a GUI session
that is up is supervised or so attended, and that a start waits for an LDDM that
nobody else waits for or supervises. `TrackInv` follows a shell through its
`close()`: one that is closed and runs has its closer, and only such a one is outside
the table, or in the hands of a stop that takes it out. `SessionAssumption` says that "no session" and
"no process" are no record of either kind, being null in the code.

### `WindowsProofs`

| Theorem | States | From |
|---|---|---|
| `TypeCorrect` | `TypeOK` | `TableInv` |
| `StackSafety` | `ActiveIsTop` | `TableInv` |
| `LiveSafety` | `TablesAreLive` | `TableInv` |
| `WakeSafety` | `NoLostWake` | `WakeInv` |
| `ScreenSafety` | `ScreenMatchesModel` | `ScreenInv` |

`TableInv`: heights are different and below the next one, so that the topmost of the
windows that are left is above the others when it becomes active, and every entry of a
table is a live surface that carries its id, and so is a window on its way into the
tracker (`TaskInOrder`). `WakeInv` adds what the host's state says of
the model, the loop and the shell, and that the queue holds pointers only from a shell
that has not been joined. `ScreenInv` generalises `ScreenMatchesModel` to the moments in
between: a view that does not agree with the model has an action of the taskbar still
to come (`Pending`), in the queue, in the batch or in the taskbar's hands; the pointer
the taskbar works with is its window's as long as the model has the window; a window about to
be raised is shown already (`RaiseInOrder`); and no two live surfaces share an id.

### Induction

The library's induction theorems take a predicate as a parameter. `Extremes` states what
is needed about sets instead: a non-empty set of natural numbers has a least member
(`Least`, from the well-foundedness of the order), a bounded one has a greatest
(`Greatest`), and a set that holds 0 and the successor of each of its members is `Nat`
(`Induction`). An induction is then a set of the numbers for which the statement holds.

### Only model-checked

What is temporal and rests on fairness: `PendingInputDrained`, `TeardownCompletes`,
`StartReturnsEventually`, `StopTerminates`, `RestartCompletes`, `CallsReturn`,
`FrameCompletes`, `BridgeCallsReturn`; the prover does not treat liveness under fairness
or ENABLED. The two violated properties have counterexamples and nothing to prove.

## 5. Not modelled

* Pixels, EGL and AHardwareBuffer formats; weston's internals; coordinate scaling;
  timestamps and refresh rates; titles, geometry and workspaces of windows, and the
  change listeners, which only copy the tables to the UI; `WindowManager`'s own
  maximise and restore, which nothing calls.
* `GuiSurfaceView`'s gestures: one thread and a timer in front of `InputBridge`,
  whose model accepts every sequence of calls they make.
* The terminal: sequential code over a character grid under one lock, and a parser
  that is mostly a table.
* Failures of `deleteRecursively`; the content of the archives and the guest
  scripts, which are one step that may fail; the command lines built for PRoot.
* Logging, network, packages and other wrappers of Android services; Compose
  screens; the vendored guest programs. The bulk of the repository's C code is
  generated protocol headers and the installed headers of third-party libraries
  (`native/weston/prefix/include`, `cpp/protocol`), which hold no logic of this
  program.

## 6. Plan

1. More action properties, each with a proof: a queued transition is evicted only by a
   full queue; a slot changes from SUBMITTED to FREE only by a release or with its
   pool; a session's state never goes back from a readiness it has passed except by
   recovery.
2. A specification of the window list as the taskbar sees it (a stack and an active
   window) that `Windows` refines, from `TableInv`.
3. `RootfsStore` with cancellation: an abstract step that brings a half-deleted id back,
   so that the refinement holds without the condition.
4. The hazards without a property: the view models that write environment states beside
   the manager, and the long press that leaves a touch down.
