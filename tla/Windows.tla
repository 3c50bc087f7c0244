------------------------------- MODULE Windows -------------------------------
(***************************************************************************)
(* The windows of the desktop: the compositor's surfaces, the WindowModel  *)
(* the taskbar and the window switcher read, the DesktopWindowTracker      *)
(* beside it, and the queue of window actions between the threads.         *)
(*                                                                         *)
(* Four threads meet here.  The compositor adds, maps and removes surfaces *)
(* and works the queue off; the Android UI queues actions by window id     *)
(* (nativePerformWindowAction); the internal shell's taskbar changes the   *)
(* WindowModel itself and then queues the action by surface pointer        *)
(* (WindowManager); the caller of GuiHost::stop() and start() clears the   *)
(* tables and the queue.  Each table and the queue has a mutex of its own, *)
(* and nothing spans two of them: what the compositor does to a window     *)
(* takes a step for each change of a table, with its lookups and its work  *)
(* on its own surfaces, which nobody else sees, in the first.  Titles,     *)
(* geometry, workspaces and the shell's own three surfaces, which are in   *)
(* no table, are left out.                                                 *)
(***************************************************************************)
EXTENDS Integers, FiniteSets, Sequences

CONSTANTS
    Handles,     \* addresses of weston_desktop_surfaces; a freed one is reused
    NoHandle,    \* nullptr
    UiActions,   \* the actions the UI asks for
    MaxId,       \* bound: windows ever registered
    MaxRequests, \* bound: actions the UI and the taskbar ask for
    MaxStops     \* bound: calls of stop()

Actions == {"activate", "minimize", "maximize", "restore", "close"}

ASSUME WindowsAssumption ==
    /\ NoHandle \notin Handles
    /\ UiActions \subseteq Actions
    /\ MaxId \in Nat /\ MaxRequests \in Nat /\ MaxStops \in Nat

VARIABLES
    host,     \* GuiHost: its state_, "DOWN" once the worker has torn down
    surface,  \* the live surfaces: the window id, is it mapped, is its view shown
    model,    \* WindowModel::windows_ by id
    nextId,   \* next_id_
    nextZ,    \* next_z_
    tracker,  \* DesktopWindowTracker::windows_ by id
    queue,    \* pending_actions_
    wakeFd,   \* wake_fd_ >= 0
    wake,     \* the eventfd is readable
    loop,     \* the compositor: in wl_display_run or inside handleWakeEvent
    batch,    \* the actions it has swapped out and not yet done
    task,     \* what it has still to do in a table about the window at hand
    ui,       \* the UI thread: "idle", or it has queued and must write wake_fd_
    shell,    \* the taskbar's click handler; "off" without an internal shell
    requests, \* actions asked for so far
    stops     \* calls of stop() so far

tables == <<model, nextId, nextZ, tracker>>
queued == <<queue, wakeFd, wake>>
compositor == <<surface, loop, batch, task>>
counters == <<requests, stops>>
vars == <<host, compositor, tables, queued, ui, shell, counters>>

Ids == 1..MaxId
NoId == 0
Modes == {"NORMAL", "MAXIMIZED", "MINIMIZED"}
Gone == [id |-> NoId, mapped |-> FALSE, shown |-> FALSE]
NoTable == [i \in {} |-> {}]
AtRest == [at |-> "rest", id |-> NoId, handle |-> NoHandle]
ShellIdle == [at |-> "idle", id |-> NoId, op |-> "close", handle |-> NoHandle]

IsLive(h) == surface[h].id # NoId

-----------------------------------------------------------------------------
(* WindowModel and DesktopWindowTracker, under their mutexes.              *)

Has(t, i) == i \in DOMAIN t
Without(t, i) == [j \in DOMAIN t \ {i} |-> t[j]]
Topmost(m) == CHOOSE i \in DOMAIN m : \A j \in DOMAIN m : m[j].z <= m[i].z

\* Everything is deactivated and the new window comes on top.
RegisterWindow(m, i, h) ==
    [j \in DOMAIN m \cup {i} |->
        IF j = i THEN [active |-> TRUE, mode |-> "NORMAL", z |-> nextZ, handle |-> h]
                 ELSE [m[j] EXCEPT !.active = FALSE]]

\* Mutant: the window registered last is activated, not the topmost one.
UnregisterWindowLast(m, i) ==
    LET rest == Without(m, i)
        last == CHOOSE k \in DOMAIN rest : \A j \in DOMAIN rest : j <= k
    IN  IF Has(m, i) /\ m[i].active /\ rest # NoTable
        THEN [rest EXCEPT ![last].active = TRUE]
        ELSE rest

\* The window on top of the others becomes active when an active one goes,
\* minimized or not.
UnregisterWindow(m, i) ==
    LET rest == Without(m, i) IN
    IF Has(m, i) /\ m[i].active /\ rest # NoTable
    THEN [rest EXCEPT ![Topmost(rest)].active = TRUE]
    ELSE rest

\* setWindowActive(i, true), which is raiseToTop too.  An id that is not in
\* the table deactivates every window all the same.
Raised(m, i) ==
    [j \in DOMAIN m |->
        IF j = i THEN [m[j] EXCEPT !.active = TRUE, !.z = nextZ,
                                   !.mode = IF @ = "MINIMIZED" THEN "NORMAL" ELSE @]
                 ELSE [m[j] EXCEPT !.active = FALSE]]

RaiseModel(m, i) ==
    /\ model' = Raised(m, i)
    /\ nextZ' = IF Has(m, i) THEN nextZ + 1 ELSE nextZ

Deactivated(t, i) == IF Has(t, i) THEN [t EXCEPT ![i].active = FALSE] ELSE t
WithMode(m, i, mode) == IF Has(m, i) THEN [m EXCEPT ![i].mode = mode] ELSE m

\* The tracker's own setWindowActive(i, true).
Focused(t, i) == [j \in DOMAIN t |-> [t[j] EXCEPT !.active = (j = i)]]

TrackerRegister(t, i, h) ==
    [j \in DOMAIN t \cup {i} |->
        IF j = i THEN [active |-> TRUE, handle |-> h] ELSE [t[j] EXCEPT !.active = FALSE]]

\* When no window is left active, the last of the vector becomes so: ids
\* grow, and the vector keeps the order of registration.
TrackerUnregister(t, i) ==
    LET rest == Without(t, i) IN
    IF Has(t, i) /\ rest # NoTable /\ (\A j \in DOMAIN rest : ~rest[j].active)
    THEN [rest EXCEPT ![CHOOSE k \in DOMAIN rest : \A j \in DOMAIN rest : j <= k].active = TRUE]
    ELSE rest

\* getWindowByHandle.
IdOf(h) == IF \E i \in DOMAIN model : model[i].handle = h
           THEN CHOOSE i \in DOMAIN model : model[i].handle = h
           ELSE NoId

-----------------------------------------------------------------------------
(* The queue.                                                              *)

Push(id, h, op) == queue' = Append(queue, [id |-> id, handle |-> h, op |-> op])

\* Mutant: the compositor is woken only for the first action of a queue.
WriteWakeIfFirst == wake' = (wake \/ (wakeFd /\ Len(queue) = 1))

\* The write to wake_fd_, which is skipped while there is none.
WriteWake == wake' = (wake \/ wakeFd)

-----------------------------------------------------------------------------
(* The compositor thread, in wl_display_run.                               *)

Resting == task = AtRest
Dispatching == host \in {"RUNNING", "STOPPING"} /\ loop = "run" /\ Resting

Then(at, i, h) == task' = [at |-> at, id |-> i, handle |-> h]
Continues(at) == task' = [task EXCEPT !.at = at]

\* A client makes a toplevel; its surface may reuse the address of an old one.
SurfaceAdded(h) ==
    /\ Dispatching /\ ~IsLive(h) /\ nextId <= MaxId
    /\ surface' = [surface EXCEPT ![h] = [Gone EXCEPT !.id = nextId]]
    /\ model' = RegisterWindow(model, nextId, h)
    /\ nextId' = nextId + 1
    /\ nextZ' = nextZ + 1
    /\ Then("register", nextId, h)
    /\ UNCHANGED <<host, loop, batch, tracker, queued, ui, shell, counters>>

\* ... and the tracker has it too.
TrackerRegisters ==
    /\ task.at = "register"
    /\ tracker' = TrackerRegister(tracker, task.id, task.handle)
    /\ task' = AtRest
    /\ UNCHANGED <<host, surface, loop, batch, model, nextId, nextZ, queued, ui, shell, counters>>

SurfaceRemoved(h) ==
    /\ Dispatching /\ IsLive(h)
    /\ model' = UnregisterWindow(model, surface[h].id)
    /\ Then("unregister", surface[h].id, h)
    /\ UNCHANGED <<host, surface, loop, batch, nextId, nextZ, tracker, queued, ui, shell, counters>>

\* ... then the tracker's entry goes, and the view with its context.
TrackerUnregisters ==
    /\ task.at = "unregister"
    /\ tracker' = TrackerUnregister(tracker, task.id)
    /\ surface' = [surface EXCEPT ![task.handle] = Gone]
    /\ task' = AtRest
    /\ UNCHANGED <<host, loop, batch, model, nextId, nextZ, queued, ui, shell, counters>>

\* The first commit maps the window, shows it and makes it the active one.
SurfaceMapped(h) ==
    /\ Dispatching /\ IsLive(h) /\ ~surface[h].mapped
    /\ surface' = [surface EXCEPT ![h].mapped = TRUE, ![h].shown = TRUE]
    /\ RaiseModel(model, surface[h].id)
    /\ Then("focus", surface[h].id, h)
    /\ UNCHANGED <<host, loop, batch, nextId, tracker, queued, ui, shell, counters>>

\* handleWakeEvent empties the eventfd before it looks at the queue.
DrainWake ==
    /\ Dispatching /\ wake
    /\ wake' = FALSE
    /\ loop' = "drained"
    /\ UNCHANGED <<host, surface, batch, task, tables, queue, wakeFd, ui, shell, counters>>

SwapQueue ==
    /\ loop = "drained"
    /\ batch' = queue
    /\ queue' = <<>>
    /\ loop' = "batch"
    /\ UNCHANGED <<host, surface, task, tables, wakeFd, wake, ui, shell, counters>>

BatchDone ==
    /\ loop = "batch" /\ batch = <<>> /\ Resting
    /\ loop' = "run"
    /\ UNCHANGED <<host, surface, batch, task, tables, queued, ui, shell, counters>>

\* The surface an action is about: the pointer it carries, or whatever the
\* tables have under its id.
Target(a) ==
    CASE a.handle # NoHandle -> a.handle
      [] a.handle = NoHandle /\ Has(model, a.id) -> model[a.id].handle
      [] a.handle = NoHandle /\ ~Has(model, a.id) /\ Has(tracker, a.id) -> tracker[a.id].handle
      [] OTHER -> NoHandle

WindowId(a) == IF a.handle = NoHandle THEN a.id ELSE IdOf(a.handle)

InAction == loop = "batch" /\ batch # <<>> /\ Resting
NextAction == batch' = Tail(batch)

\* activate, maximize and restore show the view; the last two set the mode ...
ModeOf(op) == IF op = "maximize" THEN "MAXIMIZED" ELSE "NORMAL"

ShowWindow(a) ==
    LET h == Target(a) i == WindowId(a) IN
    /\ h # NoHandle /\ IsLive(h)
    /\ surface' = [surface EXCEPT ![h].shown = TRUE]
    /\ \/ /\ a.op = "activate"
          /\ RaiseModel(model, i)
          /\ Then("focus", i, h)
       \/ /\ a.op \in {"maximize", "restore"}
          /\ model' = WithMode(model, i, ModeOf(a.op))
          /\ Then("raise", i, h)
          /\ UNCHANGED nextZ
    /\ NextAction
    /\ UNCHANGED <<host, loop, nextId, tracker, queued, ui, shell, counters>>

\* ... before the window is made the active one, of the model ...
WindowRaised ==
    /\ task.at = "raise"
    /\ RaiseModel(model, task.id)
    /\ Continues("focus")
    /\ UNCHANGED <<host, surface, loop, batch, nextId, tracker, queued, ui, shell, counters>>

\* ... and of the tracker.
TrackerFocuses ==
    /\ task.at = "focus"
    /\ tracker' = Focused(tracker, task.id)
    /\ task' = AtRest
    /\ UNCHANGED <<host, surface, loop, batch, model, nextId, nextZ, queued, ui, shell, counters>>

HideWindow(a) ==
    LET h == Target(a) i == WindowId(a) IN
    /\ a.op = "minimize"
    /\ h # NoHandle /\ IsLive(h)
    /\ surface' = [surface EXCEPT ![h].shown = FALSE]
    /\ model' = WithMode(model, i, "MINIMIZED")
    /\ Then("deactivate", i, h)
    /\ NextAction
    /\ UNCHANGED <<host, loop, nextId, nextZ, tracker, queued, ui, shell, counters>>

WindowDeactivated ==
    /\ task.at = "deactivate"
    /\ model' = Deactivated(model, task.id)
    /\ Continues("unfocus")
    /\ UNCHANGED <<host, surface, loop, batch, nextId, nextZ, tracker, queued, ui, shell, counters>>

TrackerUnfocuses ==
    /\ task.at = "unfocus"
    /\ tracker' = Deactivated(tracker, task.id)
    /\ task' = AtRest
    /\ UNCHANGED <<host, surface, loop, batch, model, nextId, nextZ, queued, ui, shell, counters>>

\* A close only asks the client; it removes its surface when it likes.  An
\* action whose window nobody knows any more is dropped.
DropAction(a) ==
    LET h == Target(a) IN
    /\ h # NoHandle => IsLive(h) /\ a.op = "close"
    /\ NextAction
    /\ UNCHANGED <<host, surface, loop, task, tables, queued, ui, shell, counters>>

\* An action that carries the pointer of a surface freed since: its user
\* data is read from freed memory, as the null the removal left there, or as
\* garbage, which ends the process.
UseFreedSurface(a) ==
    LET h == Target(a) IN
    /\ h # NoHandle /\ ~IsLive(h)
    /\ \/ NextAction /\ UNCHANGED <<host, loop>>
       \/ host' = "crashed" /\ loop' = "crashed" /\ UNCHANGED batch
    /\ UNCHANGED <<surface, task, tables, queued, ui, shell, counters>>

ProcessAction(a) == ShowWindow(a) \/ HideWindow(a) \/ DropAction(a) \/ UseFreedSurface(a)

-----------------------------------------------------------------------------
(* The Android UI: an action by id, on a list it may have read long ago.   *)

UiRequest(i, op) ==
    /\ ui = "idle" /\ requests < MaxRequests /\ host # "crashed"
    /\ i < nextId
    /\ Push(i, NoHandle, op)
    /\ ui' = "pushed"
    /\ requests' = requests + 1
    /\ UNCHANGED <<host, compositor, tables, wakeFd, wake, shell, stops>>

UiWake ==
    /\ ui = "pushed" /\ host # "crashed"
    /\ WriteWake
    /\ ui' = "idle"
    /\ UNCHANGED <<host, compositor, tables, queue, wakeFd, shell, counters>>

-----------------------------------------------------------------------------
(* The internal shell's taskbar: WindowManager, one step per lock.         *)

\* handlePointerClick and toggleMinimize: what to do is decided here.
ShellClick(i, close) ==
    /\ shell.at = "idle" /\ requests < MaxRequests /\ host \in {"RUNNING", "STOPPING"}
    /\ Has(model, i)
    /\ shell' = [ShellIdle EXCEPT
           !.at = "called", !.id = i,
           !.op = IF close THEN "close" ELSE IF model[i].active THEN "minimize" ELSE "activate"]
    /\ requests' = requests + 1
    /\ UNCHANGED <<host, compositor, tables, queued, ui, stops>>

\* activateWindow, minimizeWindow and closeWindow copy the window first.
ShellLooksUp ==
    /\ shell.at = "called" /\ host # "crashed"
    /\ shell' = IF Has(model, shell.id)
                THEN [shell EXCEPT !.at = shell.op, !.handle = model[shell.id].handle]
                ELSE ShellIdle
    /\ UNCHANGED <<host, compositor, tables, queued, ui, counters>>

ShellRaises ==
    /\ shell.at = "activate" /\ host # "crashed"
    /\ RaiseModel(model, shell.id)
    /\ shell' = [shell EXCEPT !.at = "close"]
    /\ UNCHANGED <<host, compositor, nextId, tracker, queued, ui, counters>>

ShellMinimizes ==
    /\ shell.at = "minimize" /\ host # "crashed"
    /\ model' = WithMode(model, shell.id, "MINIMIZED")
    /\ shell' = [shell EXCEPT !.at = "deactivate"]
    /\ UNCHANGED <<host, compositor, nextId, nextZ, tracker, queued, ui, counters>>

ShellDeactivates ==
    /\ shell.at = "deactivate" /\ host # "crashed"
    /\ model' = Deactivated(model, shell.id)
    /\ shell' = [shell EXCEPT !.at = "close"]
    /\ UNCHANGED <<host, compositor, nextId, nextZ, tracker, queued, ui, counters>>

\* Mutant: a minimized window is not taken off the screen.
ShellDispatchesShown ==
    /\ shell.at = "close" /\ host # "crashed"
    /\ IF shell.op = "minimize" THEN UNCHANGED queue
       ELSE Push(NoId, shell.handle, shell.op)
    /\ shell' = [shell EXCEPT !.at = "pushed"]
    /\ UNCHANGED <<host, compositor, tables, wakeFd, wake, ui, counters>>

\* The dispatcher, with the pointer copied before.
ShellDispatches ==
    /\ shell.at = "close" /\ host # "crashed"
    /\ Push(NoId, shell.handle, shell.op)
    /\ shell' = [shell EXCEPT !.at = "pushed"]
    /\ UNCHANGED <<host, compositor, tables, wakeFd, wake, ui, counters>>

ShellWakes ==
    /\ shell.at = "pushed" /\ host # "crashed"
    /\ WriteWake
    /\ shell' = ShellIdle
    /\ UNCHANGED <<host, compositor, tables, queue, wakeFd, ui, counters>>

-----------------------------------------------------------------------------
(* GuiHost::stop() and start(), and the worker's teardown.                 *)

\* DesktopSession::stop() joins the shell's thread, and clears the model, if
\* there is an internal shell.
StopSession ==
    /\ host = "RUNNING" /\ stops < MaxStops
    /\ shell.at \in {"idle", "off"}
    /\ host' = "STOPPING"
    /\ shell' = [ShellIdle EXCEPT !.at = "joined"]
    /\ model' = IF shell.at = "off" THEN model ELSE NoTable
    /\ stops' = stops + 1
    /\ UNCHANGED <<compositor, nextId, nextZ, tracker, queued, ui, requests>>

\* The tracker and the queue are cleared; the loop goes on until it sees
\* that it was terminated.
StopClears ==
    /\ host = "STOPPING" /\ shell.at = "joined"
    /\ tracker' = NoTable
    /\ queue' = <<>>
    /\ wake' = TRUE
    /\ shell' = [ShellIdle EXCEPT !.at = "terminated"]
    /\ UNCHANGED <<host, compositor, model, nextId, nextZ, wakeFd, ui, counters>>

\* Mutant: the worker relies on what stop() has cleared.
TeardownTrusts ==
    /\ Dispatching /\ shell.at = "terminated"
    /\ host' = "DOWN"
    /\ surface' = [h \in Handles |-> Gone]
    /\ UNCHANGED <<loop, batch, task, tables, queued, ui, shell, counters>>

\* wl_display_run returns; whatever was registered after stop() cleared the
\* tables goes now, before the surfaces themselves.
Teardown ==
    /\ Dispatching /\ shell.at = "terminated"
    /\ host' = "DOWN"
    /\ model' = NoTable
    /\ tracker' = NoTable
    /\ surface' = [h \in Handles |-> Gone]
    /\ UNCHANGED <<loop, batch, task, nextId, nextZ, queued, ui, shell, counters>>

StopReturns ==
    /\ host = "DOWN"
    /\ host' = "STOPPED"
    /\ wakeFd' = FALSE
    /\ wake' = FALSE
    /\ UNCHANGED <<compositor, tables, queue, ui, shell, counters>>

StartClears ==
    /\ host = "STOPPED"
    /\ host' = "STARTING"
    /\ queue' = <<>>
    /\ UNCHANGED <<compositor, tables, wakeFd, wake, ui, shell, counters>>

\* The eventfd is made, and the worker runs the display; it starts the shell if
\* LINUXDROID_ENABLE_INTERNAL_SHELL asks for it.
StartRuns ==
    /\ host = "STARTING"
    /\ host' = "RUNNING"
    /\ wakeFd' = TRUE
    /\ \E at \in {"idle", "off"} : shell' = [ShellIdle EXCEPT !.at = at]
    /\ UNCHANGED <<compositor, tables, queue, wake, ui, counters>>

-----------------------------------------------------------------------------
Init ==
    /\ host = "STOPPED"
    /\ surface = [h \in Handles |-> Gone]
    /\ model = NoTable /\ tracker = NoTable
    /\ nextId = 1 /\ nextZ = 1
    /\ queue = <<>> /\ wakeFd = FALSE /\ wake = FALSE
    /\ loop = "run" /\ batch = <<>> /\ task = AtRest
    /\ ui = "idle"
    /\ shell = [ShellIdle EXCEPT !.at = "terminated"]
    /\ requests = 0 /\ stops = 0

Process == InAction /\ ProcessAction(Head(batch))

\* The next change of a table that the compositor owes to the window at hand.
Task ==
    \/ TrackerRegisters \/ TrackerUnregisters
    \/ WindowRaised \/ TrackerFocuses \/ WindowDeactivated \/ TrackerUnfocuses

Next ==
    \/ \E h \in Handles : SurfaceAdded(h) \/ SurfaceRemoved(h) \/ SurfaceMapped(h)
    \/ DrainWake \/ SwapQueue \/ BatchDone \/ Process \/ Task
    \/ \E i \in Ids, op \in UiActions : UiRequest(i, op)
    \/ UiWake
    \/ \E i \in Ids, close \in BOOLEAN : ShellClick(i, close)
    \/ ShellLooksUp \/ ShellRaises \/ ShellMinimizes \/ ShellDeactivates
    \/ ShellDispatches \/ ShellWakes
    \/ StopSession \/ StopClears \/ Teardown \/ StopReturns
    \/ StartClears \/ StartRuns

Spec == Init /\ [][Next]_vars

-----------------------------------------------------------------------------
(* What must hold.                                                         *)

\* Every variable has the shape the threads expect of it.
TypeOK ==
    /\ host \in {"STOPPED", "STARTING", "RUNNING", "STOPPING", "DOWN", "crashed"}
    /\ surface \in [Handles -> [id : Ids \cup {NoId}, mapped : BOOLEAN, shown : BOOLEAN]]
    /\ nextId \in 1..(MaxId + 1) /\ nextZ \in Nat
    /\ DOMAIN model \subseteq 1..(nextId - 1)
    /\ \A i \in DOMAIN model :
          model[i] \in [active : BOOLEAN, mode : Modes, z : 1..(nextZ - 1), handle : Handles]
    /\ DOMAIN tracker \subseteq 1..(nextId - 1)
    /\ \A i \in DOMAIN tracker : tracker[i] \in [active : BOOLEAN, handle : Handles]
    /\ \A s \in {queue, batch} : s \in Seq([id : Ids \cup {NoId},
                                            handle : Handles \cup {NoHandle}, op : Actions])
    /\ wakeFd \in BOOLEAN /\ wake \in BOOLEAN
    /\ loop \in {"run", "drained", "batch", "crashed"} /\ (loop # "batch" => batch = <<>> \/ host = "crashed")
    /\ task \in [at : {"rest", "register", "unregister", "raise", "focus", "deactivate", "unfocus"},
                 id : Ids \cup {NoId}, handle : Handles \cup {NoHandle}]
    /\ ui \in {"idle", "pushed"}
    /\ shell \in [at : {"idle", "off", "called", "activate", "minimize", "deactivate", "close",
                        "pushed", "joined", "terminated"},
                  id : Ids \cup {NoId}, op : Actions, handle : Handles \cup {NoHandle}]
    /\ requests \in 0..MaxRequests /\ stops \in 0..MaxStops

\* The active window of the WindowModel is the one on top of the stack, and
\* neither table ever has two active windows, whichever of the threads
\* changed them last (setWindowActive, registerWindow, unregisterWindow).
ActiveIsTop ==
    /\ \A i, j \in DOMAIN model : model[i].active /\ i # j => model[j].z < model[i].z
    /\ \A i, j \in DOMAIN tracker : tracker[i].active /\ tracker[j].active => i = j

\* A window in a table is a live surface of the compositor, the one that
\* carries its id: an action the UI queues by id never reaches a freed or a
\* reused surface, not even across a stop() and a start().
TablesAreLive ==
    /\ \A i \in DOMAIN model : surface[model[i].handle].id = i
    /\ \A i \in DOMAIN tracker : surface[tracker[i].handle].id = i

\* Once the queue is worked off and the taskbar is idle, the screen agrees
\* with the model: a mapped window is shown unless the model has it
\* minimized (the shell changes the model first, the compositor the view).
ScreenMatchesModel ==
    /\ host = "RUNNING" /\ shell.at \in {"idle", "off"}
    /\ queue = <<>> /\ batch = <<>>
    => \A i \in DOMAIN model :
           LET s == surface[model[i].handle] IN
           s.mapped => (s.shown <=> model[i].mode # "MINIMIZED")

\* No wake-up is lost: while an action for a window that exists, or one of
\* the taskbar, is queued, the eventfd is readable, or someone is about to
\* write it, or the loop has emptied it and is about to take the queue
\* (enqueueWindowAction pushes before it writes; handleWakeEvent reads before
\* it swaps).  An action that slips in while start() has no eventfd yet can
\* wait for the next one, but its window went with the last run.
NoLostWake ==
    host = "RUNNING" /\ (\E k \in 1..Len(queue) :
                            queue[k].handle # NoHandle \/ Has(model, queue[k].id)) =>
        wake \/ ui = "pushed" \/ shell.at = "pushed" \/ loop = "drained"
=============================================================================
