------------------------------- MODULE GuiHost -------------------------------
(***************************************************************************)
(* The lifecycle of the GUI host (gui_host.cpp): any number of threads     *)
(* call start() and stop(), a worker thread builds the compositor, runs    *)
(* the Wayland event loop and tears everything down, and the Android UI    *)
(* thread calls into the output through setNativeWindow,                   *)
(* changeNativeWindow, destroyNativeWindow and setOutputScale.             *)
(*                                                                         *)
(* lifecycle_mutex_ makes each action of a caller atomic; the joins that   *)
(* start() does with the mutex held are states of their own.  A wait on    *)
(* init_cv_ sleeps until notify_all and then checks its predicate again.   *)
(***************************************************************************)
EXTENDS Integers, FiniteSets

CONSTANTS
    Callers,     \* threads that call start() and stop()
    InitFails,   \* may eventfd() or a step of workerMain's initialisation fail
    MaxStarts    \* bound: how many times start() begins to start the host

ASSUME HostAssumption ==
    /\ InitFails \in BOOLEAN
    /\ MaxStarts \in Nat

VARIABLES
    state,    \* state_
    caller,   \* where each caller is in start() or stop()
    asleep,   \* the callers asleep on init_cv_
    worker,   \* worker_thread_: "none" is not joinable, "done" has returned
    run,      \* the run flag of wl_display_run
    wakeFd,   \* wake_fd_ >= 0
    output,   \* output_: "null", "live", or "freed" and not yet nulled
    ui,       \* the UI thread: idle, or inside a call on output_
    starts    \* starts begun so far

vars == <<state, caller, asleep, worker, run, wakeFd, output, ui, starts>>
threads == <<worker, run, output, ui>>

States == {"STOPPED", "STARTING", "RUNNING", "STOPPING"}

\* start() joins a worker, and goes on, without letting go of lifecycle_mutex_.
JoinsLocked == {"joinOld", "joinFailed"}
HoldsMutex == JoinsLocked \cup {"spawn", "failed", "crashed"}
MutexFree == \A c \in Callers : caller[c] \notin HoldsMutex

Joining == \E c \in Callers : caller[c] \in JoinsLocked \cup {"joinStopped"}

Goto(c, l) == caller' = [caller EXCEPT ![c] = l]

\* init_cv_.wait goes to sleep; init_cv_.notify_all wakes everyone up.
Wait(c, l) == Goto(c, l) /\ asleep' = asleep \cup {c}
NotifyAll == asleep' = {}

\* worker_thread_.join(), if joinable.  In a second joiner join() throws and
\* the process ends, lifecycle_mutex_ held.
Join(c, l, otherwise) ==
    Goto(c, IF worker = "none" THEN otherwise ELSE IF Joining THEN "crashed" ELSE l)

\* A caller that is at l, awake if it has slept, and has the mutex.
At(c, l) == caller[c] = l /\ c \notin asleep /\ MutexFree

-----------------------------------------------------------------------------
(* start().                                                                *)

StartCall(c) == At(c, "idle")

\* Someone else is starting the host, or stopping it.
StartWaits(c) ==
    /\ StartCall(c)
    /\ \/ state = "STARTING" /\ Wait(c, "startWaitStarted")
       \/ state = "STOPPING" /\ Wait(c, "startWaitStopped")
    /\ UNCHANGED <<state, threads, wakeFd, starts>>

StartsHere(c) ==
    /\ StartCall(c) \/ At(c, "startWaitStopped")
    /\ state = "STOPPED"
    /\ starts < MaxStarts

\* STARTING, a new eventfd, and the previous worker joined.
BeginStart(c) ==
    /\ StartsHere(c)
    /\ state' = "STARTING"
    /\ starts' = starts + 1
    /\ wakeFd' = TRUE
    /\ Join(c, "joinOld", "spawn")
    /\ UNCHANGED <<asleep, threads>>

\* eventfd() fails: back to STOPPED, before anyone could see STARTING.
BeginStartFails(c) ==
    /\ StartsHere(c) /\ InitFails
    /\ starts' = starts + 1
    /\ wakeFd' = FALSE
    /\ Goto(c, "idle")
    /\ UNCHANGED <<state, asleep, threads>>

\* The previous worker has returned (it can: it no longer needs the mutex).
JoinedOld(c) ==
    /\ caller[c] = "joinOld" /\ worker = "done"
    /\ worker' = "none"
    /\ Goto(c, "spawn")
    /\ UNCHANGED <<state, asleep, run, output, ui, wakeFd, starts>>

\* The worker is created and start() waits for it.
SpawnWorker(c) ==
    /\ caller[c] = "spawn"
    /\ worker' = "init"
    /\ Wait(c, "startWaitWorker")
    /\ UNCHANGED <<state, run, output, ui, wakeFd, starts>>

\* The owner of a start wakes up: RUNNING, or a failure to clean up after.
StartReturns(c) ==
    /\ At(c, "startWaitWorker") /\ state = "RUNNING"
    /\ Goto(c, "idle")
    /\ UNCHANGED <<state, asleep, threads, wakeFd, starts>>

StartCleansUp(c) ==
    /\ At(c, "startWaitWorker") /\ state \in {"STOPPED", "STOPPING"}
    /\ Join(c, "joinFailed", "failed")
    /\ UNCHANGED <<state, asleep, threads, wakeFd, starts>>

JoinedFailed(c) ==
    /\ caller[c] = "joinFailed" /\ worker = "done"
    /\ worker' = "none"
    /\ Goto(c, "failed")
    /\ UNCHANGED <<state, asleep, run, output, ui, wakeFd, starts>>

\* wake_fd_ is closed and the host is STOPPED; nobody is notified.
StartFails(c) ==
    /\ caller[c] = "failed"
    /\ state' = "STOPPED"
    /\ wakeFd' = FALSE
    /\ Goto(c, "idle")
    /\ UNCHANGED <<asleep, threads, starts>>

\* A second starter returns with whatever the first one came to.
StartWaiterReturns(c) ==
    /\ At(c, "startWaitStarted") /\ state # "STARTING"
    /\ Goto(c, "idle")
    /\ UNCHANGED <<state, asleep, threads, wakeFd, starts>>

-----------------------------------------------------------------------------
(* stop().                                                                 *)

StopCall(c) == At(c, "idle")

StopWaits(c) ==
    /\ \/ StopCall(c) /\ state = "STARTING" /\ Wait(c, "stopWaitStarted")
       \/ /\ StopCall(c) \/ At(c, "stopWaitStarted")
          /\ state = "STOPPING" /\ Wait(c, "stopWaitStopped")
    /\ UNCHANGED <<state, threads, wakeFd, starts>>

\* Mutant: a stop() returns without waiting to be woken.
StopWaiterReturnsAsleep(c) ==
    /\ caller[c] \in {"stopWaitStarted", "stopWaitStopped"} /\ MutexFree
    /\ Goto(c, "idle")
    /\ UNCHANGED <<state, asleep, threads, wakeFd, starts>>

\* The host is STOPPED: nothing left to stop.
StopWaiterReturns(c) ==
    /\ At(c, "stopWaitStarted") \/ At(c, "stopWaitStopped")
    /\ state = "STOPPED"
    /\ Goto(c, "idle")
    /\ UNCHANGED <<state, asleep, threads, wakeFd, starts>>

\* Mutant: the state is not set before the worker is told to terminate.
BeginStopUnmarked(c) ==
    /\ StopCall(c) \/ At(c, "stopWaitStarted")
    /\ state = "RUNNING"
    /\ run' = FALSE
    /\ Join(c, "joinStopped", "relock")
    /\ UNCHANGED <<state, asleep, worker, output, ui, wakeFd, starts>>

\* Mutant: wl_display_terminate is left out.
BeginStopRuns(c) ==
    /\ StopCall(c) \/ At(c, "stopWaitStarted")
    /\ state = "RUNNING"
    /\ state' = "STOPPING"
    /\ Join(c, "joinStopped", "relock")
    /\ UNCHANGED <<asleep, worker, run, output, ui, wakeFd, starts>>

\* STOPPING, wl_display_terminate, a wake, and the join, mutex released.
BeginStop(c) ==
    /\ StopCall(c) \/ At(c, "stopWaitStarted")
    /\ state = "RUNNING"
    /\ state' = "STOPPING"
    /\ run' = FALSE
    /\ Join(c, "joinStopped", "relock")
    /\ UNCHANGED <<asleep, worker, output, ui, wakeFd, starts>>

JoinedStopped(c) ==
    /\ caller[c] = "joinStopped" /\ worker = "done"
    /\ worker' = "none"
    /\ Goto(c, "relock")
    /\ UNCHANGED <<state, asleep, run, output, ui, wakeFd, starts>>

\* Mutant: STOPPED without notify_all.
FinishStopSilently(c) ==
    /\ At(c, "relock")
    /\ state' = "STOPPED"
    /\ wakeFd' = FALSE
    /\ Goto(c, "idle")
    /\ UNCHANGED <<asleep, threads, starts>>

FinishStop(c) ==
    /\ At(c, "relock")
    /\ state' = "STOPPED"
    /\ wakeFd' = FALSE
    /\ NotifyAll
    /\ Goto(c, "idle")
    /\ UNCHANGED <<threads, starts>>

\* A waiter is woken, finds its predicate false and sleeps again.
SleepAgain(c) ==
    /\ \/ At(c, "startWaitStarted") /\ state = "STARTING"
       \/ At(c, "startWaitWorker") /\ state = "STARTING"
       \/ At(c, "stopWaitStarted") /\ state = "STARTING"
       \/ At(c, "startWaitStopped") /\ state # "STOPPED"
       \/ At(c, "stopWaitStopped") /\ state # "STOPPED"
    /\ asleep' = asleep \cup {c}
    /\ UNCHANGED <<state, caller, threads, wakeFd, starts>>

-----------------------------------------------------------------------------
(* workerMain.                                                             *)

WorkerGoto(from, to) == worker = from /\ worker' = to

\* The display, the event loop, the compositor, the backend and the head ...
WorkerCreatesOutput ==
    /\ WorkerGoto("init", "attach")
    /\ output' = "live"
    /\ UNCHANGED <<state, caller, asleep, run, wakeFd, ui, starts>>

\* ... and the window attached before the start, under window_mutex_.
WorkerAttachesWindow ==
    /\ WorkerGoto("attach", "enable") /\ ui = "idle"
    /\ UNCHANGED <<state, caller, asleep, run, wakeFd, output, ui, starts>>

\* Mutant: a failure path that returns without a report.
WorkerFailsUnreported ==
    /\ InitFails /\ WorkerGoto("init", "done")
    /\ UNCHANGED <<state, caller, asleep, run, wakeFd, output, ui, starts>>

\* Initialisation fails before there is an output, or with one (its mode, or
\* the output itself, cannot be set), which weston_compositor_destroy frees ...
WorkerFails ==
    /\ InitFails
    /\ \/ WorkerGoto("init", "report") /\ UNCHANGED output
       \/ WorkerGoto("enable", "freed") /\ output' = "freed"
    /\ UNCHANGED <<state, caller, asleep, run, wakeFd, ui, starts>>

\* ... before output_ is nulled, with neither mutex held.
WorkerClearsOutput ==
    /\ WorkerGoto("freed", "report")
    /\ output' = "null"
    /\ UNCHANGED <<state, caller, asleep, run, wakeFd, ui, starts>>

WorkerReportsFailure ==
    /\ WorkerGoto("report", "done") /\ MutexFree
    /\ state' = "STOPPED"
    /\ NotifyAll
    /\ UNCHANGED <<caller, run, wakeFd, output, ui, starts>>

WorkerReportsRunning ==
    /\ WorkerGoto("enable", "ready") /\ MutexFree
    /\ state' = "RUNNING"
    /\ NotifyAll
    /\ UNCHANGED <<caller, run, wakeFd, output, ui, starts>>

\* wl_display_run: sets its run flag, then loops until it is cleared.
DisplayRun ==
    /\ WorkerGoto("ready", "loop")
    /\ run' = TRUE
    /\ UNCHANGED <<state, caller, asleep, wakeFd, output, ui, starts>>

DisplayRunReturns ==
    /\ WorkerGoto("loop", "teardown") /\ ~run
    /\ UNCHANGED <<state, caller, asleep, run, wakeFd, output, ui, starts>>

\* set_window(NULL), the output disabled, the compositor destroyed ...
WorkerDestroysCompositor ==
    /\ WorkerGoto("teardown", "destroyed")
    /\ output' = "freed"
    /\ UNCHANGED <<state, caller, asleep, run, wakeFd, ui, starts>>

\* ... and only then output_ nulled.
WorkerReturns ==
    /\ WorkerGoto("destroyed", "done")
    /\ output' = "null"
    /\ UNCHANGED <<state, caller, asleep, run, wakeFd, ui, starts>>

-----------------------------------------------------------------------------
(* The UI thread, under window_mutex_, which the worker's teardown does    *)
(* not take.                                                               *)

WindowCall ==
    /\ ui = "idle" /\ output # "null"
    /\ ui' = "inside"
    /\ UNCHANGED <<state, caller, asleep, worker, run, wakeFd, output, starts>>

WindowCallReturns ==
    /\ ui = "inside"
    /\ ui' = "idle"
    /\ UNCHANGED <<state, caller, asleep, worker, run, wakeFd, output, starts>>

-----------------------------------------------------------------------------
Init ==
    /\ state = "STOPPED"
    /\ caller = [c \in Callers |-> "idle"]
    /\ asleep = {}
    /\ worker = "none"
    /\ run = FALSE
    /\ wakeFd = FALSE
    /\ output = "null"
    /\ ui = "idle"
    /\ starts = 0

\* What a caller inside start() or stop() does.
CallerStep(c) ==
    \/ caller[c] = "startWaitStopped" /\ (BeginStart(c) \/ BeginStartFails(c))
    \/ caller[c] = "stopWaitStarted" /\ (BeginStop(c) \/ StopWaits(c))
    \/ JoinedOld(c) \/ SpawnWorker(c) \/ StartReturns(c) \/ StartCleansUp(c)
    \/ JoinedFailed(c) \/ StartFails(c) \/ StartWaiterReturns(c)
    \/ StopWaiterReturns(c) \/ JoinedStopped(c) \/ FinishStop(c)
    \/ SleepAgain(c)

\* A new call.
Call(c) ==
    /\ caller[c] = "idle"
    /\ StartWaits(c) \/ BeginStart(c) \/ BeginStartFails(c) \/ StopWaits(c) \/ BeginStop(c)

Worker ==
    \/ WorkerCreatesOutput \/ WorkerAttachesWindow \/ WorkerFails
    \/ WorkerClearsOutput \/ WorkerReportsFailure \/ WorkerReportsRunning
    \/ DisplayRun \/ DisplayRunReturns \/ WorkerDestroysCompositor \/ WorkerReturns

Next ==
    \/ \E c \in Callers : Call(c) \/ CallerStep(c)
    \/ Worker
    \/ WindowCall
    \/ WindowCallReturns

\* Every thread inside a call, and the worker, keeps running; the UI thread
\* returns from its calls and does not keep the worker from window_mutex_.
Fairness ==
    /\ \A c \in Callers : WF_vars(CallerStep(c))
    /\ WF_vars(Worker) /\ SF_vars(WorkerAttachesWindow)
    /\ WF_vars(WindowCallReturns)

Spec == Init /\ [][Next]_vars /\ Fairness

-----------------------------------------------------------------------------
WaitLabels ==
    {"startWaitStarted", "startWaitStopped", "startWaitWorker",
     "stopWaitStarted", "stopWaitStopped"}
CallerLabels ==
    WaitLabels \cup {"idle", "joinOld", "spawn", "joinFailed", "failed",
                    "joinStopped", "relock", "crashed"}
WorkerLabels ==
    {"none", "init", "attach", "enable", "freed", "report", "ready", "loop",
     "teardown", "destroyed", "done"}

(* Types; only a caller inside one of the five waits of start() and stop() *)
(* is asleep on init_cv_.                                                  *)
TypeOK ==
    /\ state \in States
    /\ caller \in [Callers -> CallerLabels]
    /\ asleep \subseteq {c \in Callers : caller[c] \in WaitLabels}
    /\ worker \in WorkerLabels
    /\ run \in BOOLEAN
    /\ wakeFd \in BOOLEAN
    /\ output \in {"null", "live", "freed"}
    /\ ui \in {"idle", "inside"}
    /\ starts \in 0 .. MaxStarts

(* A host that reports RUNNING has a worker that serves it: the compositor *)
(* exists and its event loop has not been told to stop, so that stop()     *)
(* never terminates a display that is gone.                                *)
RunningIsServed ==
    state = "RUNNING" => worker \in {"ready", "loop"} /\ output = "live"

(* No waiter is forgotten: a caller asleep on init_cv_ whose condition has *)
(* come true has a notify_all coming from a stop() in progress.            *)
Satisfied(c) ==
    \/ caller[c] \in {"startWaitStarted", "startWaitWorker", "stopWaitStarted"}
         /\ state # "STARTING"
    \/ caller[c] \in {"startWaitStopped", "stopWaitStopped"} /\ state = "STOPPED"
NoForgottenWaiter ==
    (\E c \in asleep : Satisfied(c)) =>
        \E d \in Callers : caller[d] \in {"joinStopped", "relock"}

(* Every start() that waits for its worker returns, provided no stop() is  *)
(* under way while it waits: every way out of workerMain's initialisation  *)
(* notifies it, and what a stop() leaves behind does not hold it up.       *)
StopRacesStart ==
    \E c, d \in Callers :
        /\ caller[c] = "startWaitWorker"
        /\ caller[d] \in {"stopWaitStarted", "stopWaitStopped", "joinStopped", "relock"}
StartReturnsEventually ==
    []~StopRacesStart =>
        \A c \in Callers : (caller[c] = "startWaitWorker") ~> (caller[c] = "idle")

(* Every stop() gets the event loop to end and its join returns, whoever   *)
(* else calls start() and stop(), provided none comes between the report   *)
(* of RUNNING and the moment wl_display_run sets its run flag: there the   *)
(* termination is lost.                                                    *)
StopBeforeLoop == worker = "ready" /\ \E c \in Callers : caller[c] = "joinStopped"
StopTerminates ==
    []~StopBeforeLoop =>
        \A c \in Callers : (caller[c] = "joinStopped") ~> (caller[c] # "joinStopped")

(* "Unlock mutex while joining worker thread so worker can perform clean   *)
(* resource teardown", stop() says of its own join.  By the same rule, the *)
(* joins that start() does keeping lifecycle_mutex_, of the previous       *)
(* worker or, when it has failed, of its own, are of a worker that no      *)
(* longer needs the mutex to report how its initialisation went.           *)
NoJoinDeadlock ==
    (\E c \in Callers : caller[c] \in JoinsLocked) =>
        worker \notin {"init", "attach", "enable", "freed", "report"}
=============================================================================
