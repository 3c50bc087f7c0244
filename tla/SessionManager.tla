---------------------------- MODULE SessionManager ----------------------------
(***************************************************************************)
(* Sessions of Linux environments: DefaultSessionManager.kt over the       *)
(* process table of ProotRuntimeBackend.kt, as the view models and the     *)
(* foreground service call them.                                           *)
(*                                                                         *)
(* Every call is a coroutine on Dispatchers.IO.  Nothing is locked: an     *)
(* action is what a call does between two places where another coroutine   *)
(* can see its writes, and a call keeps its own copy of the session and    *)
(* writes that copy back whole.  The guest (LDDM, Weston and LDDE under    *)
(* PRoot) is external: its state file and its readiness files may hold     *)
(* anything, old or new, when they are read.                               *)
(***************************************************************************)
EXTENDS Integers, FiniteSets

CONSTANTS
    Callers,      \* coroutines of the view models and of LinuxSessionService
    Envs,         \* environments
    Sids,         \* session ids; their number bounds the sessions created
    Pids,         \* process handles, used again when nothing refers to them
    MaxCalls,     \* bound: how many calls are made, the launcher's requests included
    NoSession,    \* no entry in sessionMap, no session
    NoProcess,    \* no process
    GuestReports  \* the STATE= lines the guest writes (a subset of Observable)

VARIABLES
    sessionMap,  \* the session stored under each id
    call,        \* each caller's current call
    calls,       \* how many calls and requests have been made
    proc,        \* what each process is
    alive,       \* the processes that run
    term,        \* the running processes that SIGTERM was sent to
    active,      \* activeProcesses, the backend's table
    sup,         \* startSessionSupervision of each LDDM: its session, and the copy it read
    host,        \* does the GUI host run
    listener,    \* the session its application launcher is connected to
    requests     \* launches the launcher has asked for, by environment: not yet executed

tables == <<proc, alive, term, active>>
display == <<host, listener, requests>>
vars == <<sessionMap, call, calls, tables, sup, display>>

Modes == {"GUI", "CLI"}

\* SessionState.isActive().
ActiveStates ==
    {"STARTING", "GUEST_READY", "LDDM_STARTING", "WESTON_STARTING", "WESTON_READY",
     "LDDE_STARTING", "LDDE_READY", "GUI_READY", "CLI_STARTING", "CLI_READY",
     "STARTING_RUNTIME", "STARTING_COMPOSITOR", "GRAPHICAL_SESSION_RECOVERING", "STOPPING"}
EndedStates ==
    {"GUI_FAILED", "CLI_FAILED", "GRAPHICAL_SESSION_FAILED", "STOPPED", "FAILED"}
States == ActiveStates \cup EndedStates

\* The STATE= lines that are understood; only supervision understands STOPPED.
\* "none" stands for no state file, and for lines that are not understood.
Observable ==
    {"WESTON_STARTING", "WESTON_READY", "LDDE_STARTING", "LDDE_READY", "GUI_READY",
     "GRAPHICAL_SESSION_RECOVERING", "GRAPHICAL_SESSION_FAILED", "FAILED", "STOPPED"}

Sessions == [env : Envs, mode : Modes, state : States]
Supervisions == [sid : Sids, seen : Sessions \cup {NoSession}]
\* A PTY shell becomes "closed" when isClosed of its PtySession is set.
Processes == [env : Envs, kind : {"probe", "lddm", "app", "shell", "closed"}]

ASSUME SessionAssumption ==
    /\ GuestReports \subseteq Observable
    /\ MaxCalls \in Nat
    /\ NoSession \notin Sids \cup Sessions \cup Supervisions
    /\ NoProcess \notin Pids \cup Processes

Files == {"socket", "ldde"}
Reports == GuestReports \cup {"none"}

Stored(s) == sessionMap[s] # NoSession
IsActive(s) == Stored(s) /\ sessionMap[s].state \in ActiveStates

\* getSession: any active session of the environment, in the map's hash order.
GetSession(e) == {s \in Sids : IsActive(s) /\ sessionMap[s].env = e}

Idle == [pc |-> "idle", op |-> "none", env |-> CHOOSE e \in Envs : TRUE, mode |-> "CLI",
         sid |-> NoSession, state |-> "WESTON_STARTING", proc |-> NoProcess, todo |-> {}]

Pc(c) == call[c].pc
Goto(c, l) == call' = [call EXCEPT ![c].pc = l]
Return(c) == call' = [call EXCEPT ![c] = Idle]

\* sessionMap[sessionId] = the call's own copy, in this state.
Write(c, state) ==
    sessionMap' = [sessionMap EXCEPT ![call[c].sid] =
                      [env |-> call[c].env, mode |-> call[c].mode, state |-> state]]

OfEnv(e) == {p \in active : proc[p].env = e}

\* A new handle: nothing refers to it.
Unused(p) ==
    /\ p \notin alive \cup active
    /\ sup[p] = NoSession
    /\ \A c \in Callers : call[c].proc # p /\ p \notin call[c].todo

Init ==
    /\ sessionMap = [s \in Sids |-> NoSession]
    /\ call = [c \in Callers |-> Idle]
    /\ calls = 0
    /\ proc = [p \in Pids |-> NoProcess]
    /\ alive = {} /\ term = {} /\ active = {}
    /\ sup = [p \in Pids |-> NoSession]
    /\ host = FALSE /\ listener = NoSession /\ requests = {}

-----------------------------------------------------------------------------
(* startSession.                                                           *)

\* SessionId.generate(): an id that no session and no call has.
Generated == LET fresh == {s \in Sids : ~Stored(s) /\ \A c \in Callers : call[c].sid # s}
             IN  IF fresh = {} THEN {} ELSE {CHOOSE s \in fresh : TRUE}

\* A caller that is free makes one more call.
Begin(c, op, e, mode, s, l, p) ==
    /\ Pc(c) = "idle" /\ calls < MaxCalls
    /\ calls' = calls + 1
    /\ call' = [call EXCEPT ![c] = [Idle EXCEPT !.pc = l, !.op = op, !.env = e, !.mode = mode,
                                               !.sid = s, !.proc = p]]

\* An active session of the same mode, or any for CLI, is returned as it is
\* (no step).  A GUI start takes over the id of a CLI session.
StartSession(c, e, mode) ==
    /\ \E s \in Sids :
           /\ \/ s \in GetSession(e) /\ mode = "GUI" /\ sessionMap[s].mode = "CLI"
              \/ GetSession(e) = {} /\ s \in Generated
           /\ Begin(c, "start", e, mode, s, "verify", NoProcess)
    /\ UNCHANGED <<sessionMap, tables, sup, display>>

\* startInteractiveShellSession: a CLI start unless a session is active, then a shell.
StartShell(c, e) ==
    /\ \E s \in Sids :
           \/ s \in GetSession(e) /\ Begin(c, "shell", e, "CLI", s, "shell", NoProcess)
           \/ GetSession(e) = {} /\ s \in Generated /\ Begin(c, "shell", e, "CLI", s, "verify", NoProcess)
    /\ UNCHANGED <<sessionMap, tables, sup, display>>

\* Without a valid rootfs the call throws before it stores anything.
VerifyFails(c) ==
    /\ Pc(c) = "verify"
    /\ Return(c)
    /\ UNCHANGED <<sessionMap, tables, sup, display>>

\* STARTING, at once overwritten.
Register(c) ==
    /\ Pc(c) = "verify"
    /\ Write(c, IF call[c].mode = "GUI" THEN "STARTING_RUNTIME" ELSE "CLI_STARTING")
    /\ Goto(c, "prepare")
    /\ UNCHANGED <<tables, sup, display>>

\* executeWithSpec: a process is launched and entered in the table.  One step:
\* to be launched and not yet in the table is the same to others as later.
Launch(c, kind, l) ==
    /\ \E p \in Pids : Unused(p)
    /\ LET p == CHOOSE q \in Pids : Unused(q)
       IN  /\ proc' = [proc EXCEPT ![p] = [env |-> call[c].env, kind |-> kind]]
           /\ alive' = alive \cup {p}
           /\ active' = active \cup {p}
           /\ call' = [call EXCEPT ![c].proc = p, ![c].pc = l]
    /\ UNCHANGED term

\* The backend's prepare, initialize and start may throw, and so may the launch.
PrepareFails(c) ==
    /\ Pc(c) = "prepare"
    /\ Goto(c, "failed")
    /\ UNCHANGED <<sessionMap, tables, sup, display>>

\* What a handle was is kept while it runs or is in the table.
Forget(p) ==
    IF p \in alive' \cup active' THEN UNCHANGED <<proc, term>>
    ELSE proc' = [proc EXCEPT ![p] = NoProcess] /\ term' = term \ {p}

\* activeProcesses.remove(handleId).
Remove(p) ==
    /\ active' = active \ {p} /\ UNCHANGED alive
    /\ Forget(p)

LaunchProbe(c) ==
    /\ Pc(c) = "prepare"
    /\ Launch(c, "probe", "probeWait")
    /\ UNCHANGED <<sessionMap, sup, display>>

\* executeAndWait waits for the exit: withTimeoutOrNull cannot interrupt the
\* blocking waitFor().  A probe that was told to stop exits with an error.
\* When the shell has answered the guest is ready.
ProbeExits(c) ==
    /\ Pc(c) = "probeWait" /\ call[c].proc \notin alive
    /\ Remove(call[c].proc)
    /\ \/ /\ call[c].proc \notin term
          /\ Write(c, "GUEST_READY")
          /\ call' = [call EXCEPT ![c].pc = IF call[c].mode = "CLI" THEN "cli" ELSE "gui", ![c].proc = NoProcess]
       \/ /\ call' = [call EXCEPT ![c].pc = "failed", ![c].proc = NoProcess]
          /\ UNCHANGED sessionMap
    /\ UNCHANGED <<sup, display>>

\* A CLI session needs nothing else but the guest's init script.
CliReady(c) ==
    /\ Pc(c) = "cli"
    /\ Write(c, "CLI_READY")
    /\ IF call[c].op = "shell" THEN Goto(c, "shell") ELSE Return(c)
    /\ UNCHANGED <<tables, sup, display>>

\* The init script cannot be written (CLI); the desktop is not installed, being
\* installed or incomplete, or its environment cannot be prepared (GUI).
StartThrows(c) ==
    /\ Pc(c) \in {"cli", "gui", "host", "desktop"}
    /\ Goto(c, "failed")
    /\ UNCHANGED <<sessionMap, tables, sup, display>>

StartCompositor(c) ==
    /\ Pc(c) = "gui"
    /\ Write(c, "STARTING_COMPOSITOR")
    /\ Goto(c, "host")
    /\ UNCHANGED <<tables, sup, display>>

\* guiHostController.start(); its result is not looked at.
StartHost(c) ==
    /\ Pc(c) = "host"
    /\ host' = TRUE
    /\ Goto(c, "listen")
    /\ UNCHANGED <<sessionMap, tables, sup, listener, requests>>

ConnectLauncher(c) ==
    /\ Pc(c) = "listen"
    /\ listener' = call[c].sid
    /\ Goto(c, "desktop")
    /\ UNCHANGED <<sessionMap, tables, sup, host, requests>>

StartLddm(c) ==
    /\ Pc(c) = "desktop"
    /\ Write(c, "LDDM_STARTING")
    /\ Goto(c, "lddm")
    /\ UNCHANGED <<tables, sup, display>>

LaunchLddm(c) ==
    /\ Pc(c) = "lddm"
    /\ \/ Launch(c, "lddm", "await")
       \/ Goto(c, "failed") /\ UNCHANGED tables
    /\ UNCHANGED <<sessionMap, sup, display>>

\* startSessionSupervision, and startSession returns.
Supervise(c) ==
    /\ sup' = [sup EXCEPT ![call[c].proc] = [sid |-> call[c].sid, seen |-> NoSession]]
    /\ Return(c)

\* One round of awaitGraphicalSessionReadiness: the state file, then the
\* socket, then the readiness file of LDDE, each compared by ordinal.
Readiness(state, report, files) ==
    LET read == IF report \notin {"none", "STOPPED"} THEN report ELSE state
        weston == IF "socket" \in files /\ read = "WESTON_STARTING" THEN "WESTON_READY" ELSE read
        ldde == IF "ldde" \in files /\ weston \in {"WESTON_STARTING", "WESTON_READY", "LDDE_STARTING"}
                THEN "LDDE_READY" ELSE weston
    IN  IF read = "GUI_READY" \/ files = Files THEN "GUI_READY" ELSE ldde

AwaitReadiness(c) ==
    /\ Pc(c) = "await"
    /\ \E report \in Reports, files \in SUBSET Files :
           LET state == Readiness(call[c].state, report, files)
           IN  /\ report \notin {"none", "STOPPED", call[c].state} \/ state # call[c].state
               /\ Write(c, state)
               /\ IF state = "GUI_READY" THEN Supervise(c)
                  ELSE call' = [call EXCEPT ![c].state = state] /\ UNCHANGED sup
    /\ UNCHANGED <<tables, display>>

\* The deadline: GUI_READY, whatever the guest says.
AwaitDeadline(c) ==
    /\ Pc(c) = "await"
    /\ Write(c, "GUI_READY")
    /\ Supervise(c)
    /\ UNCHANGED <<tables, display>>

\* The PTY shell of a terminal.
LaunchShell(c) ==
    /\ Pc(c) = "shell"
    /\ Launch(c, "shell", "opened")
    /\ UNCHANGED <<sessionMap, sup, display>>

\* With its shell, or without when the launch has failed.
ShellReturns(c) ==
    /\ Pc(c) \in {"shell", "opened"}
    /\ Return(c)
    /\ UNCHANGED <<sessionMap, tables, sup, display>>

\* The view model goes away: the next suspension point throws.  A probe that
\* has been waited for stays in the table.
CancelStart(c) ==
    /\ \/ Pc(c) \in {"prepare", "lddm", "await"}
       \/ Pc(c) = "probeWait" /\ call[c].proc \notin alive
    /\ Goto(c, "cancelled")
    /\ UNCHANGED <<sessionMap, tables, sup, display>>

\* The catch block: the failure is stored, then the services go and the
\* processes of the environment are stopped; after a cancellation that
\* last call throws at once.  The launcher stays connected.
StartFails(c) ==
    /\ Pc(c) \in {"failed", "cancelled"}
    /\ Write(c, IF call[c].mode = "GUI" THEN "GUI_FAILED" ELSE "CLI_FAILED")
    /\ Goto(c, IF Pc(c) = "failed" THEN "teardown" ELSE "teardownCancelled")
    /\ UNCHANGED <<tables, sup, display>>

TearDown(c) ==
    /\ Pc(c) \in {"teardown", "teardownCancelled"}
    /\ host' = FALSE
    /\ IF Pc(c) = "teardown" THEN Goto(c, "stopRuntime") ELSE Return(c)
    /\ UNCHANGED <<sessionMap, tables, sup, listener, requests>>

-----------------------------------------------------------------------------
(* stopSession and stopForEnvironment.                                     *)

\* Called for the active session of an environment (stopEnvironment), or for
\* any stored session (the service: its intent and its notification).  The
\* stop reads the session once and goes on with its own copy.
StopSession(c, s) ==
    /\ Stored(s)
    /\ Begin(c, "stop", sessionMap[s].env, sessionMap[s].mode, s, "stopping", NoProcess)
    /\ UNCHANGED <<sessionMap, tables, sup, display>>

StoreStopping(c) ==
    /\ Pc(c) = "stopping"
    /\ Write(c, "STOPPING")
    /\ Goto(c, "stopServices")
    /\ UNCHANGED <<tables, sup, display>>

\* stopEnvironment without an active session goes straight to the backend.
StopEnvironment(c, e) ==
    /\ GetSession(e) = {} /\ OfEnv(e) # {}
    /\ Begin(c, "stop", e, "CLI", NoSession, "stopRuntime", NoProcess)
    /\ UNCHANGED <<sessionMap, tables, sup, display>>

DisconnectLauncher(c) ==
    /\ Pc(c) = "stopServices"
    /\ listener' = NoSession
    /\ Goto(c, "stopHost")
    /\ UNCHANGED <<sessionMap, tables, sup, host, requests>>

StopHost(c) ==
    /\ Pc(c) = "stopHost"
    /\ host' = FALSE
    /\ Goto(c, "stopRuntime")
    /\ UNCHANGED <<sessionMap, tables, sup, listener, requests>>

\* stopForEnvironment: the processes the table holds now.
StopRuntime(c) ==
    /\ Pc(c) = "stopRuntime"
    /\ call' = [call EXCEPT ![c].pc = "loop", ![c].todo = OfEnv(call[c].env), ![c].proc = NoProcess]
    /\ UNCHANGED <<sessionMap, tables, sup, display>>

\* The next process: a PTY shell is closed, and SIGTERM sent to it; a shell
\* that was closed before is not waited for; any other process gets SIGTERM.
\* (isClosed is tested and set in one step: two that find it unset both kill.)
StopProcess(c) ==
    /\ Pc(c) = "loop"
    /\ \E p \in call[c].todo :
           \/ /\ p \in alive /\ proc[p].kind = "shell"
              /\ proc' = [proc EXCEPT ![p].kind = "closed"]
              /\ call' = [call EXCEPT ![c].pc = "closing", ![c].proc = p]
              /\ UNCHANGED term
           \/ /\ p \in alive /\ proc[p].kind \notin {"shell", "closed"}
              /\ term' = term \cup {p}
              /\ call' = [call EXCEPT ![c].pc = "kill", ![c].proc = p]
              /\ UNCHANGED proc
           \/ /\ p \in alive => proc[p].kind = "closed"
              /\ call' = [call EXCEPT ![c].pc = "gone", ![c].proc = p]
              /\ UNCHANGED <<proc, term>>
    /\ UNCHANGED <<sessionMap, alive, active, sup, display>>

\* The terminal of a shell is left or opened anew: closeSession.
CloseTerminal(c, p) ==
    /\ p \in alive /\ proc[p].kind = "shell"
    /\ Begin(c, "close", proc[p].env, "CLI", NoSession, "closing", p)
    /\ proc' = [proc EXCEPT ![p].kind = "closed"]
    /\ UNCHANGED <<sessionMap, alive, term, active, sup, display>>

\* The shell has gone within the 200 ms of PtySession.close(), or SIGKILL ends it.
ShellKilled(c) ==
    /\ Pc(c) = "closing"
    /\ alive' = alive \ {call[c].proc} /\ UNCHANGED active
    /\ Forget(call[c].proc)
    /\ IF call[c].op = "close" THEN Return(c) ELSE Goto(c, "gone")
    /\ UNCHANGED <<sessionMap, sup, display>>

\* Mutant: the timeout of the wait works, and SIGKILL is left out.
ProcessStoppedInTime(c) ==
    /\ Pc(c) \in {"kill", "gone"}
    /\ Remove(call[c].proc)
    /\ call' = [call EXCEPT ![c].pc = "loop", ![c].proc = NoProcess, ![c].todo = @ \ {call[c].proc}]
    /\ UNCHANGED <<sessionMap, sup, display>>

\* waitFor() has returned.  It blocks the thread, so the timeout around it
\* cannot end it, and SIGKILL, which follows, comes when the process is gone.
\* The handle leaves the table, that of a shell somebody else is closing too.
ProcessStopped(c) ==
    /\ Pc(c) \in {"kill", "gone"} /\ (Pc(c) = "kill" => call[c].proc \notin alive)
    /\ Remove(call[c].proc)
    /\ call' = [call EXCEPT ![c].pc = "loop", ![c].proc = NoProcess, ![c].todo = @ \ {call[c].proc}]
    /\ UNCHANGED <<sessionMap, sup, display>>

\* Mutant: a failed stop leaves the session as it is.
StopCancelledSilently(c) ==
    /\ Pc(c) = "kill" /\ call[c].proc \notin alive
    /\ Remove(call[c].proc)
    /\ Return(c)
    /\ UNCHANGED <<sessionMap, sup, display>>

\* The caller was cancelled: the wait throws when it ends, the loop with it,
\* and a stop stores FAILED.
StopCancelled(c) ==
    /\ Pc(c) = "kill" /\ call[c].proc \notin alive
    /\ Remove(call[c].proc)
    /\ IF call[c].op = "stop" /\ call[c].sid # NoSession THEN Write(c, "FAILED") ELSE UNCHANGED sessionMap
    /\ Return(c)
    /\ UNCHANGED <<sup, display>>

\* Mutant: the launcher is disconnected at the end.
StoppedDisconnects(c) ==
    /\ Pc(c) = "loop" /\ call[c].todo = {}
    /\ IF call[c].op = "stop" /\ call[c].sid # NoSession
       THEN Write(c, "STOPPED") /\ listener' = NoSession
       ELSE UNCHANGED <<sessionMap, listener>>
    /\ Return(c)
    /\ UNCHANGED <<tables, sup, host, requests>>

Stopped(c) ==
    /\ Pc(c) = "loop" /\ call[c].todo = {}
    /\ IF call[c].op = "stop" /\ call[c].sid # NoSession THEN Write(c, "STOPPED") ELSE UNCHANGED sessionMap
    /\ Return(c)
    /\ UNCHANGED <<tables, sup, display>>

-----------------------------------------------------------------------------
(* Supervision, applications and processes.                                *)

Asleep(p) == sup[p] # NoSession /\ sup[p].seen = NoSession
HasRead(p) == sup[p] # NoSession /\ sup[p].seen # NoSession

\* Mutant: the state of the session is not looked at.
SupervisorReadsEnded(p) ==
    /\ Asleep(p)
    /\ sup' = [sup EXCEPT ![p].seen = sessionMap[sup[p].sid]]
    /\ UNCHANGED <<sessionMap, call, tables, display>>

\* The liveness check never fires: it asks the handle, whose state is a val.
SupervisorReads(p) ==
    /\ Asleep(p)
    /\ LET current == sessionMap[sup[p].sid]
       IN  IF current.state \in EndedStates \cup {"STOPPING"}
           THEN sup' = [sup EXCEPT ![p] = NoSession]
           ELSE sup' = [sup EXCEPT ![p].seen = current]
    /\ UNCHANGED <<sessionMap, call, tables, display>>

\* Mutant: supervision ends when it has stored a change.
SupervisorWritesOnce(p) ==
    /\ HasRead(p)
    /\ \E report \in Reports :
           IF report \in {"none", sup[p].seen.state}
           THEN sup' = [sup EXCEPT ![p].seen = NoSession] /\ UNCHANGED sessionMap
           ELSE /\ sessionMap' = [sessionMap EXCEPT ![sup[p].sid] = [sup[p].seen EXCEPT !.state = report]]
                /\ sup' = [sup EXCEPT ![p] = NoSession]
    /\ UNCHANGED <<call, tables, display>>

\* The copy it read, with the state the guest reports, if that is another one.
SupervisorWrites(p) ==
    /\ HasRead(p)
    /\ \E report \in Reports :
           IF report \in {"none", sup[p].seen.state}
           THEN sup' = [sup EXCEPT ![p].seen = NoSession] /\ UNCHANGED sessionMap
           ELSE /\ sessionMap' = [sessionMap EXCEPT ![sup[p].sid] = [sup[p].seen EXCEPT !.state = report]]
                /\ IF report \in EndedStates
                   THEN sup' = [sup EXCEPT ![p] = NoSession]
                   ELSE sup' = [sup EXCEPT ![p].seen = NoSession]
    /\ UNCHANGED <<call, tables, display>>

\* The native launcher asks for an application.
RequestApp ==
    /\ host /\ listener # NoSession
    /\ calls < MaxCalls /\ calls' = calls + 1
    /\ requests' = requests \cup {sessionMap[listener].env}
    /\ UNCHANGED <<sessionMap, call, tables, sup, host, listener>>

\* A coroutine of the manager executes it, whatever has been stopped meanwhile,
\* or fails to.
LaunchApp(e) ==
    /\ e \in requests
    /\ requests' = requests \ {e}
    /\ \/ /\ \E p \in Pids : Unused(p)
          /\ LET p == CHOOSE q \in Pids : Unused(q)
             IN  /\ proc' = [proc EXCEPT ![p] = [env |-> e, kind |-> "app"]]
                 /\ alive' = alive \cup {p}
                 /\ active' = active \cup {p}
          /\ UNCHANGED term
       \/ UNCHANGED tables
    /\ UNCHANGED <<sessionMap, call, sup, host, listener>>

\* Any process may end at any time; nobody removes it from the table.
ProcessEnds(p) ==
    /\ p \in alive
    /\ alive' = alive \ {p} /\ UNCHANGED active
    /\ Forget(p)
    /\ UNCHANGED <<sessionMap, call, sup, display>>

\* What a call does by itself.  A round of the readiness loop is left out: its
\* deadline comes in any case.
CallStep(c) ==
    /\ \/ VerifyFails(c) \/ Register(c) \/ PrepareFails(c) \/ LaunchProbe(c) \/ ProbeExits(c)
       \/ CliReady(c) \/ StartThrows(c) \/ StartCompositor(c) \/ StartHost(c) \/ ConnectLauncher(c)
       \/ StartLddm(c) \/ LaunchLddm(c) \/ AwaitDeadline(c) \/ LaunchShell(c) \/ ShellReturns(c)
       \/ StartFails(c) \/ TearDown(c) \/ StoreStopping(c) \/ DisconnectLauncher(c) \/ StopHost(c)
       \/ StopRuntime(c) \/ StopProcess(c) \/ ShellKilled(c) \/ ProcessStopped(c) \/ Stopped(c)
    /\ UNCHANGED calls

Next ==
    \/ \E c \in Callers :
           \/ \E e \in Envs, mode \in Modes : StartSession(c, e, mode)
           \/ \E e \in Envs : StartShell(c, e) \/ StopEnvironment(c, e)
           \/ \E s \in Sids : StopSession(c, s)
           \/ \E p \in Pids : CloseTerminal(c, p)
           \/ CallStep(c)
           \/ (AwaitReadiness(c) \/ CancelStart(c) \/ StopCancelled(c)) /\ UNCHANGED calls
    \/ \E p \in Pids :
           (SupervisorReads(p) \/ SupervisorWrites(p) \/ ProcessEnds(p)) /\ UNCHANGED calls
    \/ RequestApp
    \/ \E e \in Envs : LaunchApp(e) /\ UNCHANGED calls

\* Calls go on by themselves; nothing is assumed of processes and of the guest.
Spec == Init /\ [][Next]_vars /\ \A c \in Callers : WF_vars(CallStep(c))

-----------------------------------------------------------------------------
(* Properties.                                                             *)

\* Every variable keeps its type; what runs or is in the table was launched.
TypeOK ==
    /\ sessionMap \in [Sids -> Sessions \cup {NoSession}]
    /\ proc \in [Pids -> Processes \cup {NoProcess}]
    /\ alive \subseteq Pids /\ term \subseteq Pids /\ active \subseteq Pids
    /\ \A p \in alive \cup active : proc[p] # NoProcess
    /\ \A c \in Callers : call[c].todo \subseteq Pids /\ call[c].proc \in Pids \cup {NoProcess}
    /\ sup \in [Pids -> Supervisions \cup {NoSession}]
    /\ host \in BOOLEAN /\ listener \in Sids \cup {NoSession} /\ requests \subseteq Envs

\* A process that runs is in activeProcesses: stopForEnvironment, which knows
\* no other list, forgets no process that still runs, however starts, stops,
\* cancellations and their time limits overlap.  The exception is a PTY shell
\* within the 200 ms of its close(): a second stop does not wait for it and
\* drops its handle, and then its closer is still there to kill it.
LiveIsTracked ==
    \A p \in alive \ active :
        /\ proc[p].kind = "closed"
        /\ \E c \in Callers : Pc(c) = "closing" /\ call[c].proc = p

\* The states that only a call in progress writes and must lead out of.
Transient ==
    {"STARTING", "STARTING_RUNTIME", "CLI_STARTING", "GUEST_READY", "STARTING_COMPOSITOR",
     "LDDM_STARTING", "STOPPING"}

InFlight(s) == \E c \in Callers : Pc(c) # "idle" /\ call[c].sid = s

\* A session is in a transient state only while a start or a stop of that very
\* session is in progress: failures, cancellations and races between calls
\* that write their own copies never leave one STARTING or STOPPING for good.
TransientIsOwned ==
    \A s \in Sids : Stored(s) /\ sessionMap[s].state \in Transient => InFlight(s)

\* A GUI session that is up and has no call in progress is supervised: what
\* LDDM reports about a crash or a recovery reaches the session.
SupervisedWhileUp ==
    \A s \in Sids : IsActive(s) /\ sessionMap[s].mode = "GUI" /\ ~InFlight(s)
                        => \E p \in Pids : sup[p] # NoSession /\ sup[p].sid = s

\* While the GUI host runs, its launcher is connected, but for a start that is
\* about to connect it or a stop about to stop the host: with several calls at
\* once no order of the two pairs of steps leaves a desktop whose launcher does
\* nothing.
LauncherConnected ==
    host /\ listener = NoSession => \E c \in Callers : Pc(c) \in {"listen", "stopHost"}

\* An ended session becomes active again only through a start of it that is
\* still in progress, a supervision that read it before it ended, or a stop.
EndedStaysEnded ==
    [][\A s \in Sids :
          Stored(s) /\ ~IsActive(s) /\ IsActive(s)'
              => \/ \E c \in Callers : call[c].op \in {"start", "shell"} /\ call[c].sid = s
                 \/ \E p \in Pids : HasRead(p) /\ sup[p].sid = s
                                           /\ sup[p].seen.state \in ActiveStates \ {"STOPPING"}
                 \/ sessionMap'[s].state = "STOPPING"]_vars

\* stopSession returns although a process ignores SIGTERM, as PRoot does: two
\* seconds later stopForEnvironment is to escalate to SIGKILL.
StopReturns == \A c \in Callers : (call[c].op = "stop") ~> Pc(c) = "idle"
=============================================================================
