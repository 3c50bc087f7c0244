------------------------- MODULE SessionManagerProofs -------------------------
(* Proofs about SessionManager, for any number of calls, sessions and      *)
(* processes.                                                              *)
EXTENDS SessionManager, TLAPS

-----------------------------------------------------------------------------
(* The inductive invariants.                                               *)

\* Where a start and a stop can be.
StartLabels ==
    {"verify", "prepare", "probeWait", "cli", "gui", "host", "listen", "desktop", "lddm",
     "await", "failed", "cancelled"}
AfterLabels == {"teardown", "teardownCancelled", "shell", "opened"}
StopLabels ==
    {"stopping", "stopServices", "stopHost", "stopRuntime", "loop", "kill", "closing", "gone"}
Labels == StartLabels \cup AfterLabels \cup StopLabels \cup {"idle"}

\* What awaitGraphicalSessionReadiness finds.
Watched == Observable \ {"STOPPED"}

AnyEnv == CHOOSE e \in Envs : TRUE

Calls ==
    [pc : Labels, op : {"none", "start", "shell", "stop", "close"}, env : Envs \cup {AnyEnv},
     mode : Modes, sid : Sids \cup {NoSession}, state : Watched,
     proc : Pids \cup {NoProcess}, todo : SUBSET Pids]

\* A call has what the place it is at needs.
CallInOrder(k) ==
    /\ k.pc # "idle" => k.env \in Envs
    /\ k.pc \in StartLabels \cup AfterLabels => k.op \in {"start", "shell"}
    /\ k.pc \in StartLabels \cup AfterLabels \cup {"stopping", "stopServices", "stopHost"} => k.sid \in Sids
    /\ k.pc \in {"probeWait", "await", "kill", "closing", "gone"} => k.proc \in Pids
    /\ k.pc = "cli" => k.mode = "CLI"
    /\ k.pc = "stopping" => k.op = "stop"

CallsInOrder == call \in [Callers -> Calls] /\ \A c \in Callers : CallInOrder(call[c])

\* Sessions are never taken out of the map: a call past its first write, the
\* launcher and supervision refer to one that is stored.
Kept ==
    /\ \A c \in Callers : Pc(c) \notin {"idle", "verify"} /\ call[c].sid # NoSession => Stored(call[c].sid)
    /\ listener # NoSession => Stored(listener)
    /\ \A p \in Pids : sup[p] # NoSession => Stored(sup[p].sid)
    /\ \A p \in Pids : HasRead(p) => sup[p].seen.state \in ActiveStates \ {"STOPPING"}

TypeInv == TypeOK /\ CallsInOrder /\ Kept

\* A call that will still write its session before it returns: a start past
\* its first write and before its last, a stop.
Writing(k) ==
    \/ k.pc \in StartLabels \ {"verify"}
    \/ k.op = "stop" /\ k.sid # NoSession /\ k.pc \in StopLabels

Attended(s) == \E c \in Callers : Writing(call[c]) /\ call[c].sid = s
Supervised(s) == \E p \in Pids : sup[p] # NoSession /\ sup[p].sid = s

\* A transient state is left by the call that attends to the session, and a
\* GUI session that is up is attended to or supervised.
TransientAttended ==
    \A s \in Sids : Stored(s) /\ sessionMap[s].state \in Transient => Attended(s)
UpAttended ==
    \A s \in Sids : IsActive(s) /\ sessionMap[s].mode = "GUI" => Supervised(s) \/ Attended(s)

\* A start waits for an LDDM of its own, which nobody supervises yet.
AwaitsOwn ==
    \A c \in Callers : Pc(c) = "await" =>
        /\ sup[call[c].proc] = NoSession
        /\ \A d \in Callers \ {c} : Pc(d) = "await" => call[d].proc # call[c].proc

SessionInv == TypeInv /\ TransientAttended /\ UpAttended /\ AwaitsOwn

-----------------------------------------------------------------------------
(* Types.                                                                  *)

\* What a step makes of the caller's record.
LEMMA IdleIsCall == Idle \in Calls /\ CallInOrder(Idle) /\ Idle.pc = "idle"
BY DEF Idle, Calls, CallInOrder, Labels, Modes, Watched, Observable, AnyEnv, StartLabels,
       AfterLabels

LEMMA Returns ==
    ASSUME CallsInOrder, NEW c \in Callers, Return(c)
    PROVE  /\ CallsInOrder'
           /\ call'[c] = Idle /\ Pc(c)' = "idle"
           /\ \A d \in Callers \ {c} : call'[d] = call[d]
<1>1. /\ call' \in [Callers -> Calls] /\ call'[c] = Idle
      /\ \A d \in Callers \ {c} : call'[d] = call[d]
  BY IdleIsCall DEF CallsInOrder, Return
<1> QED BY <1>1, IdleIsCall DEF CallsInOrder, Pc

LEMMA Goes ==
    ASSUME CallsInOrder, NEW c \in Callers, NEW l \in Labels, Goto(c, l)
    PROVE  /\ call' \in [Callers -> Calls]
           /\ call'[c] = [call[c] EXCEPT !.pc = l] /\ Pc(c)' = l
           /\ call'[c].sid = call[c].sid /\ call'[c].op = call[c].op /\ call'[c].proc = call[c].proc
           /\ \A d \in Callers \ {c} : call'[d] = call[d]
<1> DEFINE k == [call[c] EXCEPT !.pc = l]
<1>1. /\ k \in Calls /\ k.pc = l
      /\ k.sid = call[c].sid /\ k.op = call[c].op /\ k.proc = call[c].proc
  BY DEF CallsInOrder, Calls
<1>2. call' = [call EXCEPT ![c] = k]
  BY DEF Goto, CallsInOrder
<1>3. call'[c] = k /\ call' \in [Callers -> Calls] /\ \A d \in Callers \ {c} : call'[d] = call[d]
  <2> HIDE DEF k
  <2> QED BY <1>1, <1>2 DEF CallsInOrder
<1> QED BY <1>1, <1>3 DEF Pc

\* sessionMap[sessionId] = copy
LEMMA Stores ==
    ASSUME TypeOK, CallsInOrder, NEW c \in Callers, Pc(c) # "idle", call[c].sid \in Sids,
           NEW st \in States, Write(c, st)
    PROVE  /\ sessionMap' \in [Sids -> Sessions \cup {NoSession}]
           /\ sessionMap'[call[c].sid] = [env |-> call[c].env, mode |-> call[c].mode, state |-> st]
           /\ sessionMap'[call[c].sid] \in Sessions
           /\ \A s \in Sids \ {call[c].sid} : sessionMap'[s] = sessionMap[s]
<1>1. [env |-> call[c].env, mode |-> call[c].mode, state |-> st] \in Sessions
  BY DEF CallsInOrder, CallInOrder, Calls, Sessions, Pc
<1> QED BY <1>1 DEF Write, TypeOK

\* A call moves on within a start, or within a stop.
LEMMA GoesInOrder ==
    ASSUME CallsInOrder, NEW c \in Callers, NEW l \in Labels, Goto(c, l), Pc(c) # "idle",
           l \notin {"probeWait", "await", "kill", "closing", "gone", "cli", "stopping"},
           l \in StartLabels => Pc(c) \in StartLabels,
           l \in AfterLabels => Pc(c) \in StartLabels \cup AfterLabels,
           l \in {"stopServices", "stopHost"} =>
               Pc(c) \in StartLabels \cup AfterLabels \cup {"stopping", "stopServices"}
    PROVE  CallsInOrder'
<1>1. CallInOrder([call[c] EXCEPT !.pc = l])
  BY DEF CallsInOrder, CallInOrder, Calls, Pc
<1> QED BY <1>1, Goes DEF CallsInOrder

\* A call begins.
LEMMA Begins ==
    ASSUME CallsInOrder, NEW c \in Callers, NEW op \in {"start", "shell", "stop", "close"}, NEW e \in Envs,
           NEW mode \in Modes, NEW s \in Sids \cup {NoSession},
           NEW l \in {"verify", "shell", "stopping", "stopRuntime", "closing"},
           NEW p \in Pids \cup {NoProcess},
           s \in Sids \/ l \in {"stopRuntime", "closing"}, p \in Pids \/ l # "closing",
           op \in {"start", "shell"} \/ l \in StopLabels, op = "stop" \/ l # "stopping",
           Begin(c, op, e, mode, s, l, p)
    PROVE  /\ CallsInOrder' /\ Pc(c) = "idle"
           /\ call'[c].pc = l /\ call'[c].op = op /\ call'[c].sid = s /\ call'[c].proc = p
           /\ call'[c].todo = {}
           /\ \A d \in Callers \ {c} : call'[d] = call[d]
<1> DEFINE k == [Idle EXCEPT !.pc = l, !.op = op, !.env = e, !.mode = mode, !.sid = s, !.proc = p]
<1>1. k \in Calls /\ CallInOrder(k)
  BY DEF Idle, Calls, CallInOrder, Labels, Watched, Observable, StartLabels, AfterLabels,
         StopLabels
<1>2. call' = [call EXCEPT ![c] = k] /\ Pc(c) = "idle"
  BY DEF Begin
<1>3. k.pc = l /\ k.op = op /\ k.sid = s /\ k.proc = p /\ k.todo = {}
  BY DEF Idle
<1> HIDE DEF k
<1>4. call'[c] = k /\ call' \in [Callers -> Calls] /\ \A d \in Callers \ {c} : call'[d] = call[d]
  BY <1>1, <1>2 DEF CallsInOrder
<1> QED BY <1>1, <1>2, <1>3, <1>4 DEF CallsInOrder

\* A process is launched for a call.
LEMMA Launches ==
    ASSUME TypeOK, CallsInOrder, NEW c \in Callers, Pc(c) # "idle",
           NEW kind \in {"probe", "lddm", "shell"}, NEW l \in {"probeWait", "await", "opened"},
           Pc(c) \in StartLabels \/ (l = "opened" /\ Pc(c) \in AfterLabels),
           Launch(c, kind, l)
    PROVE  /\ CallsInOrder'
           /\ Pc(c)' = l /\ call'[c].sid = call[c].sid /\ call'[c].op = call[c].op
           /\ \A d \in Callers \ {c} : call'[d] = call[d]
           /\ proc' \in [Pids -> Processes \cup {NoProcess}]
           /\ \E p \in Pids : /\ Unused(p) /\ call'[c].proc = p /\ alive' = alive \cup {p}
                              /\ active' = active \cup {p} /\ proc'[p] # NoProcess
                              /\ \A q \in Pids \ {p} : proc'[q] = proc[q]
           /\ term' = term
<1>1. PICK p \in Pids : /\ Unused(p)
                        /\ proc' = [proc EXCEPT ![p] = [env |-> call[c].env, kind |-> kind]]
                        /\ alive' = alive \cup {p} /\ active' = active \cup {p}
                        /\ call' = [call EXCEPT ![c].proc = p, ![c].pc = l]
                        /\ term' = term
  BY DEF Launch
<1>2. [env |-> call[c].env, kind |-> kind] \in Processes
  BY DEF CallsInOrder, CallInOrder, Processes, Pc
<1>3. /\ proc' \in [Pids -> Processes \cup {NoProcess}] /\ proc'[p] # NoProcess
      /\ \A q \in Pids \ {p} : proc'[q] = proc[q]
  BY <1>1, <1>2, SessionAssumption DEF TypeOK
<1> DEFINE k == [call[c] EXCEPT !.pc = l, !.proc = p]
<1>4. k \in Calls /\ CallInOrder(k)
  <2>1. l \in Labels
    BY DEF Labels, StartLabels, AfterLabels
  <2>2. call[c] \in Calls /\ CallInOrder(call[c])
    BY DEF CallsInOrder
  <2>3. k \in Calls
    BY <2>1, <2>2 DEF Calls
  <2>4. k.pc = l /\ k.proc = p /\ k.env = call[c].env /\ k.op = call[c].op /\ k.sid = call[c].sid
    BY <2>2 DEF Calls
  <2> QED BY <2>2, <2>3, <2>4 DEF CallInOrder, Pc, StartLabels, AfterLabels, StopLabels
<1>5. call' = [call EXCEPT ![c] = k]
  BY <1>1 DEF CallsInOrder, Calls
<1>6. k.proc = p /\ k.pc = l /\ k.sid = call[c].sid /\ k.op = call[c].op
  BY DEF CallsInOrder, Calls
<1>7. call'[c] = k /\ call' \in [Callers -> Calls] /\ \A d \in Callers \ {c} : call'[d] = call[d]
  <2> HIDE DEF k
  <2> QED BY <1>4, <1>5 DEF CallsInOrder
<1>8. CallsInOrder'
  <2> HIDE DEF k
  <2> QED BY <1>4, <1>7 DEF CallsInOrder
<1> QED BY <1>1, <1>3, <1>6, <1>7, <1>8 DEF Pc

\* The parts of the types that are not about the callers.
TablesOK ==
    /\ proc \in [Pids -> Processes \cup {NoProcess}]
    /\ alive \subseteq Pids /\ term \subseteq Pids /\ active \subseteq Pids
    /\ \A p \in alive \cup active : proc[p] # NoProcess
MapOK == sessionMap \in [Sids -> Sessions \cup {NoSession}]
SupOK == sup \in [Pids -> Supervisions \cup {NoSession}]
DisplayOK == host \in BOOLEAN /\ listener \in Sids \cup {NoSession} /\ requests \subseteq Envs

LEMMA TypeParts ==
    CallsInOrder => (TypeOK <=> TablesOK /\ MapOK /\ SupOK /\ DisplayOK)
BY DEF CallsInOrder, Calls, TypeOK, TablesOK, MapOK, SupOK, DisplayOK

\* The caller's copy of a session stays one of the map.
Keeps ==
    /\ \A s \in Sids : Stored(s) => Stored(s)'
    /\ \A c \in Callers :
          \/ Pc(c)' \in {"idle", "verify"}
          \/ call'[c].sid = NoSession
          \/ call'[c].sid \in Sids /\ Stored(call[c].sid)'
          \/ call'[c].sid = call[c].sid /\ Pc(c) \notin {"idle", "verify"}

LEMMA KeptStep ==
    ASSUME TypeInv, Keeps, sup' = sup, listener' \in {listener, NoSession}
    PROVE  Kept'
<1>1. \A c \in Callers : call[c].sid \in Sids \cup {NoSession}
  BY DEF TypeInv, CallsInOrder, Calls
<1>2. listener \in Sids \cup {NoSession} /\ \A p \in Pids : sup[p] # NoSession => sup[p].sid \in Sids
  BY DEF TypeInv, TypeOK, Supervisions
<1>3. ASSUME NEW c \in Callers, Pc(c)' \notin {"idle", "verify"}, call'[c].sid # NoSession
      PROVE  Stored(call[c].sid)'
  BY <1>1, <1>3 DEF TypeInv, Keeps, Kept, Stored
<1>4. (listener # NoSession => Stored(listener))'
  BY <1>2 DEF TypeInv, Keeps, Kept, Stored
<1>5. ASSUME NEW p \in Pids, sup'[p] # NoSession PROVE Stored(sup[p].sid)'
  BY <1>2, <1>5 DEF TypeInv, Keeps, Kept, Stored
<1> QED BY <1>3, <1>4, <1>5 DEF TypeInv, Kept, HasRead

\* A call writes its copy of the session, or leaves the map alone.
Writes(c) ==
    \/ UNCHANGED sessionMap
    \/ call[c].sid \in Sids /\ \E st \in States : Write(c, st)

LEMMA WritesKeep ==
    ASSUME TypeInv, NEW c \in Callers, Pc(c) # "idle", Writes(c)
    PROVE  /\ MapOK' /\ (\A s \in Sids : Stored(s) => Stored(s)')
           /\ sessionMap' # sessionMap => sessionMap'[call[c].sid] \in Sessions
<1>1. CASE UNCHANGED sessionMap
  BY <1>1 DEF TypeInv, TypeOK, MapOK, Stored
<1>2. ASSUME call[c].sid \in Sids, NEW st \in States, Write(c, st)
      PROVE  /\ MapOK' /\ sessionMap'[call[c].sid] \in Sessions
             /\ \A s \in Sids : Stored(s) => Stored(s)'
  <2>1. /\ sessionMap' \in [Sids -> Sessions \cup {NoSession}] /\ sessionMap'[call[c].sid] \in Sessions
        /\ \A s \in Sids \ {call[c].sid} : sessionMap'[s] = sessionMap[s]
    BY <1>2, Stores DEF TypeInv
  <2>2. sessionMap'[call[c].sid] # NoSession
    BY <2>1, SessionAssumption
  <2> QED BY <2>1, <2>2 DEF MapOK, Stored
<1> QED BY <1>1, <1>2 DEF Writes

\* A call goes on, or ends, with or without such a write.
LEMMA MovesOn ==
    ASSUME TypeInv, NEW c \in Callers, NEW l \in Labels, Goto(c, l), Pc(c) # "idle",
           l \notin {"probeWait", "await", "kill", "closing", "gone", "cli", "stopping"},
           l \in StartLabels => Pc(c) \in StartLabels,
           l \in AfterLabels => Pc(c) \in StartLabels \cup AfterLabels,
           l \in {"stopServices", "stopHost"} =>
               Pc(c) \in StartLabels \cup AfterLabels \cup {"stopping", "stopServices"},
           Writes(c), Pc(c) = "verify" => \E st \in States : Write(c, st),
           UNCHANGED <<tables, sup, requests>>, host' \in BOOLEAN, listener' \in {listener, NoSession}
    PROVE  TypeInv'
<1>1. CallsInOrder'
  BY GoesInOrder DEF TypeInv
<1>2. MapOK' /\ \A s \in Sids : Stored(s) => Stored(s)'
  BY WritesKeep
<1>3. call'[c].sid = call[c].sid /\ \A d \in Callers \ {c} : call'[d] = call[d]
  BY Goes DEF TypeInv
<1>4. Pc(c) = "verify" => call[c].sid \in Sids /\ Stored(call[c].sid)'
  <2>1. Pc(c) = "verify" => call[c].sid \in Sids
    BY DEF TypeInv, CallsInOrder, CallInOrder, Pc, StartLabels
  <2>2. ASSUME Pc(c) = "verify" PROVE sessionMap'[call[c].sid] # NoSession
    <3>1. sessionMap'[call[c].sid] \in Sessions
      BY <2>1, <2>2, Stores DEF TypeInv
    <3> QED BY <3>1, SessionAssumption
  <2> QED BY <1>3, <2>1, <2>2 DEF Stored
<1>5. Keeps
  BY <1>2, <1>3, <1>4 DEF Keeps, TypeInv, Kept, Pc, Stored, CallsInOrder, Calls
<1>6. Kept'
  BY <1>5, KeptStep
<1>7. TypeOK'
  BY <1>1, <1>2 DEF TypeInv, TypeOK, MapOK, CallsInOrder, Calls, tables
<1> QED BY <1>1, <1>6, <1>7 DEF TypeInv

LEMMA MovesBack ==
    ASSUME TypeInv, NEW c \in Callers, Return(c), Pc(c) # "idle", Writes(c),
           UNCHANGED <<tables, sup, requests>>, host' \in BOOLEAN, listener' \in {listener, NoSession}
    PROVE  TypeInv'
<1>1. CallsInOrder' /\ Pc(c)' = "idle" /\ \A d \in Callers \ {c} : call'[d] = call[d]
  BY Returns DEF TypeInv
<1>2. MapOK' /\ \A s \in Sids : Stored(s) => Stored(s)'
  BY WritesKeep
<1>3. Keeps
  BY <1>1, <1>2 DEF Keeps, TypeInv, Kept, Pc, Stored, CallsInOrder, Calls
<1>4. Kept'
  BY <1>3, KeptStep
<1>5. TypeOK'
  BY <1>1, <1>2 DEF TypeInv, TypeOK, MapOK, CallsInOrder, Calls, tables
<1> QED BY <1>1, <1>4, <1>5 DEF TypeInv

LEMMA ReadinessWatched ==
    ASSUME NEW st \in Watched, NEW report \in Reports, NEW files
    PROVE  Readiness(st, report, files) \in Watched
BY SessionAssumption DEF Readiness, Watched, Reports, Observable

\* The steps of a call that move it and write the map, no more.
Walk(c) ==
    \/ VerifyFails(c) \/ Register(c) \/ PrepareFails(c) \/ CliReady(c) \/ StartThrows(c)
    \/ StartCompositor(c) \/ StartHost(c) \/ StartLddm(c) \/ ShellReturns(c)
    \/ CancelStart(c) \/ StartFails(c) \/ TearDown(c) \/ StoreStopping(c) \/ DisconnectLauncher(c)
    \/ StopHost(c) \/ Stopped(c)

LEMMA WalkGoes ==
    ASSUME NEW c, Walk(c)
    PROVE  Return(c) \/ \E l \in Labels \ {"await", "gone"} : Goto(c, l)
BY DEF Walk, VerifyFails, Register, PrepareFails, CliReady, StartThrows, StartCompositor, StartHost,
       StartLddm, ShellReturns, CancelStart, StartFails, TearDown, StoreStopping, DisconnectLauncher,
       StopHost, Stopped, Labels, StartLabels, AfterLabels, StopLabels

LEMMA WalkTypes ==
    ASSUME TypeInv, NEW c \in Callers, Walk(c)
    PROVE  TypeInv'
<1>0. call[c].sid \in Sids \cup {NoSession} /\ host \in BOOLEAN
  BY DEF TypeInv, TypeOK, CallsInOrder, Calls
<1>1. Pc(c) \in StartLabels \cup AfterLabels \cup {"stopping", "stopServices", "stopHost"}
        => call[c].sid \in Sids
  BY DEF TypeInv, CallsInOrder, CallInOrder, Pc
<1> USE <1>0, <1>1 DEF Writes, Labels, StartLabels, AfterLabels, StopLabels, States, ActiveStates,
                      EndedStates, display
<1>2. CASE VerifyFails(c) \/ ShellReturns(c)
  BY <1>2, MovesBack DEF VerifyFails, ShellReturns
<1>3. CASE Register(c)
  BY <1>3, MovesOn DEF Register
<1>4. CASE PrepareFails(c) \/ StartThrows(c)
  BY <1>4, MovesOn DEF PrepareFails, StartThrows
<1>5. CASE CliReady(c)
  BY <1>5, MovesOn, MovesBack DEF CliReady
<1>6. CASE StartCompositor(c)
  BY <1>6, MovesOn DEF StartCompositor
<1>7. CASE StartHost(c)
  BY <1>7, MovesOn DEF StartHost
<1>8. CASE StartLddm(c)
  BY <1>8, MovesOn DEF StartLddm
<1>9. CASE CancelStart(c)
  BY <1>9, MovesOn DEF CancelStart
<1>10. CASE StartFails(c)
  BY <1>10, MovesOn DEF StartFails
<1>11. CASE TearDown(c)
  BY <1>11, MovesOn, MovesBack DEF TearDown
<1>12. CASE DisconnectLauncher(c)
  BY <1>12, MovesOn DEF DisconnectLauncher
<1>13. CASE StopHost(c)
  BY <1>13, MovesOn DEF StopHost
<1>14. CASE Stopped(c)
  BY <1>14, MovesBack DEF Stopped
<1>15. CASE StoreStopping(c)
  BY <1>15, MovesOn DEF StoreStopping
<1> QED BY <1>2, <1>3, <1>4, <1>5, <1>6, <1>7, <1>8, <1>9, <1>10, <1>11,
          <1>12, <1>13, <1>14, <1>15 DEF Walk

\* Launches.
LEMMA LaunchTypes ==
    ASSUME TypeInv, NEW c \in Callers, NEW kind \in {"probe", "lddm", "shell"},
           NEW l \in {"probeWait", "await", "opened"}, Launch(c, kind, l),
           Pc(c) \in StartLabels \ {"verify"} \/ (l = "opened" /\ Pc(c) \in AfterLabels),
           UNCHANGED <<sessionMap, sup, display>>
    PROVE  TypeInv'
<1>1. TypeOK /\ CallsInOrder /\ Pc(c) \notin {"idle", "verify"}
  BY DEF TypeInv, StartLabels, AfterLabels
<1>2. /\ CallsInOrder' /\ call'[c].sid = call[c].sid
      /\ \A d \in Callers \ {c} : call'[d] = call[d]
  BY <1>1, Launches
<1>3. PICK p \in Pids : /\ alive' = alive \cup {p} /\ active' = active \cup {p} /\ proc'[p] # NoProcess
                        /\ \A q \in Pids \ {p} : proc'[q] = proc[q]
  BY <1>1, Launches
<1>4. proc' \in [Pids -> Processes \cup {NoProcess}] /\ term' = term
  BY <1>1, Launches
<1>5. TablesOK'
  BY <1>1, <1>3, <1>4 DEF TypeOK, TablesOK
<1>6. TypeOK'
  BY <1>1, <1>2, <1>5 DEF TypeOK, TablesOK, CallsInOrder, Calls, display
<1>7. Keeps
  BY <1>1, <1>2 DEF Keeps, TypeInv, Kept, Pc, Stored, CallsInOrder, Calls
<1> QED BY <1>2, <1>6, <1>7, KeptStep DEF TypeInv, display

\* A process leaves the table.
LEMMA RemoveTypes ==
    ASSUME TablesOK, NEW p \in Pids, Remove(p)
    PROVE  TablesOK'
BY DEF TablesOK, Remove, Forget

\* Supervision starts and the call returns.
LEMMA SuperviseTypes ==
    ASSUME TypeInv, NEW c \in Callers, Pc(c) = "await", NEW st \in States, Write(c, st), Supervise(c),
           UNCHANGED <<tables, display>>
    PROVE  TypeInv'
<1>1. TypeOK /\ CallsInOrder /\ call[c].sid \in Sids /\ call[c].proc \in Pids
  BY DEF TypeInv, CallsInOrder, CallInOrder, Pc, StartLabels
<1>2. CallsInOrder' /\ Pc(c)' = "idle" /\ \A d \in Callers \ {c} : call'[d] = call[d]
  BY <1>1, Returns DEF Supervise
<1>3. MapOK' /\ (\A s \in Sids : Stored(s) => Stored(s)') /\ sessionMap'[call[c].sid] # NoSession
  <2>1. MapOK' /\ \A s \in Sids : Stored(s) => Stored(s)'
    BY <1>1, WritesKeep DEF Writes
  <2>2. sessionMap'[call[c].sid] \in Sessions
    BY <1>1, Stores
  <2> QED BY <2>1, <2>2, SessionAssumption
<1>4. SupOK' /\ sup'[call[c].proc] = [sid |-> call[c].sid, seen |-> NoSession]
      /\ \A p \in Pids \ {call[c].proc} : sup'[p] = sup[p]
  BY <1>1 DEF Supervise, TypeOK, SupOK, Supervisions
<1>5. TypeOK'
  BY <1>1, <1>2, <1>3, <1>4 DEF TypeOK, MapOK, SupOK, CallsInOrder, Calls, tables, display
<1>6. Kept'
  <2>1. \A d \in Callers : call[d].sid \in Sids \cup {NoSession}
    BY <1>1 DEF CallsInOrder, Calls
  <2>2. listener \in Sids \cup {NoSession} /\ \A p \in Pids : sup[p] # NoSession => sup[p].sid \in Sids
    BY <1>1 DEF TypeOK, Supervisions
  <2>3. \A p \in Pids : (sup[p] # NoSession => Stored(sup[p].sid))'
    BY <1>3, <1>4, <2>2 DEF TypeInv, Kept, Stored
  <2>4. \A p \in Pids : (HasRead(p) => sup[p].seen.state \in ActiveStates \ {"STOPPING"})'
    BY <1>4 DEF TypeInv, Kept, HasRead
  <2>5. (listener # NoSession => Stored(listener))'
    BY <1>3, <2>2 DEF TypeInv, Kept, Stored, display
  <2>6. \A d \in Callers : (Pc(d) \notin {"idle", "verify"} /\ call[d].sid # NoSession => Stored(call[d].sid))'
    BY <1>2, <1>3, <2>1 DEF TypeInv, Kept, Stored, Pc
  <2> QED BY <2>3, <2>4, <2>5, <2>6 DEF Kept
<1> QED BY <1>2, <1>5, <1>6 DEF TypeInv

\* A call's record is replaced by another one in order.
LEMMA Sets ==
    ASSUME CallsInOrder, NEW c \in Callers, NEW k \in Calls, CallInOrder(k),
           call' = [call EXCEPT ![c] = k]
    PROVE  CallsInOrder' /\ call'[c] = k /\ \A d \in Callers \ {c} : call'[d] = call[d]
BY DEF CallsInOrder

\* The call goes to l with these processes, its session stays.
Takes(c, l, p, todo) ==
    /\ CallsInOrder'
    /\ Pc(c)' = l /\ call'[c].proc = p /\ call'[c].todo = todo
    /\ call'[c].sid = call[c].sid /\ call'[c].op = call[c].op
    /\ \A d \in Callers \ {c} : call'[d] = call[d]

LEMMA TakesWhen ==
    ASSUME CallsInOrder, NEW c \in Callers, Pc(c) # "idle", NEW l \in Labels,
           NEW p \in Pids \cup {NoProcess}, NEW todo \in SUBSET Pids,
           l \notin {"probeWait", "await", "stopping", "stopServices", "stopHost"} \cup AfterLabels,
           l \in StartLabels => Pc(c) \in StartLabels,
           l \in {"kill", "closing", "gone"} => p \in Pids,
           l = "cli" => call[c].mode = "CLI",
           call' = [call EXCEPT ![c] = [call[c] EXCEPT !.pc = l, !.proc = p, !.todo = todo]]
    PROVE  Takes(c, l, p, todo)
<1> DEFINE k == [call[c] EXCEPT !.pc = l, !.proc = p, !.todo = todo]
<1>1. call[c] \in Calls /\ CallInOrder(call[c])
  BY DEF CallsInOrder
<1>2. /\ k \in Calls /\ k.pc = l /\ k.proc = p /\ k.todo = todo /\ k.env = call[c].env
      /\ k.sid = call[c].sid /\ k.op = call[c].op /\ k.mode = call[c].mode
  BY <1>1 DEF Calls
<1>3. CallInOrder(k)
  <2> HIDE DEF k
  <2> QED BY <1>1, <1>2 DEF CallInOrder, Pc, StartLabels, AfterLabels
<1>4. CallsInOrder' /\ call'[c] = k /\ \A d \in Callers \ {c} : call'[d] = call[d]
  <2>1. call' = [call EXCEPT ![c] = k]
    OBVIOUS
  <2> HIDE DEF k
  <2> QED BY <1>2, <1>3, <2>1, Sets
<1> HIDE DEF k
<1> QED BY <1>2, <1>4 DEF Takes, Pc

\* Such a step keeps the types if the table does.
LEMMA TakesTypes ==
    ASSUME TypeInv, NEW c \in Callers, Pc(c) \notin {"idle", "verify"}, NEW l, NEW p, NEW todo,
           Takes(c, l, p, todo), Writes(c), TablesOK', UNCHANGED <<sup, display>>
    PROVE  TypeInv'
<1>1. MapOK' /\ \A s \in Sids : Stored(s) => Stored(s)'
  BY WritesKeep
<1>2. Keeps
  BY <1>1 DEF Keeps, Takes, TypeInv, Kept, Pc, Stored, CallsInOrder, Calls
<1>3. TypeOK'
  BY <1>1 DEF Takes, TypeInv, TypeOK, MapOK, TablesOK, CallsInOrder, Calls, display
<1> QED BY <1>2, <1>3, KeptStep DEF TypeInv, Takes, display

\* Which steps take a process out of the table, or go through the list of
\* those that are to be stopped.
LEMMA ProbeExitsTakes ==
    ASSUME TypeInv, NEW c \in Callers, ProbeExits(c)
    PROVE  /\ \E l \in {"cli", "gui", "failed"} : Takes(c, l, NoProcess, call[c].todo)
           /\ Writes(c) /\ call[c].proc \in Pids /\ Remove(call[c].proc)
<1>1. /\ call[c] \in Calls /\ CallsInOrder /\ call[c].sid \in Sids /\ call[c].proc \in Pids
      /\ call[c].todo \in SUBSET Pids /\ call[c].mode \in Modes
  BY DEF TypeInv, CallsInOrder, CallInOrder, Calls, ProbeExits, Pc, StartLabels
<1>2. PICK l \in {"cli", "gui", "failed"} :
          /\ call' = [call EXCEPT ![c].pc = l, ![c].proc = NoProcess]
          /\ l = "cli" => call[c].mode = "CLI"
  BY DEF ProbeExits
<1>3. call' = [call EXCEPT ![c] = [call[c] EXCEPT !.pc = l, !.proc = NoProcess, !.todo = call[c].todo]]
  BY <1>1, <1>2 DEF Calls, CallsInOrder
<1>4. Takes(c, l, NoProcess, call[c].todo)
  BY <1>1, <1>2, <1>3, TakesWhen DEF ProbeExits, Pc, Labels, StartLabels, AfterLabels
<1>5. Writes(c) /\ Remove(call[c].proc)
  BY <1>1 DEF ProbeExits, Writes, States, ActiveStates
<1> QED BY <1>1, <1>4, <1>5

LEMMA StopRuntimeTakes ==
    ASSUME TypeInv, NEW c \in Callers, StopRuntime(c)
    PROVE  Takes(c, "loop", NoProcess, OfEnv(call[c].env))
<1>1. call[c] \in Calls /\ CallsInOrder /\ OfEnv(call[c].env) \in SUBSET Pids
  BY DEF TypeInv, TypeOK, CallsInOrder, OfEnv
<1>2. call' = [call EXCEPT ![c] = [call[c] EXCEPT !.pc = "loop", !.proc = NoProcess,
                                                 !.todo = OfEnv(call[c].env)]]
  BY <1>1 DEF StopRuntime, Calls, CallsInOrder
<1> QED BY <1>1, <1>2, TakesWhen DEF StopRuntime, Pc, Labels, StartLabels, AfterLabels, StopLabels

LEMMA StopProcessTakes ==
    ASSUME TypeInv, NEW c \in Callers, StopProcess(c)
    PROVE  \E p \in Pids, l \in {"kill", "closing", "gone"} : Takes(c, l, p, call[c].todo)
<1>1. call[c] \in Calls /\ CallsInOrder /\ call[c].todo \in SUBSET Pids
  BY DEF TypeInv, CallsInOrder, Calls
<1>2. PICK p \in call[c].todo, l \in {"kill", "closing", "gone"} :
          call' = [call EXCEPT ![c].pc = l, ![c].proc = p]
  BY Zenon DEF StopProcess
<1>3. call' = [call EXCEPT ![c] = [call[c] EXCEPT !.pc = l, !.proc = p, !.todo = call[c].todo]]
  BY <1>1, <1>2 DEF Calls, CallsInOrder
<1>4. Takes(c, l, p, call[c].todo)
  BY <1>1, <1>2, <1>3, TakesWhen DEF StopProcess, Pc, Labels, StartLabels, AfterLabels, StopLabels
<1> QED BY <1>1, <1>4

\* The table, when a shell is closed or a process told to stop, and when a
\* shell is gone.
LEMMA ClosedTypes ==
    ASSUME TablesOK, NEW p \in alive, proc' = [proc EXCEPT ![p].kind = "closed"],
           UNCHANGED <<alive, active, term>>
    PROVE  TablesOK'
<1>1. proc[p] \in Processes
  BY DEF TablesOK
<1>2. [proc[p] EXCEPT !.kind = "closed"] \in Processes
  BY <1>1 DEF Processes
<1>3. proc' = [proc EXCEPT ![p] = [proc[p] EXCEPT !.kind = "closed"]]
  BY <1>1 DEF TablesOK
<1> QED BY <1>2, <1>3, SessionAssumption DEF TablesOK

LEMMA StopProcessTable ==
    ASSUME TypeInv, NEW c \in Callers, StopProcess(c)
    PROVE  TablesOK'
<1>0. TablesOK
  BY TypeParts DEF TypeInv
<1>1. CASE UNCHANGED proc
  <2>1. UNCHANGED <<alive, active>>
    BY DEF StopProcess
  <2>2. term' \subseteq term \cup alive
    BY DEF StopProcess
  <2> QED BY <1>0, <1>1, <2>1, <2>2 DEF TablesOK
<1>2. ASSUME NEW p \in alive, proc' = [proc EXCEPT ![p].kind = "closed"], UNCHANGED term
      PROVE  TablesOK'
  BY <1>0, <1>2, ClosedTypes DEF StopProcess
<1> QED BY <1>1, <1>2 DEF StopProcess

LEMMA ShellKilledTypes ==
    ASSUME TypeInv, NEW c \in Callers, ShellKilled(c)
    PROVE  /\ TablesOK' /\ call[c].proc \in Pids
           /\ IF call[c].op = "close" THEN Return(c)
              ELSE Takes(c, "gone", call[c].proc, call[c].todo)
<1>1. /\ call[c] \in Calls /\ CallsInOrder /\ call[c].proc \in Pids
      /\ call[c].todo \in SUBSET Pids /\ TablesOK
  BY TypeParts DEF TypeInv, CallsInOrder, CallInOrder, Calls, ShellKilled, Pc
<1>2. TablesOK'
  BY <1>1 DEF ShellKilled, Forget, TablesOK
<1>3. ASSUME Goto(c, "gone") PROVE Takes(c, "gone", call[c].proc, call[c].todo)
  <2>1. call' = [call EXCEPT ![c] = [call[c] EXCEPT !.pc = "gone", !.proc = call[c].proc,
                                                    !.todo = call[c].todo]]
    BY <1>1, <1>3 DEF Goto, Calls, CallsInOrder
  <2> QED BY <1>1, <2>1, TakesWhen DEF ShellKilled, Pc, Labels, StartLabels, AfterLabels, StopLabels
<1> QED BY <1>1, <1>2, <1>3 DEF ShellKilled

LEMMA ProcessStoppedTakes ==
    ASSUME TypeInv, NEW c \in Callers, ProcessStopped(c)
    PROVE  /\ Takes(c, "loop", NoProcess, call[c].todo \ {call[c].proc})
           /\ call[c].proc \in Pids /\ Remove(call[c].proc)
<1>1. /\ call[c] \in Calls /\ CallsInOrder /\ call[c].proc \in Pids
      /\ call[c].todo \ {call[c].proc} \in SUBSET Pids
  BY DEF TypeInv, CallsInOrder, CallInOrder, Calls, ProcessStopped, Pc
<1>2. call' = [call EXCEPT ![c] = [call[c] EXCEPT !.pc = "loop", !.proc = NoProcess,
                                                 !.todo = call[c].todo \ {call[c].proc}]]
  BY <1>1 DEF ProcessStopped, Calls, CallsInOrder
<1>3. Takes(c, "loop", NoProcess, call[c].todo \ {call[c].proc})
  BY <1>1, <1>2, TakesWhen
     DEF ProcessStopped, Pc, Labels, StartLabels, AfterLabels, StopLabels
<1> QED BY <1>1, <1>3 DEF ProcessStopped

\* A round of the readiness loop that goes on.
LEMMA AwaitGoesOn ==
    ASSUME TypeInv, NEW c \in Callers, Pc(c) = "await", NEW st \in Watched,
           call' = [call EXCEPT ![c].state = st]
    PROVE  Takes(c, "await", call[c].proc, call[c].todo)
<1> DEFINE k == [call[c] EXCEPT !.state = st]
<1>1. call[c] \in Calls /\ CallInOrder(call[c]) /\ CallsInOrder
  BY DEF TypeInv, CallsInOrder
<1>2. /\ k \in Calls /\ k.pc = "await" /\ k.proc = call[c].proc /\ k.todo = call[c].todo
      /\ k.env = call[c].env /\ k.sid = call[c].sid /\ k.op = call[c].op /\ k.mode = call[c].mode
  BY <1>1 DEF Calls, Pc
<1>3. call' = [call EXCEPT ![c] = k]
  BY <1>1 DEF Calls, CallsInOrder
<1> HIDE DEF k
<1>4. CallInOrder(k)
  BY <1>1, <1>2 DEF CallInOrder, Pc
<1>5. CallsInOrder' /\ call'[c] = k /\ \A d \in Callers \ {c} : call'[d] = call[d]
  BY <1>1, <1>2, <1>3, <1>4, Sets
<1> QED BY <1>2, <1>5 DEF Takes, Pc

\* What awaitGraphicalSessionReadiness does in a round.
LEMMA AwaitRound ==
    ASSUME TypeInv, NEW c \in Callers, AwaitReadiness(c)
    PROVE  \E st \in Watched :
              /\ Write(c, st)
              /\ \/ st = "GUI_READY" /\ Supervise(c)
                 \/ Takes(c, "await", call[c].proc, call[c].todo) /\ UNCHANGED sup
<1>1. call[c].state \in Watched /\ Pc(c) = "await"
  BY DEF TypeInv, CallsInOrder, Calls, AwaitReadiness
<1>2. PICK report \in Reports, files \in SUBSET Files :
          LET st == Readiness(call[c].state, report, files)
          IN  /\ Write(c, st)
              /\ IF st = "GUI_READY" THEN Supervise(c)
                 ELSE call' = [call EXCEPT ![c].state = st] /\ UNCHANGED sup
  BY DEF AwaitReadiness
<1> DEFINE st == Readiness(call[c].state, report, files)
<1>3. st \in Watched
  BY <1>1, ReadinessWatched
<1> HIDE DEF st
<1>4. /\ Write(c, st)
      /\ IF st = "GUI_READY" THEN Supervise(c)
         ELSE call' = [call EXCEPT ![c].state = st] /\ UNCHANGED sup
  BY <1>2 DEF st
<1> QED BY <1>1, <1>3, <1>4, AwaitGoesOn

\* Supervision reads and writes the session of its process.
LEMMA SupervisionTypes ==
    ASSUME TypeInv, NEW p \in Pids, SupervisorReads(p) \/ SupervisorWrites(p)
    PROVE  TypeInv'
<1>1. TypeOK /\ CallsInOrder /\ Kept /\ SupOK /\ MapOK
  BY TypeParts DEF TypeInv
<1>2. /\ sup[p] \in Supervisions /\ sup[p].sid \in Sids /\ sessionMap[sup[p].sid] \in Sessions
      /\ UNCHANGED <<call, tables, display>>
  BY <1>1 DEF SupervisorReads, SupervisorWrites, Asleep, HasRead, SupOK, MapOK, Supervisions, Kept,
              Stored
<1>3. /\ MapOK' /\ SupOK' /\ (\A s \in Sids : Stored(s) => Stored(s)')
      /\ \A q \in Pids \ {p} : sup'[q] = sup[q]
      /\ sup'[p] # NoSession => sup'[p].sid = sup[p].sid
      /\ HasRead(p)' => sup'[p].seen.state \in ActiveStates \ {"STOPPING"}
  <2>1. CASE SupervisorReads(p)
    <3> DEFINE current == sessionMap[sup[p].sid]
    <3>1. [sup[p] EXCEPT !.seen = current] \in Supervisions
      BY <1>2 DEF Supervisions
    <3>2. CASE current.state \in EndedStates \cup {"STOPPING"}
      BY <1>1, <1>2, <2>1, <3>2 DEF SupervisorReads, SupOK, MapOK, HasRead, Stored
    <3>3. CASE current.state \notin EndedStates \cup {"STOPPING"}
      <4>1. current.state \in ActiveStates \ {"STOPPING"}
        BY <1>2, <3>3 DEF Sessions, States
      <4>2. sup' = [sup EXCEPT ![p] = [sup[p] EXCEPT !.seen = current]] /\ UNCHANGED sessionMap
        BY <1>1, <1>2, <2>1, <3>3 DEF SupervisorReads, SupOK
      <4> QED BY <1>1, <1>2, <3>1, <4>1, <4>2 DEF SupOK, MapOK, HasRead, Stored, Supervisions
    <3> QED BY <3>2, <3>3
  <2>2. CASE SupervisorWrites(p)
    <3>1. PICK report \in Reports :
             IF report \in {"none", sup[p].seen.state}
             THEN sup' = [sup EXCEPT ![p].seen = NoSession] /\ UNCHANGED sessionMap
             ELSE /\ sessionMap' = [sessionMap EXCEPT ![sup[p].sid] = [sup[p].seen EXCEPT !.state = report]]
                  /\ IF report \in EndedStates
                     THEN sup' = [sup EXCEPT ![p] = NoSession]
                     ELSE sup' = [sup EXCEPT ![p].seen = NoSession]
      BY <2>2 DEF SupervisorWrites
    <3>2. sup[p].seen \in Sessions
      BY <1>2, <2>2 DEF SupervisorWrites, HasRead, Supervisions
    <3>3. report # "none" => [sup[p].seen EXCEPT !.state = report] \in Sessions
      BY <3>2, SessionAssumption DEF Reports, Observable, Sessions, States, ActiveStates, EndedStates
    <3>4. \/ sup' = [sup EXCEPT ![p] = NoSession]
          \/ sup' = [sup EXCEPT ![p] = [sup[p] EXCEPT !.seen = NoSession]]
      BY <1>1, <1>2, <3>1 DEF SupOK
    <3>5. [sup[p] EXCEPT !.seen = NoSession] \in Supervisions
      BY <1>2 DEF Supervisions
    <3>6. /\ SupOK' /\ (\A q \in Pids \ {p} : sup'[q] = sup[q])
          /\ (sup'[p] # NoSession => sup'[p].sid = sup[p].sid) /\ ~HasRead(p)'
      BY <1>1, <1>2, <3>4, <3>5 DEF SupOK, HasRead, Supervisions
    <3>7. MapOK' /\ \A s \in Sids : Stored(s) => Stored(s)'
      BY <1>1, <1>2, <3>1, <3>3, SessionAssumption DEF MapOK, Stored
    <3> QED BY <3>6, <3>7
  <2> QED BY <2>1, <2>2
<1>4. TypeOK'
  BY <1>1, <1>2, <1>3 DEF TypeOK, MapOK, SupOK, tables, display
<1>5. CallsInOrder'
  BY <1>1, <1>2 DEF CallsInOrder
<1>6. Kept'
  <2>1. \A q \in Pids : (sup[q] # NoSession => Stored(sup[q].sid))'
    <3>1. \A q \in Pids : sup'[q] # NoSession => sup[q] # NoSession /\ sup'[q].sid = sup[q].sid
      BY <1>2, <1>3, SessionAssumption
    <3>2. \A q \in Pids : sup[q] # NoSession => sup[q].sid \in Sids
      BY <1>1 DEF SupOK, Supervisions
    <3> QED BY <1>1, <1>3, <3>1, <3>2 DEF Kept, Stored
  <2>2. \A q \in Pids : (HasRead(q) => sup[q].seen.state \in ActiveStates \ {"STOPPING"})'
    BY <1>1, <1>3 DEF Kept, HasRead
  <2>3. \A d \in Callers : (Pc(d) \notin {"idle", "verify"} /\ call[d].sid # NoSession => Stored(call[d].sid))'
    BY <1>1, <1>2, <1>3 DEF Kept, Stored, Pc, CallsInOrder, Calls
  <2>4. (listener # NoSession => Stored(listener))'
    BY <1>1, <1>2, <1>3 DEF Kept, Stored, TypeOK, display
  <2> QED BY <2>1, <2>2, <2>3, <2>4 DEF Kept
<1> QED BY <1>4, <1>5, <1>6 DEF TypeInv

\* A call begins: a start, a shell, the stop of a session or of an environment.
Opens(c) ==
    \/ \E e \in Envs, mode \in Modes : StartSession(c, e, mode)
    \/ \E e \in Envs : StartShell(c, e) \/ StopEnvironment(c, e)
    \/ \E s \in Sids : StopSession(c, s)

LEMMA OpensWhen ==
    ASSUME TypeInv, NEW c \in Callers, Opens(c)
    PROVE  /\ CallsInOrder' /\ Pc(c) = "idle"
           /\ \A d \in Callers \ {c} : call'[d] = call[d]
           /\ \/ Pc(c)' = "verify" /\ call'[c].op \in {"start", "shell"}
              \/ Pc(c)' = "shell" /\ call'[c].sid \in Sids /\ Stored(call'[c].sid)
              \/ Pc(c)' = "stopRuntime" /\ call'[c].sid = NoSession
              \/ Pc(c)' = "stopping" /\ call'[c].sid \in Sids /\ Stored(call'[c].sid)
           /\ UNCHANGED <<sessionMap, tables, sup, display>>
<1>0. CallsInOrder
  BY DEF TypeInv
<1>1. ASSUME NEW e \in Envs, NEW mode \in Modes, NEW s \in Sids, NEW op \in {"start", "shell"},
             Begin(c, op, e, mode, s, "verify", NoProcess)
      PROVE  /\ CallsInOrder' /\ Pc(c) = "idle" /\ Pc(c)' = "verify" /\ call'[c].op = op
             /\ \A d \in Callers \ {c} : call'[d] = call[d]
  BY <1>0, <1>1, Begins DEF Pc
<1>2. ASSUME NEW e \in Envs, NEW s \in Sids, Begin(c, "shell", e, "CLI", s, "shell", NoProcess)
      PROVE  /\ CallsInOrder' /\ Pc(c) = "idle" /\ Pc(c)' = "shell" /\ call'[c].sid = s
             /\ \A d \in Callers \ {c} : call'[d] = call[d]
  BY <1>0, <1>2, Begins DEF Pc, Modes
<1>3. ASSUME NEW e \in Envs, Begin(c, "stop", e, "CLI", NoSession, "stopRuntime", NoProcess)
      PROVE  /\ CallsInOrder' /\ Pc(c) = "idle" /\ Pc(c)' = "stopRuntime" /\ call'[c].sid = NoSession
             /\ \A d \in Callers \ {c} : call'[d] = call[d]
  BY <1>0, <1>3, Begins DEF Pc, Modes, StopLabels
<1>4. ASSUME NEW e \in Envs, NEW s \in GetSession(e) PROVE Stored(s)
  BY <1>4 DEF GetSession, IsActive
<1>5. CASE \E e \in Envs, mode \in Modes : StartSession(c, e, mode)
  BY <1>1, <1>5 DEF StartSession
<1>6. CASE \E e \in Envs : StartShell(c, e)
  BY <1>1, <1>2, <1>4, <1>6 DEF StartShell, Modes
<1>7. CASE \E e \in Envs : StopEnvironment(c, e)
  BY <1>3, <1>7 DEF StopEnvironment
<1>8. ASSUME NEW s \in Sids, StopSession(c, s)
      PROVE  /\ CallsInOrder' /\ Pc(c) = "idle" /\ Pc(c)' = "stopping" /\ call'[c].sid = s /\ Stored(s)
             /\ \A d \in Callers \ {c} : call'[d] = call[d]
  <2>1. sessionMap[s] \in Sessions /\ Begin(c, "stop", sessionMap[s].env, sessionMap[s].mode, s, "stopping", NoProcess)
    BY <1>8 DEF StopSession, Stored, TypeInv, TypeOK
  <2>2. sessionMap[s].env \in Envs /\ sessionMap[s].mode \in Modes
    BY <2>1 DEF Sessions
  <2> QED BY <1>0, <1>8, <2>1, <2>2, Begins DEF Pc, StopLabels, StopSession
<1>9. CASE \E s \in Sids : StopSession(c, s)
  BY <1>8, <1>9, SessionAssumption DEF StopSession, Stored
<1> QED BY <1>5, <1>6, <1>7, <1>9 DEF Opens

\* A terminal is closed.
LEMMA CloseTerminalWhen ==
    ASSUME TypeInv, NEW c \in Callers, NEW p \in Pids, CloseTerminal(c, p)
    PROVE  /\ CallsInOrder' /\ Pc(c) = "idle" /\ Pc(c)' = "closing"
           /\ call'[c].sid = NoSession /\ call'[c].op = "close" /\ call'[c].proc = p
           /\ \A d \in Callers \ {c} : call'[d] = call[d]
           /\ TablesOK' /\ UNCHANGED <<sessionMap, sup, display>>
<1>1. CallsInOrder /\ TablesOK /\ proc[p] \in Processes
  BY TypeParts DEF TypeInv, TablesOK, CloseTerminal
<1>2. proc[p].env \in Envs
  BY <1>1 DEF Processes
<1>3. Begin(c, "close", proc[p].env, "CLI", NoSession, "closing", p)
  BY DEF CloseTerminal
<1>4. /\ CallsInOrder' /\ Pc(c) = "idle" /\ Pc(c)' = "closing"
      /\ call'[c].sid = NoSession /\ call'[c].op = "close" /\ call'[c].proc = p
      /\ \A d \in Callers \ {c} : call'[d] = call[d]
  BY <1>1, <1>2, <1>3, Begins DEF Pc, Modes, StopLabels
<1>5. TablesOK'
  BY <1>1, ClosedTypes DEF CloseTerminal
<1> QED BY <1>4, <1>5 DEF CloseTerminal

\* Every step of every action keeps the types.
LEMMA TypeStep == TypeInv /\ [Next]_vars => TypeInv'
<1> SUFFICES ASSUME TypeInv, [Next]_vars PROVE TypeInv'
  OBVIOUS
<1>0. TypeOK /\ CallsInOrder /\ Kept /\ TablesOK /\ MapOK /\ SupOK /\ DisplayOK
  BY TypeParts DEF TypeInv
<1>1. ASSUME NEW c \in Callers, Opens(c) PROVE TypeInv'
  <2>1. /\ CallsInOrder' /\ UNCHANGED <<sessionMap, tables, sup, display>>
        /\ \A d \in Callers \ {c} : call'[d] = call[d]
        /\ \/ Pc(c)' = "verify"
           \/ call'[c].sid \in Sids /\ Stored(call'[c].sid)
           \/ call'[c].sid = NoSession
    BY <1>1, OpensWhen
  <2>2. Keeps
    BY <1>0, <2>1 DEF Keeps, Kept, Stored, Pc, CallsInOrder, Calls
  <2>3. TypeOK'
    BY <1>0, <2>1 DEF TypeOK, CallsInOrder, Calls, tables, display
  <2> QED BY <2>1, <2>2, <2>3, KeptStep DEF TypeInv, display
<1>2. ASSUME NEW c \in Callers, NEW p \in Pids, CloseTerminal(c, p) PROVE TypeInv'
  <2>1. /\ CallsInOrder' /\ call'[c].sid = NoSession /\ \A d \in Callers \ {c} : call'[d] = call[d]
        /\ TablesOK' /\ UNCHANGED <<sessionMap, sup, display>>
    BY <1>2, CloseTerminalWhen
  <2>2. Keeps
    BY <1>0, <2>1 DEF Keeps, Kept, Stored, Pc, CallsInOrder, Calls
  <2>3. TypeOK'
    BY <1>0, <2>1 DEF TypeOK, TablesOK, CallsInOrder, Calls, display
  <2> QED BY <2>1, <2>2, <2>3, KeptStep DEF TypeInv, display
<1>3. ASSUME NEW c \in Callers, Walk(c) PROVE TypeInv'
  BY <1>3, WalkTypes
<1>4. ASSUME NEW c \in Callers, ConnectLauncher(c) PROVE TypeInv'
  <2>1. call[c].sid \in Sids /\ Stored(call[c].sid) /\ Pc(c) = "listen"
    BY <1>0, <1>4, SessionAssumption
       DEF ConnectLauncher, CallsInOrder, CallInOrder, Kept, Pc, StartLabels
  <2>2. CallsInOrder'
    BY <1>0, <1>4, <2>1, GoesInOrder
       DEF ConnectLauncher, Labels, StartLabels, AfterLabels, StopLabels
  <2>3. call'[c].sid = call[c].sid /\ \A d \in Callers \ {c} : call'[d] = call[d]
    BY <1>0, <1>4, Goes DEF ConnectLauncher, Labels, StartLabels
  <2>4. TypeOK'
    BY <1>0, <1>4, <2>1, <2>2 DEF ConnectLauncher, TypeOK, CallsInOrder, Calls, tables
  <2>5. Kept'
    BY <1>0, <1>4, <2>1, <2>3 DEF ConnectLauncher, Kept, Stored, Pc, HasRead
  <2> QED BY <2>2, <2>4, <2>5 DEF TypeInv
<1>5. ASSUME NEW c \in Callers, LaunchProbe(c) \/ LaunchShell(c) PROVE TypeInv'
  BY <1>5, LaunchTypes DEF LaunchProbe, LaunchShell, StartLabels, AfterLabels
<1>6. ASSUME NEW c \in Callers, LaunchLddm(c) PROVE TypeInv'
  <2>1. CASE Launch(c, "lddm", "await")
    BY <1>6, <2>1, LaunchTypes DEF LaunchLddm, StartLabels
  <2>2. CASE Goto(c, "failed") /\ UNCHANGED tables
    BY <1>0, <1>6, <2>2, MovesOn
       DEF LaunchLddm, Writes, Labels, StartLabels, AfterLabels, DisplayOK, display
  <2> QED BY <1>6, <2>1, <2>2 DEF LaunchLddm
<1>7. ASSUME NEW c \in Callers, ProbeExits(c) PROVE TypeInv'
  <2>1. TablesOK' /\ Writes(c) /\ Pc(c) = "probeWait" /\ UNCHANGED <<sup, display>>
    BY <1>0, <1>7, ProbeExitsTakes, RemoveTypes DEF ProbeExits
  <2> QED BY <1>7, <2>1, ProbeExitsTakes, TakesTypes
<1>8. ASSUME NEW c \in Callers, AwaitReadiness(c) PROVE TypeInv'
  <2>1. /\ Pc(c) = "await" /\ call[c].sid \in Sids /\ UNCHANGED <<tables, display>>
        /\ Watched \subseteq States
    BY <1>0, <1>8 DEF AwaitReadiness, CallsInOrder, CallInOrder, Pc, StartLabels, Watched,
                      Observable, States, ActiveStates, EndedStates
  <2>2. PICK st \in Watched :
              /\ Write(c, st)
              /\ \/ st = "GUI_READY" /\ Supervise(c)
                 \/ Takes(c, "await", call[c].proc, call[c].todo) /\ UNCHANGED sup
    BY <1>8, AwaitRound
  <2>3. CASE Supervise(c)
    BY <2>1, <2>2, <2>3, SuperviseTypes
  <2>4. CASE Takes(c, "await", call[c].proc, call[c].todo) /\ UNCHANGED sup
    BY <1>0, <2>1, <2>2, <2>4, TakesTypes DEF Writes, TablesOK, tables
  <2> QED BY <2>2, <2>3, <2>4
<1>9. ASSUME NEW c \in Callers, AwaitDeadline(c) PROVE TypeInv'
  BY <1>9, SuperviseTypes DEF AwaitDeadline, States, ActiveStates
<1>10. ASSUME NEW c \in Callers, StopRuntime(c) PROVE TypeInv'
  BY <1>0, <1>10, StopRuntimeTakes, TakesTypes DEF StopRuntime, Writes, TablesOK, tables
<1>11. ASSUME NEW c \in Callers, StopProcess(c) PROVE TypeInv'
  <2>1. TablesOK' /\ Writes(c) /\ Pc(c) = "loop" /\ UNCHANGED <<sup, display>>
    BY <1>11, StopProcessTable DEF StopProcess, Writes
  <2> QED BY <1>11, <2>1, StopProcessTakes, TakesTypes
<1>12. ASSUME NEW c \in Callers, ProcessStopped(c) PROVE TypeInv'
  <2>1. TablesOK' /\ Writes(c) /\ Pc(c) \in {"kill", "gone"} /\ UNCHANGED <<sup, display>>
    BY <1>0, <1>12, ProcessStoppedTakes, RemoveTypes DEF ProcessStopped, Writes
  <2> QED BY <1>12, <2>1, ProcessStoppedTakes, TakesTypes
<1>13. ASSUME NEW c \in Callers, StopCancelled(c) PROVE TypeInv'
  <2>1. /\ Pc(c) = "kill" /\ call[c].proc \in Pids /\ Writes(c) /\ UNCHANGED <<sup, display>>
    BY <1>0, <1>13 DEF StopCancelled, CallsInOrder, CallInOrder, Calls, Pc, Writes, States,
                       EndedStates
  <2>2. TablesOK'
    BY <1>0, <1>13, <2>1, RemoveTypes DEF StopCancelled
  <2>3. CallsInOrder' /\ Pc(c)' = "idle" /\ \A d \in Callers \ {c} : call'[d] = call[d]
    BY <1>0, <1>13, Returns DEF StopCancelled
  <2>4. MapOK' /\ \A s \in Sids : Stored(s) => Stored(s)'
    BY <2>1, WritesKeep
  <2>5. Keeps
    BY <1>0, <2>3, <2>4 DEF Keeps, Kept, Pc, Stored, CallsInOrder, Calls
  <2>6. TypeOK'
    BY <1>0, <2>1, <2>2, <2>3, <2>4 DEF TypeOK, MapOK, TablesOK, CallsInOrder, Calls, display
  <2> QED BY <2>1, <2>3, <2>5, <2>6, KeptStep DEF TypeInv, display
<1>14. ASSUME NEW p \in Pids, SupervisorReads(p) \/ SupervisorWrites(p) PROVE TypeInv'
  BY <1>14, SupervisionTypes
<1>15. ASSUME NEW p \in Pids, ProcessEnds(p) PROVE TypeInv'
  <2>1. TablesOK'
    BY <1>0, <1>15 DEF ProcessEnds, Forget, TablesOK
  <2> QED BY <1>0, <1>15, <2>1 DEF ProcessEnds, TypeInv, TypeOK, TablesOK, CallsInOrder, Kept, Stored,
                                   HasRead, Pc, display
<1>16. ASSUME RequestApp \/ \E e \in Envs : LaunchApp(e) PROVE TypeInv'
  <2>1. TablesOK' /\ requests' \subseteq Envs /\ UNCHANGED <<sessionMap, call, sup, host, listener>>
    <3>1. CASE RequestApp
      <4>1. sessionMap[listener] \in Sessions
        BY <1>0, <3>1 DEF RequestApp, Kept, Stored, MapOK, DisplayOK
      <4>2. sessionMap[listener].env \in Envs
        BY <4>1 DEF Sessions
      <4> QED BY <1>0, <3>1, <4>2 DEF RequestApp, TablesOK, DisplayOK, tables
    <3>2. ASSUME NEW e \in Envs, LaunchApp(e)
          PROVE  TablesOK' /\ requests' \subseteq Envs /\ UNCHANGED <<sessionMap, call, sup, host, listener>>
      <4>1. CASE UNCHANGED tables
        BY <1>0, <3>2, <4>1 DEF LaunchApp, TablesOK, DisplayOK, tables
      <4>2. ASSUME NEW p \in Pids, proc' = [proc EXCEPT ![p] = [env |-> e, kind |-> "app"]],
                   alive' = alive \cup {p}, active' = active \cup {p}, UNCHANGED term
            PROVE  TablesOK'
        <5>1. [env |-> e, kind |-> "app"] \in Processes
          BY DEF Processes
        <5> QED BY <1>0, <4>2, <5>1, SessionAssumption DEF TablesOK
      <4> QED BY <1>0, <3>2, <4>1, <4>2 DEF LaunchApp, DisplayOK
    <3> QED BY <1>16, <3>1, <3>2
  <2> QED BY <1>0, <2>1 DEF TypeInv, TypeOK, TablesOK, DisplayOK, CallsInOrder, Kept, Stored, HasRead,
                            Pc
<1>17. ASSUME UNCHANGED vars PROVE TypeInv'
  BY <1>0, <1>17 DEF vars, TypeInv, TypeOK, CallsInOrder, Kept, Stored, HasRead, Pc, tables, display
<1>18. ASSUME NEW c \in Callers, ShellKilled(c) PROVE TypeInv'
  <2>1. TablesOK' /\ Pc(c) = "closing" /\ Writes(c) /\ UNCHANGED <<sessionMap, sup, display>>
    BY <1>18, ShellKilledTypes DEF ShellKilled, Writes
  <2>2. CASE Takes(c, "gone", call[c].proc, call[c].todo)
    BY <2>1, <2>2, TakesTypes
  <2>3. CASE Return(c)
    <3>1. CallsInOrder' /\ Pc(c)' = "idle" /\ \A d \in Callers \ {c} : call'[d] = call[d]
      BY <1>0, <2>3, Returns
    <3>2. Keeps
      BY <1>0, <2>1, <3>1 DEF Keeps, Kept, Pc, Stored, CallsInOrder, Calls
    <3>3. TypeOK'
      BY <1>0, <2>1, <3>1 DEF TypeOK, TablesOK, CallsInOrder, Calls, display
    <3> QED BY <2>1, <3>1, <3>2, <3>3, KeptStep DEF TypeInv, display
  <2> QED BY <1>18, <2>2, <2>3, ShellKilledTypes
<1> QED BY <1>1, <1>2, <1>3, <1>4, <1>5, <1>6, <1>7, <1>8, <1>9, <1>10, <1>11, <1>12, <1>13,
           <1>14, <1>15, <1>16, <1>17, <1>18 DEF Next, CallStep, Opens, Walk

LEMMA TypeInit == Init => TypeInv
<1> SUFFICES ASSUME Init PROVE TypeInv
  OBVIOUS
<1>1. CallsInOrder
  BY IdleIsCall DEF Init, CallsInOrder
<1>2. TypeOK
  BY <1>1, TypeParts DEF Init, TablesOK, MapOK, SupOK, DisplayOK
<1>3. Kept
  BY IdleIsCall DEF Init, Kept, Pc, HasRead
<1> QED BY <1>1, <1>2, <1>3 DEF TypeInv

LEMMA TypeInvariant == Spec => []TypeInv
BY TypeInit, TypeStep, PTL DEF Spec

(* Sessions, calls, processes and supervisions keep their types, and the   *)
(* table holds only processes that were launched.                          *)
THEOREM TypeCorrect == Spec => []TypeOK
<1>1. TypeInv => TypeOK
  BY DEF TypeInv
<1> QED BY <1>1, TypeInvariant, PTL

-----------------------------------------------------------------------------
(* Processes and the launcher.                                             *)

Closes(c, p) == Pc(c) = "closing" /\ call[c].proc = p

\* A closed shell that runs has its closer; a process outside the table is
\* such a shell, and so is one a stop takes out although it runs.
TrackInv ==
    /\ \A p \in alive : proc[p].kind = "closed" => \E c \in Callers : Closes(c, p)
    /\ \A p \in alive \ active : proc[p].kind = "closed"
    /\ \A c \in Callers : Pc(c) = "gone" /\ call[c].proc \in alive => proc[call[c].proc].kind = "closed"

\* A step that starts no process, closes no shell and takes none out of the
\* table that runs and is not closed.
LEMMA TrackQuiet ==
    ASSUME TrackInv, alive' \subseteq alive, \A p \in alive' : proc'[p] = proc[p],
           \A p \in alive' \ active' : p \in active => proc[p].kind = "closed",
           \A c \in Callers, p \in alive' : Closes(c, p) => Closes(c, p)',
           \A c \in Callers : Pc(c)' = "gone" =>
               \/ Pc(c) = "gone" /\ call'[c].proc = call[c].proc
               \/ call'[c].proc \in alive' => proc[call'[c].proc].kind = "closed"
    PROVE  TrackInv'
<1>1. \A p \in alive' : proc'[p].kind = "closed" => \E c \in Callers : Closes(c, p)'
  BY DEF TrackInv
<1>2. \A p \in alive' \ active' : proc'[p].kind = "closed"
  BY DEF TrackInv
<1>3. \A c \in Callers : Pc(c)' = "gone" /\ call'[c].proc \in alive'
                            => proc'[call'[c].proc].kind = "closed"
  BY DEF TrackInv
<1> QED BY <1>1, <1>2, <1>3 DEF TrackInv

\* A call that is not closing a shell moves on.
LEMMA TrackMoves ==
    ASSUME TrackInv, NEW c \in Callers, Pc(c) # "closing",
           \A d \in Callers \ {c} : call'[d] = call[d],
           \A p \in alive : proc'[p] = proc[p], UNCHANGED alive,
           \A p \in alive \ active' : p \in active => proc[p].kind = "closed",
           Pc(c)' = "gone" => call'[c].proc \notin alive \/ proc[call'[c].proc].kind = "closed"
    PROVE  TrackInv'
<1>1. \A d \in Callers, p \in alive : Closes(d, p) => Closes(d, p)'
  BY DEF Closes, Pc
<1>2. \A d \in Callers : Pc(d)' = "gone" =>
               \/ Pc(d) = "gone" /\ call'[d].proc = call[d].proc
               \/ call'[d].proc \in alive' => proc[call'[d].proc].kind = "closed"
  BY DEF Pc
<1> QED BY <1>1, <1>2, TrackQuiet

\* A process is launched: nothing referred to its handle.
LEMMA TrackLaunch ==
    ASSUME TrackInv, NEW p \in Pids, Unused(p), alive' = alive \cup {p}, active' = active \cup {p},
           \A q \in Pids \ {p} : proc'[q] = proc[q], proc'[p].kind # "closed", alive \subseteq Pids,
           \A d \in Callers : Pc(d)' \in {"closing", "gone"} \/ Pc(d) \in {"closing", "gone"}
                                => call'[d] = call[d]
    PROVE  TrackInv'
<1>1. p \notin alive /\ p \notin active /\ \A d \in Callers : call[d].proc # p
  BY DEF Unused
<1>2. \A d \in Callers, q \in alive : Closes(d, q) => Closes(d, q)'
  BY DEF Closes, Pc
<1>3. \A q \in alive' : proc'[q].kind = "closed" => \E c \in Callers : Closes(c, q)'
  BY <1>1, <1>2 DEF TrackInv
<1>4. \A q \in alive' \ active' : proc'[q].kind = "closed"
  BY <1>1 DEF TrackInv
<1>5. \A c \in Callers : Pc(c)' = "gone" /\ call'[c].proc \in alive'
                            => proc'[call'[c].proc].kind = "closed"
  BY <1>1 DEF TrackInv, Pc
<1> QED BY <1>3, <1>4, <1>5 DEF TrackInv

\* A shell is closed by its first closer.
LEMMA TrackCloses ==
    ASSUME TrackInv, TablesOK, NEW c \in Callers, NEW p \in alive, proc[p].kind = "shell",
           Pc(c) # "closing", Closes(c, p)', \A d \in Callers \ {c} : call'[d] = call[d],
           proc' = [proc EXCEPT ![p].kind = "closed"], UNCHANGED <<alive, active>>
    PROVE  TrackInv'
<1>1. /\ proc'[p].kind = "closed" /\ \A q \in alive \ {p} : proc'[q] = proc[q]
  <2>1. proc[p] \in Processes
    BY DEF TablesOK
  <2>2. [proc[p] EXCEPT !.kind = "closed"].kind = "closed"
    BY <2>1 DEF Processes
  <2> QED BY <2>2 DEF TablesOK
<1>2. \A d \in Callers, q \in alive : Closes(d, q) => Closes(d, q)'
  BY DEF Closes, Pc
<1>3. \A q \in alive' : proc'[q].kind = "closed" => \E d \in Callers : Closes(d, q)'
  BY <1>1, <1>2 DEF TrackInv
<1>4. \A q \in alive' \ active' : proc'[q].kind = "closed"
  BY <1>1 DEF TrackInv
<1>5. \A d \in Callers : Pc(d)' = "gone" /\ call'[d].proc \in alive'
                            => proc'[call'[d].proc].kind = "closed"
  BY <1>1 DEF TrackInv, Pc, Closes
<1> QED BY <1>3, <1>4, <1>5 DEF TrackInv

\* activeProcesses.remove of a process that has ended, or of a closed shell.
LEMMA TrackRemoves ==
    ASSUME TrackInv, NEW c \in Callers, NEW p, Remove(p), p \in alive => proc[p].kind = "closed",
           Pc(c) # "closing", Pc(c)' # "gone", \A d \in Callers \ {c} : call'[d] = call[d],
           TablesOK
    PROVE  TrackInv'
<1>1. UNCHANGED alive /\ active' = active \ {p} /\ \A q \in alive : proc'[q] = proc[q]
  BY DEF Remove, Forget, TablesOK
<1> QED BY <1>1, TrackMoves

LEMMA TrackStep == TypeInv /\ TrackInv /\ [Next]_vars => TrackInv'
<1> SUFFICES ASSUME TypeInv, TrackInv, [Next]_vars PROVE TrackInv'
  OBVIOUS
<1>0. TypeOK /\ CallsInOrder /\ TablesOK
  BY TypeParts DEF TypeInv
<1>1. ASSUME NEW c \in Callers, Opens(c) PROVE TrackInv'
  BY <1>1, OpensWhen, TrackMoves DEF tables
<1>2. ASSUME NEW c \in Callers, NEW p \in Pids, CloseTerminal(c, p) PROVE TrackInv'
  <2>1. Pc(c) = "idle" /\ Closes(c, p)' /\ \A d \in Callers \ {c} : call'[d] = call[d]
    BY <1>2, CloseTerminalWhen DEF Closes
  <2> QED BY <1>0, <1>2, <2>1, TrackCloses DEF CloseTerminal
<1>3. ASSUME NEW c \in Callers, Walk(c) PROVE TrackInv'
  <2>1. UNCHANGED tables /\ Pc(c) # "closing"
    BY <1>3 DEF Walk, VerifyFails, Register, PrepareFails, CliReady, StartThrows, StartCompositor,
                StartHost, StartLddm, ShellReturns, CancelStart, StartFails, TearDown, StoreStopping,
                DisconnectLauncher, StopHost, Stopped
  <2>2. Return(c) \/ \E l \in Labels \ {"await", "gone"} : Goto(c, l)
    BY <1>3, WalkGoes
  <2>3. Pc(c)' # "gone" /\ \A d \in Callers \ {c} : call'[d] = call[d]
    BY <1>0, <2>2, Goes, Returns
  <2> QED BY <2>1, <2>3, TrackMoves DEF tables
<1>4. ASSUME NEW c \in Callers, ConnectLauncher(c) \/ StopRuntime(c) PROVE TrackInv'
  <2>1. UNCHANGED tables /\ Pc(c) # "closing"
    BY <1>4 DEF ConnectLauncher, StopRuntime
  <2>2. Pc(c)' # "gone" /\ \A d \in Callers \ {c} : call'[d] = call[d]
    <3>1. CASE ConnectLauncher(c)
      <4>1. Goto(c, "desktop") /\ "desktop" \in Labels
        BY <3>1 DEF ConnectLauncher, Labels, StartLabels
      <4>2. Pc(c)' = "desktop" /\ \A d \in Callers \ {c} : call'[d] = call[d]
        BY <1>0, <4>1, Goes
      <4> QED BY <4>2
    <3>2. CASE StopRuntime(c)
      BY <3>2, StopRuntimeTakes DEF Takes
    <3> QED BY <1>4, <3>1, <3>2
  <2> QED BY <2>1, <2>2, TrackMoves DEF tables
<1>5. ASSUME NEW c \in Callers, AwaitReadiness(c) \/ AwaitDeadline(c) PROVE TrackInv'
  <2>1. UNCHANGED tables /\ Pc(c) # "closing"
    BY <1>5 DEF AwaitReadiness, AwaitDeadline
  <2>2. Return(c) \/ Takes(c, "await", call[c].proc, call[c].todo)
    BY <1>5, AwaitRound DEF AwaitDeadline, Supervise
  <2>3. Pc(c)' # "gone" /\ \A d \in Callers \ {c} : call'[d] = call[d]
    BY <1>0, <2>2, Returns DEF Takes
  <2> QED BY <2>1, <2>3, TrackMoves DEF tables
<1>6. ASSUME NEW c \in Callers, NEW kind \in {"probe", "lddm", "shell"},
             NEW l \in {"probeWait", "await", "opened"}, Launch(c, kind, l),
             Pc(c) \in StartLabels \/ (l = "opened" /\ Pc(c) \in AfterLabels)
      PROVE  TrackInv'
  <2>1. Pc(c) # "idle" /\ Pc(c) \notin {"closing", "gone"}
    BY <1>6 DEF StartLabels, AfterLabels
  <2>2. Pc(c)' = l /\ \A d \in Callers \ {c} : call'[d] = call[d]
    BY <1>0, <1>6, <2>1, Launches
  <2>3. PICK p \in Pids : /\ Unused(p) /\ alive' = alive \cup {p} /\ active' = active \cup {p}
                          /\ proc' = [proc EXCEPT ![p] = [env |-> call[c].env, kind |-> kind]]
    BY <1>6 DEF Launch
  <2>4. proc'[p].kind # "closed" /\ \A q \in Pids \ {p} : proc'[q] = proc[q]
    BY <1>0, <2>3 DEF TablesOK
  <2> QED BY <1>0, <2>1, <2>2, <2>3, <2>4, TrackLaunch DEF Pc, TablesOK
<1>7. ASSUME NEW c \in Callers, LaunchProbe(c) \/ LaunchLddm(c) \/ LaunchShell(c) PROVE TrackInv'
  <2>1. CASE LaunchLddm(c) /\ UNCHANGED tables
    <3>1. Goto(c, "failed") \/ Launch(c, "lddm", "await")
      BY <2>1 DEF LaunchLddm
    <3>2. ASSUME Goto(c, "failed") PROVE TrackInv'
      <4>1. Pc(c)' = "failed" /\ \A d \in Callers \ {c} : call'[d] = call[d]
        BY <1>0, <3>2, Goes DEF Labels, StartLabels
      <4> QED BY <2>1, <4>1, TrackMoves DEF LaunchLddm, tables
    <3> QED BY <1>6, <2>1, <3>1, <3>2 DEF LaunchLddm, StartLabels
  <2> QED BY <1>6, <1>7, <2>1 DEF LaunchProbe, LaunchLddm, LaunchShell, StartLabels, AfterLabels
<1>8. ASSUME NEW c \in Callers, ProbeExits(c) PROVE TrackInv'
  <2>1. PICK l \in {"cli", "gui", "failed"} : Takes(c, l, NoProcess, call[c].todo)
    BY <1>8, ProbeExitsTakes
  <2> QED BY <1>0, <1>8, <2>1, TrackRemoves DEF ProbeExits, Takes
<1>9. ASSUME NEW c \in Callers, ProcessStopped(c) PROVE TrackInv'
  <2>1. call[c].proc \in alive => proc[call[c].proc].kind = "closed"
    BY <1>9 DEF ProcessStopped, TrackInv
  <2> QED BY <1>0, <1>9, <2>1, ProcessStoppedTakes, TrackRemoves DEF ProcessStopped, Takes
<1>10. ASSUME NEW c \in Callers, StopCancelled(c) PROVE TrackInv'
  BY <1>0, <1>10, Returns, TrackRemoves DEF StopCancelled
<1>11. ASSUME NEW c \in Callers, StopProcess(c) PROVE TrackInv'
  <2>1. Pc(c) # "closing" /\ UNCHANGED <<alive, active>>
    BY <1>11 DEF StopProcess
  <2>2. \A d \in Callers \ {c} : call'[d] = call[d]
    BY <1>11, StopProcessTakes DEF Takes
  <2>3. ASSUME NEW p \in call[c].todo, p \in alive, proc[p].kind = "shell",
               proc' = [proc EXCEPT ![p].kind = "closed"],
               call' = [call EXCEPT ![c].pc = "closing", ![c].proc = p]
        PROVE  TrackInv'
    <3>1. Closes(c, p)'
      BY <1>0, <2>3 DEF Closes, Pc, CallsInOrder, Calls
    <3> QED BY <1>0, <2>1, <2>2, <2>3, <3>1, TrackCloses
  <2>4. ASSUME NEW p \in call[c].todo, call' = [call EXCEPT ![c].pc = "kill", ![c].proc = p],
               UNCHANGED proc
        PROVE  TrackInv'
    <3>1. Pc(c)' = "kill"
      BY <1>0, <2>4 DEF Pc, CallsInOrder, Calls
    <3> QED BY <2>1, <2>2, <2>4, <3>1, TrackMoves
  <2>5. ASSUME NEW p \in call[c].todo, p \in alive => proc[p].kind = "closed",
               call' = [call EXCEPT ![c].pc = "gone", ![c].proc = p], UNCHANGED proc
        PROVE  TrackInv'
    <3>1. call'[c].proc = p
      BY <1>0, <2>5 DEF CallsInOrder, Calls
    <3> QED BY <2>1, <2>2, <2>5, <3>1, TrackMoves
  <2> QED BY <1>11, <2>3, <2>4, <2>5 DEF StopProcess
<1>12. ASSUME NEW c \in Callers, ShellKilled(c) PROVE TrackInv'
  <2> DEFINE p == call[c].proc
  <2>1. /\ alive' = alive \ {p} /\ UNCHANGED active /\ Pc(c) = "closing"
        /\ \A q \in alive' : proc'[q] = proc[q]
    BY <1>0, <1>12 DEF ShellKilled, Forget, TablesOK
  <2>2. /\ \A d \in Callers \ {c} : call'[d] = call[d]
        /\ Pc(c)' = "idle" \/ (Pc(c)' = "gone" /\ call'[c].proc = p)
    BY <1>0, <1>12, ShellKilledTypes, Returns DEF Takes
  <2>3. \A d \in Callers, q \in alive' : Closes(d, q) => Closes(d, q)'
    BY <2>1, <2>2 DEF Closes, Pc
  <2>4. \A d \in Callers : Pc(d)' = "gone" =>
               \/ Pc(d) = "gone" /\ call'[d].proc = call[d].proc
               \/ call'[d].proc \in alive' => proc[call'[d].proc].kind = "closed"
    BY <2>1, <2>2 DEF Pc
  <2> HIDE DEF p
  <2> QED BY <2>1, <2>3, <2>4, TrackQuiet
<1>13. ASSUME NEW p \in Pids, ProcessEnds(p) PROVE TrackInv'
  <2>1. /\ alive' = alive \ {p} /\ UNCHANGED <<active, call>> /\ \A q \in alive' : proc'[q] = proc[q]
    BY <1>0, <1>13 DEF ProcessEnds, Forget, TablesOK
  <2> QED BY <2>1, TrackQuiet DEF Closes, Pc
<1>14. ASSUME NEW e \in Envs, LaunchApp(e) PROVE TrackInv'
  <2>1. CASE UNCHANGED tables
    BY <1>14, <2>1 DEF LaunchApp, TrackInv, Closes, Pc, tables
  <2>2. ASSUME NEW p \in Pids, Unused(p), alive' = alive \cup {p}, active' = active \cup {p},
               proc' = [proc EXCEPT ![p] = [env |-> e, kind |-> "app"]], UNCHANGED call
        PROVE  TrackInv'
    <3>1. proc'[p].kind # "closed" /\ \A q \in Pids \ {p} : proc'[q] = proc[q]
      BY <1>0, <2>2 DEF TablesOK
    <3> QED BY <1>0, <2>2, <3>1, TrackLaunch DEF TablesOK
  <2> QED BY <1>14, <2>1, <2>2 DEF LaunchApp
<1>15. ASSUME UNCHANGED <<call, tables>> PROVE TrackInv'
  BY <1>15 DEF TrackInv, Closes, Pc, tables
<1> QED BY <1>1, <1>2, <1>3, <1>4, <1>5, <1>7, <1>8, <1>9, <1>10, <1>11, <1>12, <1>13, <1>14, <1>15
        DEF Next, CallStep, Opens, Walk, vars, RequestApp, SupervisorReads, SupervisorWrites

(* A process that runs is in activeProcesses, the only list that           *)
(* stopForEnvironment goes through, or it is a shell whose first closer is *)
(* still about to kill it: for any number of calls, processes and shells.  *)
THEOREM TrackingSafety == Spec => []LiveIsTracked
<1>1. Init => TrackInv
  BY IdleIsCall DEF Init, TrackInv, Pc
<1>2. TrackInv => LiveIsTracked
  BY DEF TrackInv, LiveIsTracked, Closes
<1> QED BY <1>1, <1>2, TrackStep, TypeInvariant, PTL DEF Spec

\* The display changes in six steps only.
DisplayStep(c) ==
    \/ StartHost(c) \/ ConnectLauncher(c) \/ TearDown(c) \/ DisconnectLauncher(c) \/ StopHost(c)

\* A caller that is about to connect the launcher or to stop the host stays
\* so until it does.
LEMMA OthersWait ==
    ASSUME TypeInv, [Next]_vars, \A c \in Callers : ~DisplayStep(c)
    PROVE  /\ UNCHANGED <<host, listener>>
           /\ \A c \in Callers : Pc(c) \in {"listen", "stopHost"} => Pc(c)' = Pc(c)
<1> DEFINE Goal ==
        /\ UNCHANGED <<host, listener>>
        /\ \A c \in Callers : Pc(c) \in {"listen", "stopHost"} => Pc(c)' = Pc(c)
<1>0. CallsInOrder
  BY DEF TypeInv
<1>a. ASSUME NEW c \in Callers, Pc(c) \notin {"listen", "stopHost"}, UNCHANGED <<host, listener>>,
             \A d \in Callers \ {c} : call'[d] = call[d]
      PROVE  Goal
  BY <1>a DEF Pc
<1>1. ASSUME NEW c \in Callers, Opens(c) PROVE Goal
  BY <1>1, <1>a, OpensWhen DEF display
<1>2. ASSUME NEW c \in Callers, NEW p \in Pids, CloseTerminal(c, p) PROVE Goal
  BY <1>2, <1>a, CloseTerminalWhen DEF display
<1>3. ASSUME NEW c \in Callers, Walk(c) PROVE Goal
  <2>1. Pc(c) \notin {"listen", "stopHost"} /\ UNCHANGED <<host, listener>>
    BY <1>3 DEF Walk, DisplayStep, VerifyFails, Register, PrepareFails, CliReady, StartThrows,
                StartCompositor, StartLddm, ShellReturns, CancelStart, StartFails, StoreStopping, Stopped,
                display
  <2>2. \A d \in Callers \ {c} : call'[d] = call[d]
    BY <1>0, <1>3 DEF Walk, DisplayStep, VerifyFails, Register, PrepareFails, CliReady, StartThrows,
                StartCompositor, StartLddm, ShellReturns, CancelStart, StartFails, StoreStopping,
                Stopped, Goto, Return, CallsInOrder
  <2> QED BY <1>a, <2>1, <2>2
<1>4. ASSUME NEW c \in Callers,
             \/ LaunchProbe(c) \/ LaunchLddm(c) \/ LaunchShell(c) \/ ProbeExits(c)
             \/ AwaitReadiness(c) \/ AwaitDeadline(c) \/ StopRuntime(c) \/ StopProcess(c)
             \/ ShellKilled(c) \/ ProcessStopped(c) \/ StopCancelled(c)
      PROVE  Goal
  <2>1. Pc(c) \notin {"listen", "stopHost"} /\ UNCHANGED <<host, listener>>
    BY <1>4 DEF LaunchProbe, LaunchLddm, LaunchShell, ProbeExits, AwaitReadiness, AwaitDeadline,
                StopRuntime, StopProcess, ShellKilled, ProcessStopped, StopCancelled, display
  <2>2. \A d \in Callers \ {c} : call'[d] = call[d]
    BY <1>0, <1>4 DEF LaunchProbe, LaunchLddm, LaunchShell, ProbeExits, AwaitReadiness,
                AwaitDeadline, StopRuntime, StopProcess, ShellKilled, ProcessStopped, StopCancelled,
                Launch, Supervise, Goto, Return, CallsInOrder
  <2> QED BY <1>a, <2>1, <2>2
<1>5. ASSUME NEW p \in Pids, SupervisorReads(p) \/ SupervisorWrites(p) \/ ProcessEnds(p) PROVE Goal
  BY <1>5 DEF SupervisorReads, SupervisorWrites, ProcessEnds, Pc, display
<1>6. ASSUME RequestApp \/ (\E e \in Envs : LaunchApp(e)) \/ UNCHANGED vars PROVE Goal
  BY <1>6 DEF RequestApp, LaunchApp, vars, Pc, display
<1> QED BY <1>1, <1>2, <1>3, <1>4, <1>5, <1>6 DEF Next, CallStep, Opens, Walk, DisplayStep

(* A GUI host that runs has its launcher connected, or a call at work is   *)
(* about to connect it or to stop the host: no order of overlapping starts *)
(* and stops leaves a desktop that cannot launch anything.                 *)
THEOREM LauncherSafety == Spec => []LauncherConnected
<1>1. Init => LauncherConnected
  BY DEF Init, LauncherConnected
<1>2. TypeInv /\ LauncherConnected /\ [Next]_vars => LauncherConnected'
  <2> SUFFICES ASSUME TypeInv, LauncherConnected, [Next]_vars PROVE LauncherConnected'
    OBVIOUS
  <2>0. CallsInOrder
    BY DEF TypeInv
  <2>1. ASSUME NEW c \in Callers, StartHost(c) PROVE LauncherConnected'
    <3>1. Pc(c)' = "listen"
      BY <2>0, <2>1, Goes DEF StartHost, Labels, StartLabels
    <3> QED BY <3>1 DEF LauncherConnected
  <2>2. ASSUME NEW c \in Callers, ConnectLauncher(c) PROVE LauncherConnected'
    BY <2>0, <2>2, SessionAssumption DEF ConnectLauncher, CallsInOrder, CallInOrder, Pc, StartLabels,
                                         LauncherConnected
  <2>3. ASSUME NEW c \in Callers, DisconnectLauncher(c) PROVE LauncherConnected'
    <3>1. Pc(c)' = "stopHost"
      BY <2>0, <2>3, Goes DEF DisconnectLauncher, Labels, StopLabels
    <3> QED BY <3>1 DEF LauncherConnected
  <2>4. ASSUME NEW c \in Callers, TearDown(c) \/ StopHost(c) PROVE LauncherConnected'
    BY <2>4 DEF TearDown, StopHost, LauncherConnected
  <2>5. ASSUME \A c \in Callers : ~DisplayStep(c) PROVE LauncherConnected'
    BY <2>5, OthersWait DEF LauncherConnected
  <2> QED BY <2>1, <2>2, <2>3, <2>4, <2>5 DEF DisplayStep
<1> QED BY <1>1, <1>2, TypeInvariant, PTL DEF Spec

-----------------------------------------------------------------------------
(* Calls and supervision attend to the sessions.                           *)

\* A session with nothing left to do for a call.
Settled(k) == k.state \notin Transient /\ (k.state \in EndedStates \/ k.mode = "CLI")

\* Whatever a step of the caller does to a session: it goes on attending to
\* it; or it did not attend to it and leaves it alone; or it leaves it settled
\* or supervised.
LEMMA Attends ==
    ASSUME TransientAttended, UpAttended, NEW c \in Callers,
           \A d \in Callers \ {c} : call'[d] = call[d],
           \A s \in Sids :
              \/ Writing(call'[c]) /\ call'[c].sid = s
              \/ sessionMap'[s] = sessionMap[s] /\ ~(Writing(call[c]) /\ call[c].sid = s)
              \/ Settled(sessionMap'[s])
              \/ sessionMap'[s].state \notin Transient /\ Supervised(s)',
           \A s \in Sids : Supervised(s) => Supervised(s)'
    PROVE  TransientAttended' /\ UpAttended'
<1> SUFFICES ASSUME NEW s \in Sids
             PROVE  /\ (Stored(s) /\ sessionMap[s].state \in Transient => Attended(s))'
                    /\ (IsActive(s) /\ sessionMap[s].mode = "GUI" => Supervised(s) \/ Attended(s))'
  BY DEF TransientAttended, UpAttended
<1>1. CASE Writing(call'[c]) /\ call'[c].sid = s
  BY <1>1 DEF Attended
<1>2. CASE sessionMap'[s] = sessionMap[s] /\ ~(Writing(call[c]) /\ call[c].sid = s)
  <2>1. Attended(s) => Attended(s)'
    BY <1>2 DEF Attended
  <2> QED BY <1>2, <2>1 DEF TransientAttended, UpAttended, Stored, IsActive
<1>3. CASE Settled(sessionMap'[s])
  BY <1>3 DEF Settled, IsActive, ActiveStates, EndedStates
<1>4. CASE sessionMap'[s].state \notin Transient /\ Supervised(s)'
  BY <1>4
<1> QED BY <1>1, <1>2, <1>3, <1>4

\* The four ways of a call.
LEMMA StartsOn ==
    ASSUME TransientAttended, UpAttended, NEW c \in Callers,
           \A d \in Callers \ {c} : call'[d] = call[d],
           Pc(c)' \in StartLabels \ {"verify"}, call'[c].sid = call[c].sid,
           \A s \in Sids \ {call[c].sid} : sessionMap'[s] = sessionMap[s], UNCHANGED sup
    PROVE  TransientAttended' /\ UpAttended'
<1>1. Writing(call'[c])
  BY DEF Writing, Pc
<1>2. \A s \in Sids : Supervised(s) => Supervised(s)'
  BY DEF Supervised
<1> QED BY <1>1, <1>2, Attends

LEMMA StopsOn ==
    ASSUME TransientAttended, UpAttended, NEW c \in Callers,
           \A d \in Callers \ {c} : call'[d] = call[d],
           Pc(c) \in StopLabels, Pc(c)' \in StopLabels,
           call'[c].sid = call[c].sid, call'[c].op = call[c].op, UNCHANGED <<sessionMap, sup>>
    PROVE  TransientAttended' /\ UpAttended'
<1>1. Writing(call[c]) => Writing(call'[c])
  BY DEF Writing, Pc, StartLabels, StopLabels
<1>2. \A s \in Sids : Supervised(s) => Supervised(s)'
  BY DEF Supervised
<1> QED BY <1>1, <1>2, Attends

LEMMA Ends ==
    ASSUME TransientAttended, UpAttended, NEW c \in Callers,
           \A d \in Callers \ {c} : call'[d] = call[d],
           Settled(sessionMap'[call[c].sid]),
           \A s \in Sids \ {call[c].sid} : sessionMap'[s] = sessionMap[s], UNCHANGED sup
    PROVE  TransientAttended' /\ UpAttended'
<1>2. \A s \in Sids : Supervised(s) => Supervised(s)'
  BY DEF Supervised
<1> QED BY <1>2, Attends

LEMMA Idles ==
    ASSUME TransientAttended, UpAttended, NEW c \in Callers,
           \A d \in Callers \ {c} : call'[d] = call[d],
           ~Writing(call[c]), UNCHANGED <<sessionMap, sup>>
    PROVE  TransientAttended' /\ UpAttended'
<1>2. \A s \in Sids : Supervised(s) => Supervised(s)'
  BY DEF Supervised
<1> QED BY <1>2, Attends

\* The copy a call writes last.
LEMMA LastWrite ==
    ASSUME TypeInv, NEW c \in Callers, Pc(c) # "idle", call[c].sid \in Sids, NEW st \in States,
           Write(c, st), st \in EndedStates \/ (call[c].mode = "CLI" /\ st = "CLI_READY")
    PROVE  /\ Settled(sessionMap'[call[c].sid])
           /\ \A s \in Sids \ {call[c].sid} : sessionMap'[s] = sessionMap[s]
<1>1. /\ sessionMap'[call[c].sid] = [env |-> call[c].env, mode |-> call[c].mode, state |-> st]
      /\ \A s \in Sids \ {call[c].sid} : sessionMap'[s] = sessionMap[s]
  BY Stores DEF TypeInv
<1> QED BY <1>1 DEF Settled, Transient, EndedStates

LEMMA OneWrite ==
    ASSUME TypeInv, NEW c \in Callers, Pc(c) # "idle", Writes(c)
    PROVE  \A s \in Sids \ {call[c].sid} : sessionMap'[s] = sessionMap[s]
<1>1. CASE UNCHANGED sessionMap
  BY <1>1
<1>2. ASSUME call[c].sid \in Sids, NEW st \in States, Write(c, st)
      PROVE  \A s \in Sids \ {call[c].sid} : sessionMap'[s] = sessionMap[s]
  BY <1>2, Stores DEF TypeInv
<1> QED BY <1>1, <1>2 DEF Writes

\* The steps of Walk.
LEMMA WalkAttends ==
    ASSUME SessionInv, NEW c \in Callers, Walk(c)
    PROVE  TransientAttended' /\ UpAttended'
<1>0. /\ TypeInv /\ CallsInOrder /\ TransientAttended /\ UpAttended /\ CallInOrder(call[c])
      /\ call[c].sid \in Sids \cup {NoSession} /\ call[c].mode \in Modes
  BY DEF SessionInv, TypeInv, CallsInOrder, Calls
<1>1. Pc(c) \in StartLabels \cup AfterLabels \cup {"stopping", "stopServices", "stopHost"}
        => call[c].sid \in Sids
  BY <1>0 DEF CallInOrder, Pc
<1>a. ASSUME NEW l \in StartLabels \ {"verify"}, Goto(c, l), Pc(c) # "idle", Writes(c), UNCHANGED sup
      PROVE  TransientAttended' /\ UpAttended'
  <2>1. /\ Pc(c)' = l /\ call'[c].sid = call[c].sid /\ \A d \in Callers \ {c} : call'[d] = call[d]
    BY <1>0, <1>a, Goes DEF Labels
  <2> QED BY <1>0, <1>a, <2>1, OneWrite, StartsOn
<1>b. ASSUME NEW l \in StopLabels, Goto(c, l), Pc(c) \in StopLabels, UNCHANGED <<sessionMap, sup>>
      PROVE  TransientAttended' /\ UpAttended'
  <2>1. /\ Pc(c)' = l /\ call'[c].sid = call[c].sid /\ call'[c].op = call[c].op
        /\ \A d \in Callers \ {c} : call'[d] = call[d]
    BY <1>0, <1>b, Goes DEF Labels
  <2> QED BY <1>0, <1>b, <2>1, StopsOn
<1>c. ASSUME Return(c) \/ \E l \in Labels : Goto(c, l) PROVE \A d \in Callers \ {c} : call'[d] = call[d]
  BY <1>0, <1>c, Goes, Returns
<1>2. CASE VerifyFails(c) \/ ShellReturns(c)
  <2>1. ~Writing(call[c])
    BY <1>0, <1>2 DEF VerifyFails, ShellReturns, Writing, CallInOrder, Pc, StartLabels, AfterLabels,
                      StopLabels
  <2> QED BY <1>0, <1>2, <1>c, <2>1, Idles DEF VerifyFails, ShellReturns
<1>3. CASE Register(c)
  BY <1>1, <1>3, <1>a DEF Register, Writes, StartLabels, States, ActiveStates
<1>4. CASE PrepareFails(c) \/ StartThrows(c) \/ StartHost(c) \/ CancelStart(c)
  BY <1>4, <1>a DEF PrepareFails, StartThrows, StartHost, CancelStart, Writes, StartLabels
<1>5. CASE StartCompositor(c) \/ StartLddm(c)
  BY <1>1, <1>5, <1>a DEF StartCompositor, StartLddm, Writes, StartLabels, States, ActiveStates
<1>6. CASE CliReady(c)
  <2>1. /\ call[c].mode = "CLI" /\ call[c].sid \in Sids /\ Pc(c) = "cli" /\ Write(c, "CLI_READY")
        /\ UNCHANGED sup
    BY <1>0, <1>1, <1>6 DEF CliReady, CallInOrder, Pc, StartLabels
  <2>2. /\ Settled(sessionMap'[call[c].sid])
        /\ \A s \in Sids \ {call[c].sid} : sessionMap'[s] = sessionMap[s]
    BY <1>0, <2>1, LastWrite DEF States, ActiveStates
  <2>3. \A d \in Callers \ {c} : call'[d] = call[d]
    BY <1>6, <1>c DEF CliReady, Labels, AfterLabels
  <2> QED BY <1>0, <2>1, <2>2, <2>3, Ends
<1>7. CASE StartFails(c)
  <2>1. /\ call[c].sid \in Sids /\ Pc(c) \in {"failed", "cancelled"} /\ UNCHANGED sup
        /\ \E st \in EndedStates : Write(c, st)
    BY <1>1, <1>7 DEF StartFails, StartLabels, EndedStates
  <2>2. /\ Settled(sessionMap'[call[c].sid])
        /\ \A s \in Sids \ {call[c].sid} : sessionMap'[s] = sessionMap[s]
    BY <1>0, <2>1, LastWrite DEF States
  <2>3. \A d \in Callers \ {c} : call'[d] = call[d]
    BY <1>7, <1>c DEF StartFails, Labels, AfterLabels
  <2> QED BY <1>0, <2>1, <2>2, <2>3, Ends
<1>8. CASE TearDown(c)
  <2>1. ~Writing(call[c])
    BY <1>0, <1>8 DEF TearDown, Writing, CallInOrder, Pc, StartLabels, AfterLabels
  <2>2. \A d \in Callers \ {c} : call'[d] = call[d]
    BY <1>8, <1>c DEF TearDown, Labels, StopLabels
  <2> QED BY <1>0, <1>8, <2>1, <2>2, Idles DEF TearDown
<1>9. CASE DisconnectLauncher(c) \/ StopHost(c)
  BY <1>9, <1>b DEF DisconnectLauncher, StopHost, StopLabels
<1>10. CASE Stopped(c)
  <2>1. Pc(c) = "loop" /\ UNCHANGED sup /\ \A d \in Callers \ {c} : call'[d] = call[d]
    BY <1>10, <1>c DEF Stopped
  <2>2. CASE call[c].op = "stop" /\ call[c].sid # NoSession
    <3>1. /\ Settled(sessionMap'[call[c].sid])
          /\ \A s \in Sids \ {call[c].sid} : sessionMap'[s] = sessionMap[s]
      BY <1>0, <1>10, <2>1, <2>2, LastWrite DEF Stopped, States, EndedStates
    <3> QED BY <1>0, <2>1, <3>1, Ends
  <2>3. CASE ~(call[c].op = "stop" /\ call[c].sid # NoSession)
    <3>1. ~Writing(call[c])
      BY <2>1, <2>3 DEF Writing, Pc, StartLabels
    <3>2. UNCHANGED sessionMap
      BY <1>10, <2>3 DEF Stopped
    <3> QED BY <1>0, <2>1, <3>1, <3>2, Idles
  <2> QED BY <2>2, <2>3
<1>11. CASE StoreStopping(c)
  <2>1. /\ call[c].sid \in Sids /\ call[c].op = "stop" /\ Pc(c) = "stopping" /\ UNCHANGED sup
        /\ Write(c, "STOPPING") /\ Goto(c, "stopServices")
    BY <1>0, <1>1, <1>11 DEF StoreStopping, CallInOrder, Pc
  <2>2. /\ Pc(c)' = "stopServices" /\ call'[c].sid = call[c].sid /\ call'[c].op = "stop"
        /\ \A d \in Callers \ {c} : call'[d] = call[d]
    BY <1>0, <2>1, Goes DEF Labels, StopLabels
  <2>3. Writing(call'[c])
    BY <2>1, <2>2, SessionAssumption DEF Writing, Pc, StopLabels
  <2>4. \A s \in Sids \ {call[c].sid} : sessionMap'[s] = sessionMap[s]
    BY <1>0, <2>1, OneWrite DEF Writes, States, ActiveStates
  <2>5. \A s \in Sids : Supervised(s) => Supervised(s)'
    BY <2>1 DEF Supervised
  <2> QED BY <1>0, <2>2, <2>3, <2>4, <2>5, Attends
<1> QED BY <1>2, <1>3, <1>4, <1>5, <1>6, <1>7, <1>8, <1>9, <1>10, <1>11 DEF Walk

\* A call that starts to supervise: LDDM's process was nobody's.
LEMMA SuperviseAttends ==
    ASSUME SessionInv, NEW c \in Callers, Pc(c) = "await", Write(c, "GUI_READY"), Supervise(c)
    PROVE  TransientAttended' /\ UpAttended' /\ AwaitsOwn'
<1>1. /\ TypeInv /\ CallsInOrder /\ TransientAttended /\ UpAttended /\ AwaitsOwn /\ SupOK
      /\ call[c].sid \in Sids /\ call[c].proc \in Pids
  BY TypeParts DEF SessionInv, TypeInv, CallsInOrder, CallInOrder, Pc, StartLabels
<1>2. Pc(c)' = "idle" /\ \A d \in Callers \ {c} : call'[d] = call[d]
  BY <1>1, Returns DEF Supervise
<1>3. /\ sessionMap'[call[c].sid].state = "GUI_READY"
      /\ \A s \in Sids \ {call[c].sid} : sessionMap'[s] = sessionMap[s]
  <2>1. /\ sessionMap'[call[c].sid] = [env |-> call[c].env, mode |-> call[c].mode, state |-> "GUI_READY"]
        /\ \A s \in Sids \ {call[c].sid} : sessionMap'[s] = sessionMap[s]
    BY <1>1, Stores DEF TypeInv, States, ActiveStates
  <2> QED BY <2>1
<1>4. /\ sup'[call[c].proc] = [sid |-> call[c].sid, seen |-> NoSession]
      /\ \A p \in Pids \ {call[c].proc} : sup'[p] = sup[p]
      /\ sup[call[c].proc] = NoSession
  BY <1>1 DEF Supervise, SupOK, AwaitsOwn
<1>5. sup'[call[c].proc] # NoSession /\ sup'[call[c].proc].sid = call[c].sid
  <2>1. [sid |-> call[c].sid, seen |-> NoSession] \in Supervisions
    BY <1>1 DEF Supervisions
  <2> QED BY <1>4, <2>1, SessionAssumption
<1>6. \A s \in {call[c].sid} : Supervised(s)'
  <2>1. \E p \in Pids : sup'[p] # NoSession /\ sup'[p].sid = call[c].sid
    BY <1>1, <1>5
  <2> QED BY <2>1 DEF Supervised
<1>7. \A s \in Sids : Supervised(s) => Supervised(s)'
  BY <1>4 DEF Supervised
<1>8. TransientAttended' /\ UpAttended'
  BY <1>1, <1>2, <1>3, <1>6, <1>7, Attends DEF Transient
<1>9. AwaitsOwn'
  <2> SUFFICES ASSUME NEW d \in Callers, Pc(d)' = "await"
               PROVE  /\ sup'[call'[d].proc] = NoSession
                      /\ \A e \in Callers \ {d} : Pc(e)' = "await" => call'[e].proc # call'[d].proc
    BY DEF AwaitsOwn
  <2>1. d # c /\ call'[d] = call[d] /\ Pc(d) = "await" /\ call[d].proc \in Pids
    BY <1>1, <1>2 DEF Pc, CallsInOrder, CallInOrder
  <2>2. call[d].proc # call[c].proc
    BY <1>1, <2>1 DEF AwaitsOwn
  <2> QED BY <1>1, <1>2, <1>4, <2>1, <2>2 DEF AwaitsOwn, Pc
<1> QED BY <1>8, <1>9

\* The other steps of a call.
LEMMA TakesAttend ==
    ASSUME SessionInv, NEW c \in Callers, UNCHANGED sup,
           \/ LaunchProbe(c) \/ LaunchLddm(c) \/ LaunchShell(c) \/ ProbeExits(c) \/ ConnectLauncher(c)
           \/ StopRuntime(c) \/ StopProcess(c) \/ ShellKilled(c) \/ ProcessStopped(c)
           \/ StopCancelled(c)
    PROVE  TransientAttended' /\ UpAttended'
<1>0. /\ TypeInv /\ TypeOK /\ CallsInOrder /\ TransientAttended /\ UpAttended /\ CallInOrder(call[c])
      /\ call[c].sid \in Sids \cup {NoSession}
  BY DEF SessionInv, TypeInv, CallsInOrder, Calls
<1>1. CASE LaunchProbe(c) \/ LaunchLddm(c)
  <2>1. UNCHANGED sessionMap /\ Pc(c) \in {"prepare", "lddm"}
    BY <1>1 DEF LaunchProbe, LaunchLddm
  <2>2. /\ Pc(c)' \in StartLabels \ {"verify"} /\ call'[c].sid = call[c].sid
        /\ \A d \in Callers \ {c} : call'[d] = call[d]
    <3>1. CASE \E kind \in {"probe", "lddm"}, l \in {"probeWait", "await"} : Launch(c, kind, l)
      <4>1. PICK kind \in {"probe", "lddm"}, l \in {"probeWait", "await"} : Launch(c, kind, l)
        BY <3>1
      <4>2. Pc(c) # "idle" /\ Pc(c) \in StartLabels
        BY <2>1 DEF StartLabels
      <4>3. /\ Pc(c)' = l /\ call'[c].sid = call[c].sid
            /\ \A d \in Callers \ {c} : call'[d] = call[d]
        BY <1>0, <4>1, <4>2, Launches
      <4> QED BY <4>3 DEF StartLabels
    <3>2. CASE Goto(c, "failed")
      <4>1. /\ Pc(c)' = "failed" /\ call'[c].sid = call[c].sid
            /\ \A d \in Callers \ {c} : call'[d] = call[d]
        BY <1>0, <3>2, Goes DEF Labels, StartLabels
      <4> QED BY <4>1 DEF StartLabels
    <3> QED BY <1>1, <3>1, <3>2 DEF LaunchProbe, LaunchLddm
  <2> QED BY <1>0, <2>1, <2>2, StartsOn
<1>2. CASE LaunchShell(c)
  <2>1. ~Writing(call[c])
    BY <1>0, <1>2 DEF LaunchShell, Writing, CallInOrder, Pc, StartLabels, AfterLabels
  <2>2. \A d \in Callers \ {c} : call'[d] = call[d]
    BY <1>0, <1>2, Launches DEF LaunchShell, AfterLabels
  <2> QED BY <1>0, <1>2, <2>1, <2>2, Idles DEF LaunchShell
<1>3. CASE ProbeExits(c)
  <2>1. Pc(c) # "idle" /\ Writes(c)
    BY <1>0, <1>3, ProbeExitsTakes DEF ProbeExits
  <2>2. /\ Pc(c)' \in StartLabels \ {"verify"} /\ call'[c].sid = call[c].sid
        /\ \A d \in Callers \ {c} : call'[d] = call[d]
    <3>1. PICK l \in {"cli", "gui", "failed"} : Takes(c, l, NoProcess, call[c].todo)
      BY <1>0, <1>3, ProbeExitsTakes
    <3> QED BY <3>1 DEF Takes, StartLabels
  <2> QED BY <1>0, <2>1, <2>2, OneWrite, StartsOn
<1>4. CASE ConnectLauncher(c)
  <2>1. /\ Pc(c)' \in StartLabels \ {"verify"} /\ call'[c].sid = call[c].sid
        /\ \A d \in Callers \ {c} : call'[d] = call[d]
    <3>1. /\ Pc(c)' = "desktop" /\ call'[c].sid = call[c].sid
          /\ \A d \in Callers \ {c} : call'[d] = call[d]
      BY <1>0, <1>4, Goes DEF ConnectLauncher, Labels, StartLabels
    <3> QED BY <3>1 DEF StartLabels
  <2> QED BY <1>0, <1>4, <2>1, StartsOn DEF ConnectLauncher
<1>5. CASE StopRuntime(c) \/ StopProcess(c) \/ ProcessStopped(c)
  <2>1. /\ Pc(c)' \in StopLabels /\ call'[c].sid = call[c].sid /\ call'[c].op = call[c].op
        /\ \A d \in Callers \ {c} : call'[d] = call[d]
    BY <1>0, <1>5, StopRuntimeTakes, StopProcessTakes, ProcessStoppedTakes DEF Takes, StopLabels
  <2>2. Pc(c) \in StopLabels /\ UNCHANGED sessionMap
    BY <1>5 DEF StopRuntime, StopProcess, ProcessStopped, StopLabels
  <2> QED BY <1>0, <2>1, <2>2, StopsOn
<1>6. CASE StopCancelled(c)
  <2>1. Pc(c) = "kill" /\ \A d \in Callers \ {c} : call'[d] = call[d]
    BY <1>0, <1>6, Returns DEF StopCancelled
  <2>2. CASE call[c].op = "stop" /\ call[c].sid # NoSession
    <3>1. /\ Settled(sessionMap'[call[c].sid])
          /\ \A s \in Sids \ {call[c].sid} : sessionMap'[s] = sessionMap[s]
      BY <1>0, <1>6, <2>1, <2>2, LastWrite DEF StopCancelled, States, EndedStates
    <3> QED BY <1>0, <2>1, <3>1, Ends
  <2>3. CASE ~(call[c].op = "stop" /\ call[c].sid # NoSession)
    <3>1. ~Writing(call[c])
      BY <2>1, <2>3 DEF Writing, Pc, StartLabels
    <3>2. UNCHANGED sessionMap
      BY <1>6, <2>3 DEF StopCancelled
    <3> QED BY <1>0, <2>1, <3>1, <3>2, Idles
  <2> QED BY <2>2, <2>3
<1>7. CASE ShellKilled(c)
  <2>1. Pc(c) = "closing" /\ UNCHANGED sessionMap
    BY <1>7 DEF ShellKilled
  <2>2. CASE call[c].op = "close"
    <3>1. ~Writing(call[c])
      BY <2>1, <2>2 DEF Writing, Pc, StartLabels
    <3>2. \A d \in Callers \ {c} : call'[d] = call[d]
      BY <1>0, <1>7, <2>2, ShellKilledTypes, Returns
    <3> QED BY <1>0, <2>1, <3>1, <3>2, Idles
  <2>3. CASE call[c].op # "close"
    <3>1. /\ Pc(c)' \in StopLabels /\ call'[c].sid = call[c].sid /\ call'[c].op = call[c].op
          /\ \A d \in Callers \ {c} : call'[d] = call[d]
      BY <1>0, <1>7, <2>3, ShellKilledTypes DEF Takes, StopLabels
    <3>2. Pc(c) \in StopLabels
      BY <2>1 DEF StopLabels
    <3> QED BY <1>0, <2>1, <3>1, <3>2, StopsOn
  <2> QED BY <2>2, <2>3
<1> QED BY <1>1, <1>2, <1>3, <1>4, <1>5, <1>6, <1>7

\* Supervision never writes a transient state, and goes away only when the
\* session has ended or is being stopped.
LEMMA SupervisionAttends ==
    ASSUME SessionInv, NEW p \in Pids, SupervisorReads(p) \/ SupervisorWrites(p)
    PROVE  TransientAttended' /\ UpAttended' /\ AwaitsOwn'
<1>1. /\ TypeInv /\ CallsInOrder /\ TransientAttended /\ UpAttended /\ AwaitsOwn /\ SupOK /\ MapOK
  BY TypeParts DEF SessionInv, TypeInv
<1>2. /\ sup[p] # NoSession /\ sup[p] \in Supervisions /\ sup[p].sid \in Sids /\ UNCHANGED call
      /\ sessionMap[sup[p].sid] \in Sessions
  BY <1>1 DEF SupervisorReads, SupervisorWrites, Asleep, HasRead, SupOK, MapOK, Supervisions,
              TypeInv, Kept, Stored
<1>3. \A s \in Sids : Attended(s) => Attended(s)'
  BY <1>2 DEF Attended
<1>4. /\ \A q \in Pids \ {p} : sup'[q] = sup[q]
      /\ \A s \in Sids \ {sup[p].sid} : sessionMap'[s] = sessionMap[s]
      /\ \/ sessionMap'[sup[p].sid] = sessionMap[sup[p].sid]
         \/ sessionMap'[sup[p].sid].state \in Observable
      /\ \/ sup'[p] # NoSession /\ sup'[p].sid = sup[p].sid
         \/ sessionMap'[sup[p].sid].state \in EndedStates \cup {"STOPPING"}
  <2>1. \A k \in Sessions \cup {NoSession} :
          LET n == [sup[p] EXCEPT !.seen = k] IN n # NoSession /\ n.sid = sup[p].sid
    <3>1. \A k \in Sessions \cup {NoSession} : [sup[p] EXCEPT !.seen = k] \in Supervisions
      BY <1>2 DEF Supervisions
    <3> QED BY <1>2, <3>1, SessionAssumption DEF Supervisions
  <2>2. CASE SupervisorReads(p)
    <3>1. CASE sessionMap[sup[p].sid].state \in EndedStates \cup {"STOPPING"}
      <4>1. sup' = [sup EXCEPT ![p] = NoSession] /\ UNCHANGED sessionMap
        BY <2>2, <3>1 DEF SupervisorReads
      <4> QED BY <1>1, <3>1, <4>1 DEF SupOK
    <3>2. CASE sessionMap[sup[p].sid].state \notin EndedStates \cup {"STOPPING"}
      <4>1. /\ sup' = [sup EXCEPT ![p] = [sup[p] EXCEPT !.seen = sessionMap[sup[p].sid]]]
            /\ UNCHANGED sessionMap
        BY <1>1, <2>2, <3>2 DEF SupervisorReads, SupOK
      <4> QED BY <1>1, <1>2, <2>1, <4>1 DEF SupOK
    <3> QED BY <3>1, <3>2
  <2>3. CASE SupervisorWrites(p)
    <3>1. PICK report \in Reports :
             IF report \in {"none", sup[p].seen.state}
             THEN sup' = [sup EXCEPT ![p].seen = NoSession] /\ UNCHANGED sessionMap
             ELSE /\ sessionMap' = [sessionMap EXCEPT ![sup[p].sid] = [sup[p].seen EXCEPT !.state = report]]
                  /\ IF report \in EndedStates
                     THEN sup' = [sup EXCEPT ![p] = NoSession]
                     ELSE sup' = [sup EXCEPT ![p].seen = NoSession]
      BY <2>3 DEF SupervisorWrites
    <3>2. sup[p].seen \in Sessions
      BY <1>2, <2>3 DEF SupervisorWrites, HasRead, Supervisions
    <3>3. /\ \A s \in Sids \ {sup[p].sid} : sessionMap'[s] = sessionMap[s]
          /\ report \in {"none", sup[p].seen.state} => UNCHANGED sessionMap
          /\ report \notin {"none", sup[p].seen.state} => sessionMap'[sup[p].sid].state = report
      BY <1>1, <1>2, <3>1, <3>2 DEF MapOK, Sessions
    <3>4. \/ /\ sup' = [sup EXCEPT ![p] = NoSession] /\ report \in EndedStates
             /\ report \notin {"none", sup[p].seen.state}
          \/ sup' = [sup EXCEPT ![p] = [sup[p] EXCEPT !.seen = NoSession]]
      BY <1>1, <3>1 DEF SupOK
    <3>5. report \in Observable \cup {"none"}
      BY SessionAssumption DEF Reports
    <3>6. /\ \A q \in Pids \ {p} : sup'[q] = sup[q]
          /\ \/ sup'[p] # NoSession /\ sup'[p].sid = sup[p].sid
             \/ report \in EndedStates /\ report \notin {"none", sup[p].seen.state}
      <4>1. CASE sup' = [sup EXCEPT ![p] = NoSession] /\ report \in EndedStates
                 /\ report \notin {"none", sup[p].seen.state}
        BY <1>1, <4>1 DEF SupOK
      <4>2. CASE sup' = [sup EXCEPT ![p] = [sup[p] EXCEPT !.seen = NoSession]]
        <5>1. sup'[p] = [sup[p] EXCEPT !.seen = NoSession] /\ \A q \in Pids \ {p} : sup'[q] = sup[q]
          BY <1>1, <4>2 DEF SupOK
        <5> QED BY <2>1, <5>1
      <4> QED BY <3>4, <4>1, <4>2
    <3> QED BY <3>3, <3>5, <3>6
  <2> QED BY <2>2, <2>3
<1>5. TransientAttended'
  BY <1>1, <1>2, <1>3, <1>4 DEF TransientAttended, Stored, Observable, Transient
<1>6. UpAttended'
  <2> SUFFICES ASSUME NEW s \in Sids, IsActive(s)', sessionMap'[s].mode = "GUI"
               PROVE  Supervised(s)' \/ Attended(s)'
    BY DEF UpAttended
  <2>1. CASE s # sup[p].sid
    <3>1. Supervised(s) \/ Attended(s)
      BY <1>1, <1>4, <2>1 DEF UpAttended, IsActive, Stored
    <3>2. Supervised(s) => Supervised(s)'
      BY <1>4, <2>1 DEF Supervised
    <3> QED BY <1>3, <3>1, <3>2
  <2>2. CASE s = sup[p].sid
    <3>1. CASE sup'[p] # NoSession /\ sup'[p].sid = sup[p].sid
      BY <2>2, <3>1 DEF Supervised
    <3>2. CASE sessionMap'[s].state \in EndedStates \cup {"STOPPING"}
      <4>1. sessionMap'[s].state = "STOPPING" /\ Stored(s)'
        BY <3>2 DEF IsActive, ActiveStates, EndedStates
      <4> QED BY <1>5, <4>1 DEF TransientAttended, Transient
    <3> QED BY <1>4, <2>2, <3>1, <3>2
  <2> QED BY <2>1, <2>2
<1>7. AwaitsOwn'
  <2>1. \A c \in Callers : Pc(c) = "await" => call[c].proc \in Pids
    BY <1>1 DEF CallsInOrder, CallInOrder, Pc
  <2> QED BY <1>1, <1>2, <1>4, <2>1 DEF AwaitsOwn, Pc
<1> QED BY <1>5, <1>6, <1>7

LEMMA AwaitsKept ==
    ASSUME AwaitsOwn, NEW c \in Callers, \A d \in Callers \ {c} : call'[d] = call[d], UNCHANGED sup,
           Pc(c)' = "await" => Pc(c) = "await" /\ call'[c].proc = call[c].proc
    PROVE  AwaitsOwn'
BY DEF AwaitsOwn, Pc

\* A process that nothing refers to is launched for LDDM.
LEMMA AwaitsNew ==
    ASSUME TypeInv, AwaitsOwn, NEW c \in Callers, Pc(c) = "lddm", Launch(c, "lddm", "await"),
           UNCHANGED sup
    PROVE  AwaitsOwn'
<1>1. TypeOK /\ CallsInOrder /\ Pc(c) \in StartLabels /\ Pc(c) # "idle"
  BY DEF TypeInv, StartLabels
<1>2. Pc(c)' = "await" /\ \A d \in Callers \ {c} : call'[d] = call[d]
  BY <1>1, Launches
<1>3. PICK p \in Pids : Unused(p) /\ call'[c].proc = p
  BY <1>1, Launches
<1>4. sup[p] = NoSession /\ \A d \in Callers : call[d].proc # p
  BY <1>3 DEF Unused
<1> QED BY <1>2, <1>3, <1>4 DEF AwaitsOwn, Pc

\* Every step of every action keeps the sessions attended to.
LEMMA SessionStep == SessionInv /\ [Next]_vars => SessionInv'
<1> SUFFICES ASSUME SessionInv, [Next]_vars PROVE SessionInv'
  OBVIOUS
<1> DEFINE Goal == TransientAttended' /\ UpAttended' /\ AwaitsOwn'
<1>0. TypeInv /\ TypeOK /\ CallsInOrder /\ TransientAttended /\ UpAttended /\ AwaitsOwn
  BY DEF SessionInv, TypeInv
<1>1. TypeInv'
  BY <1>0, TypeStep
<1>2. ASSUME NEW c \in Callers, Opens(c) PROVE Goal
  <2>1. /\ Pc(c) = "idle" /\ Pc(c)' # "await" /\ UNCHANGED <<sessionMap, sup>>
        /\ \A d \in Callers \ {c} : call'[d] = call[d]
    BY <1>0, <1>2, OpensWhen
  <2>2. ~Writing(call[c])
    BY <2>1 DEF Writing, Pc, StartLabels, StopLabels
  <2> QED BY <1>0, <2>1, <2>2, Idles, AwaitsKept
<1>3. ASSUME NEW c \in Callers, NEW p \in Pids, CloseTerminal(c, p) PROVE Goal
  <2>1. /\ Pc(c) = "idle" /\ Pc(c)' # "await" /\ UNCHANGED <<sessionMap, sup>>
        /\ \A d \in Callers \ {c} : call'[d] = call[d]
    BY <1>0, <1>3, CloseTerminalWhen
  <2>2. ~Writing(call[c])
    BY <2>1 DEF Writing, Pc, StartLabels, StopLabels
  <2> QED BY <1>0, <2>1, <2>2, Idles, AwaitsKept
<1>4. ASSUME NEW c \in Callers, Walk(c) PROVE Goal
  <2>1. UNCHANGED sup
    BY <1>4 DEF Walk, VerifyFails, Register, PrepareFails, CliReady, StartThrows, StartCompositor,
                StartHost, StartLddm, ShellReturns, CancelStart, StartFails, TearDown, StoreStopping,
                DisconnectLauncher, StopHost, Stopped
  <2>2. Return(c) \/ \E l \in Labels \ {"await", "gone"} : Goto(c, l)
    BY <1>4, WalkGoes
  <2>3. Pc(c)' # "await" /\ \A d \in Callers \ {c} : call'[d] = call[d]
    BY <1>0, <2>2, Goes, Returns
  <2>4. AwaitsOwn'
    BY <1>0, <2>1, <2>3, AwaitsKept
  <2> QED BY <1>4, <2>4, WalkAttends
<1>5. ASSUME NEW c \in Callers, LaunchLddm(c) PROVE Goal
  <2>1. CASE Launch(c, "lddm", "await")
    BY <1>0, <1>5, <2>1, AwaitsNew, TakesAttend DEF LaunchLddm
  <2>2. CASE Goto(c, "failed")
    <3>1. Pc(c)' = "failed" /\ \A d \in Callers \ {c} : call'[d] = call[d]
      BY <1>0, <2>2, Goes DEF Labels, StartLabels
    <3>2. AwaitsOwn'
      BY <1>0, <1>5, <3>1, AwaitsKept DEF LaunchLddm
    <3> QED BY <1>5, <3>2, TakesAttend DEF LaunchLddm
  <2> QED BY <1>5, <2>1, <2>2 DEF LaunchLddm
<1>6. ASSUME NEW c \in Callers,
             \/ LaunchProbe(c) \/ LaunchShell(c) \/ ProbeExits(c) \/ ConnectLauncher(c)
             \/ StopRuntime(c) \/ StopProcess(c) \/ ShellKilled(c) \/ ProcessStopped(c)
             \/ StopCancelled(c)
      PROVE  Goal
  <2>1. UNCHANGED sup
    BY <1>6 DEF LaunchProbe, LaunchShell, ProbeExits, ConnectLauncher, StopRuntime, StopProcess,
                ShellKilled, ProcessStopped, StopCancelled
  <2>2. Pc(c)' # "await" /\ \A d \in Callers \ {c} : call'[d] = call[d]
    <3>1. CASE LaunchProbe(c) \/ LaunchShell(c)
      BY <1>0, <3>1, Launches DEF LaunchProbe, LaunchShell, StartLabels, AfterLabels
    <3>2. CASE ProbeExits(c)
      <4>1. PICK l \in {"cli", "gui", "failed"} : Takes(c, l, NoProcess, call[c].todo)
        BY <1>0, <3>2, ProbeExitsTakes
      <4> QED BY <4>1 DEF Takes
    <3>3. CASE ConnectLauncher(c)
      <4>1. Goto(c, "desktop") /\ "desktop" \in Labels
        BY <3>3 DEF ConnectLauncher, Labels, StartLabels
      <4>2. Pc(c)' = "desktop" /\ \A d \in Callers \ {c} : call'[d] = call[d]
        BY <1>0, <4>1, Goes
      <4> QED BY <4>2
    <3>4. CASE StopRuntime(c) \/ StopProcess(c) \/ ProcessStopped(c)
      BY <1>0, <3>4, StopRuntimeTakes, StopProcessTakes, ProcessStoppedTakes DEF Takes
    <3>5. CASE StopCancelled(c)
      BY <1>0, <3>5, Returns DEF StopCancelled
    <3>6. CASE ShellKilled(c)
      BY <1>0, <3>6, ShellKilledTypes, Returns DEF Takes
    <3> QED BY <1>6, <3>1, <3>2, <3>3, <3>4, <3>5, <3>6
  <2>3. AwaitsOwn'
    BY <1>0, <2>1, <2>2, AwaitsKept
  <2> QED BY <1>6, <2>1, <2>3, TakesAttend
<1>7. ASSUME NEW c \in Callers, AwaitReadiness(c) PROVE Goal
  <2>1. PICK st \in Watched :
              /\ Write(c, st)
              /\ \/ st = "GUI_READY" /\ Supervise(c)
                 \/ Takes(c, "await", call[c].proc, call[c].todo) /\ UNCHANGED sup
    BY <1>0, <1>7, AwaitRound
  <2>2. Pc(c) = "await" /\ call[c].sid \in Sids /\ st \in States
    BY <1>0, <1>7 DEF AwaitReadiness, CallsInOrder, CallInOrder, Pc, StartLabels, Watched,
                      Observable, States, ActiveStates, EndedStates
  <2>3. CASE st = "GUI_READY" /\ Supervise(c)
    BY <2>1, <2>2, <2>3, SuperviseAttends
  <2>4. CASE Takes(c, "await", call[c].proc, call[c].todo) /\ UNCHANGED sup
    <3>1. /\ Pc(c)' = "await" /\ call'[c].proc = call[c].proc /\ call'[c].sid = call[c].sid
          /\ \A d \in Callers \ {c} : call'[d] = call[d]
      BY <2>4 DEF Takes
    <3>2. \A s \in Sids \ {call[c].sid} : sessionMap'[s] = sessionMap[s]
      BY <1>0, <2>1, <2>2, Stores
    <3>3. "await" \in StartLabels \ {"verify"}
      BY DEF StartLabels
    <3> QED BY <1>0, <2>2, <2>4, <3>1, <3>2, <3>3, StartsOn, AwaitsKept
  <2> QED BY <2>1, <2>3, <2>4
<1>8. ASSUME NEW c \in Callers, AwaitDeadline(c) PROVE Goal
  BY <1>8, SuperviseAttends DEF AwaitDeadline
<1>9. ASSUME NEW p \in Pids, SupervisorReads(p) \/ SupervisorWrites(p) PROVE Goal
  BY <1>9, SupervisionAttends
<1>10. ASSUME UNCHANGED <<sessionMap, call, sup>> PROVE Goal
  BY <1>0, <1>10 DEF TransientAttended, UpAttended, AwaitsOwn, Stored, IsActive, Attended,
                     Supervised, Pc
<1>11. Goal
  BY <1>2, <1>3, <1>4, <1>5, <1>6, <1>7, <1>8, <1>9, <1>10
     DEF Next, CallStep, Opens, Walk, vars, ProcessEnds, RequestApp, LaunchApp
<1> QED BY <1>1, <1>11 DEF SessionInv

LEMMA SessionInvariant == Spec => []SessionInv
<1>1. Init => SessionInv
  <2> SUFFICES ASSUME Init PROVE SessionInv
    OBVIOUS
  <2>1. TypeInv
    BY TypeInit
  <2>2. TransientAttended /\ UpAttended
    BY DEF Init, TransientAttended, UpAttended, IsActive, Stored
  <2>3. AwaitsOwn
    BY IdleIsCall DEF Init, AwaitsOwn, Pc
  <2> QED BY <2>1, <2>2, <2>3 DEF SessionInv
<1> QED BY <1>1, SessionStep, PTL DEF Spec

LEMMA WritingIsInFlight ==
    ASSUME TypeInv, NEW s \in Sids, Attended(s)
    PROVE  InFlight(s)
BY DEF Attended, InFlight, Writing, Pc, StartLabels, StopLabels

(* No order of starts, stops, failures, cancellations and supervision, in  *)
(* which each writes back its own copy of the session, leaves a session    *)
(* STARTING or STOPPING with no call in progress that will lead it out.    *)
THEOREM TransientSafety == Spec => []TransientIsOwned
<1>1. SessionInv => TransientIsOwned
  BY WritingIsInFlight DEF SessionInv, TransientAttended, TransientIsOwned
<1> QED BY <1>1, SessionInvariant, PTL

(* A GUI session that is up is supervised, or a call of it is in progress: *)
(* supervision is not lost when calls overlap, when its process ends and   *)
(* its handle is used again, or when it stores what LDDM reports.          *)
THEOREM SupervisionSafety == Spec => []SupervisedWhileUp
<1>1. SessionInv => SupervisedWhileUp
  BY WritingIsInFlight DEF SessionInv, UpAttended, SupervisedWhileUp, Supervised
<1> QED BY <1>1, SessionInvariant, PTL

\* Who changes the session of an id, and to what.
LEMMA MapChanges ==
    ASSUME TypeInv, [Next]_vars, NEW s \in Sids, sessionMap'[s] # sessionMap[s]
    PROVE  \/ \E c \in Callers : call[c].op \in {"start", "shell"} /\ call[c].sid = s
           \/ \E p \in Pids : HasRead(p) /\ sup[p].sid = s
           \/ sessionMap'[s].state \in EndedStates \cup {"STOPPING"}
<1> DEFINE Goal ==
        \/ \E c \in Callers : call[c].op \in {"start", "shell"} /\ call[c].sid = s
        \/ \E p \in Pids : HasRead(p) /\ sup[p].sid = s
        \/ sessionMap'[s].state \in EndedStates \cup {"STOPPING"}
<1>0. TypeOK /\ CallsInOrder /\ MapOK /\ SupOK
  BY TypeParts DEF TypeInv
<1>1. ASSUME NEW c \in Callers, Pc(c) \in StartLabels, Writes(c) PROVE Goal
  <2>1. Pc(c) # "idle" /\ call[c].op \in {"start", "shell"}
    BY <1>0, <1>1 DEF StartLabels, CallsInOrder, CallInOrder, Pc
  <2>2. s = call[c].sid
    BY <1>1, <2>1, OneWrite
  <2> QED BY <2>1, <2>2
<1>2. ASSUME NEW c \in Callers, NEW st \in {"STOPPED", "FAILED"}, Write(c, st) PROVE Goal
  BY <1>0, <1>2 DEF Write, MapOK, EndedStates
<1>3. ASSUME NEW c \in Callers, StoreStopping(c) PROVE Goal
  BY <1>0, <1>3 DEF StoreStopping, Write, MapOK
<1>4. ASSUME NEW c \in Callers,
             \/ Register(c) \/ CliReady(c) \/ StartCompositor(c) \/ StartLddm(c) \/ StartFails(c)
             \/ AwaitDeadline(c)
      PROVE  Goal
  <2>1. Pc(c) \in StartLabels
    BY <1>4 DEF Register, CliReady, StartCompositor, StartLddm, StartFails, AwaitDeadline, StartLabels
  <2>2. call[c].sid \in Sids
    BY <1>0, <2>1 DEF CallsInOrder, CallInOrder, Pc
  <2>3. \E st \in States : Write(c, st)
    BY <1>4 DEF Register, CliReady, StartCompositor, StartLddm, StartFails, AwaitDeadline, States,
                ActiveStates, EndedStates
  <2> QED BY <1>1, <2>1, <2>2, <2>3 DEF Writes
<1>5. ASSUME NEW c \in Callers, ProbeExits(c) PROVE Goal
  BY <1>1, <1>5, ProbeExitsTakes DEF ProbeExits, StartLabels
<1>6. ASSUME NEW c \in Callers, AwaitReadiness(c) PROVE Goal
  <2>1. Pc(c) \in StartLabels /\ Watched \subseteq States
    BY <1>6 DEF AwaitReadiness, StartLabels, Watched, Observable, States, ActiveStates, EndedStates
  <2>2. call[c].sid \in Sids
    BY <1>0, <2>1 DEF CallsInOrder, CallInOrder, Pc
  <2>3. \E st \in Watched : Write(c, st)
    BY <1>6, AwaitRound
  <2> QED BY <1>1, <2>1, <2>2, <2>3 DEF Writes
<1>7. ASSUME NEW c \in Callers, Stopped(c) \/ StopCancelled(c) PROVE Goal
  BY <1>2, <1>7 DEF Stopped, StopCancelled
<1>8. ASSUME NEW p \in Pids, SupervisorWrites(p) PROVE Goal
  BY <1>0, <1>8 DEF SupervisorWrites, MapOK
<1>9. ~UNCHANGED sessionMap
  OBVIOUS
<1>10. ASSUME NEW c \in Callers, CallStep(c) PROVE Goal
  BY <1>3, <1>4, <1>5, <1>7, <1>9, <1>10
     DEF CallStep, VerifyFails, PrepareFails, LaunchProbe, StartThrows, StartHost, ConnectLauncher,
         LaunchLddm, LaunchShell, ShellReturns, TearDown, DisconnectLauncher, StopHost,
         StopRuntime, StopProcess, ShellKilled, ProcessStopped
<1> QED BY <1>6, <1>7, <1>8, <1>9, <1>10
        DEF Next, StartSession, StartShell, StopEnvironment, StopSession, CloseTerminal, CancelStart,
            SupervisorReads, ProcessEnds, RequestApp, LaunchApp, vars

(* A session that has ended comes back only through a start of it that is  *)
(* in progress, through a supervision that read it before it ended, or as  *)
(* STOPPING.                                                               *)
THEOREM EndedSafety == Spec => EndedStaysEnded
<1> DEFINE Revived ==
        \A s \in Sids :
           Stored(s) /\ ~IsActive(s) /\ IsActive(s)'
              => \/ \E c \in Callers : call[c].op \in {"start", "shell"} /\ call[c].sid = s
                 \/ \E p \in Pids : HasRead(p) /\ sup[p].sid = s
                                           /\ sup[p].seen.state \in ActiveStates \ {"STOPPING"}
                 \/ sessionMap'[s].state = "STOPPING"
<1>1. TypeInv /\ [Next]_vars => [Revived]_vars
  <2> SUFFICES ASSUME TypeInv, [Next]_vars, NEW s \in Sids, Stored(s), ~IsActive(s), IsActive(s)'
               PROVE  \/ \E c \in Callers : call[c].op \in {"start", "shell"} /\ call[c].sid = s
                      \/ \E p \in Pids : HasRead(p) /\ sup[p].sid = s
                                           /\ sup[p].seen.state \in ActiveStates \ {"STOPPING"}
                      \/ sessionMap'[s].state = "STOPPING"
    OBVIOUS
  <2>1. sessionMap'[s] # sessionMap[s]
    BY DEF IsActive, Stored
  <2>2. sessionMap'[s].state \notin EndedStates
    BY DEF IsActive, ActiveStates, EndedStates
  <2>3. \A p \in Pids : HasRead(p) => sup[p].seen.state \in ActiveStates \ {"STOPPING"}
    BY DEF TypeInv, Kept
  <2> QED BY <2>1, <2>2, <2>3, MapChanges
<1>2. Spec => [][Revived]_vars
  BY <1>1, TypeInvariant, PTL DEF Spec
<1> QED BY <1>2 DEF EndedStaysEnded
===============================================================================
