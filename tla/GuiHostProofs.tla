---------------------------- MODULE GuiHostProofs ----------------------------
(* Proofs about GuiHost, for any number of threads that call start() and   *)
(* stop(), with or without failing initialisations.                        *)
EXTENDS GuiHost, TLAPS

-----------------------------------------------------------------------------
(* The inductive invariant.                                                *)

\* lifecycle_mutex_ has one holder.
OneHolder ==
    \A c, d \in Callers :
        caller[c] \in HoldsMutex /\ caller[d] \in HoldsMutex => c = d

\* While start() holds it across a join, nobody else changes the state.
HolderState ==
    \A c \in Callers :
        /\ caller[c] \in {"joinOld", "spawn"} => state = "STARTING"
        /\ caller[c] \in {"joinFailed", "failed"} => state \in {"STOPPED", "STOPPING"}

\* The output lives from its creation to the destruction of the compositor.
OutputLifetime ==
    worker \in {"attach", "enable", "ready", "loop", "teardown"} => output = "live"

\* Only stop() clears the run flag of a loop, after it has left RUNNING.
LoopRuns ==
    state = "RUNNING" =>
        worker \in {"ready", "loop"} /\ (worker = "loop" => run)

\* A host that is STOPPING is being stopped by someone.
StopperPresent ==
    state = "STOPPING" =>
        \E d \in Callers : caller[d] \in {"joinStopped", "relock", "crashed"}

HostInv ==
    /\ TypeOK /\ OneHolder /\ HolderState /\ OutputLifetime /\ LoopRuns
    /\ StopperPresent /\ NoForgottenWaiter

-----------------------------------------------------------------------------
(* Every step of a caller, of the worker and of the UI thread keeps the    *)
(* types.                                                                  *)
LEMMA TypeStep == TypeOK /\ [Next]_vars => TypeOK'
<1> SUFFICES ASSUME TypeOK, [Next]_vars PROVE TypeOK'
  OBVIOUS
<1> USE HostAssumption
        DEF TypeOK, CallerLabels, WaitLabels, WorkerLabels, States, threads,
            At, Goto, Wait, NotifyAll, WorkerGoto
<1>1. ASSUME NEW c \in Callers, StartWaits(c) PROVE TypeOK'
  BY <1>1 DEF StartWaits, StartCall
<1>2. ASSUME NEW c \in Callers, BeginStart(c) PROVE TypeOK'
  BY <1>2 DEF BeginStart, StartsHere, StartCall, Join, Joining
<1>3. ASSUME NEW c \in Callers, BeginStartFails(c) PROVE TypeOK'
  <2>1. starts' \in 0 .. MaxStarts
    BY <1>3 DEF BeginStartFails, StartsHere
  <2>2. /\ caller' \in [Callers -> CallerLabels]
        /\ asleep' \subseteq {d \in Callers : caller'[d] \in WaitLabels}
    BY <1>3 DEF BeginStartFails, StartsHere, StartCall
  <2> QED BY <1>3, <2>1, <2>2 DEF BeginStartFails
<1>4. ASSUME NEW c \in Callers, JoinedOld(c) PROVE TypeOK'
  BY <1>4 DEF JoinedOld
<1>5. ASSUME NEW c \in Callers, SpawnWorker(c) PROVE TypeOK'
  BY <1>5 DEF SpawnWorker
<1>6. ASSUME NEW c \in Callers, StartReturns(c) PROVE TypeOK'
  BY <1>6 DEF StartReturns
<1>7. ASSUME NEW c \in Callers, StartCleansUp(c) PROVE TypeOK'
  BY <1>7 DEF StartCleansUp, Join, Joining
<1>8. ASSUME NEW c \in Callers, JoinedFailed(c) PROVE TypeOK'
  BY <1>8 DEF JoinedFailed
<1>9. ASSUME NEW c \in Callers, StartFails(c) PROVE TypeOK'
  BY <1>9 DEF StartFails
<1>10. ASSUME NEW c \in Callers, StartWaiterReturns(c) PROVE TypeOK'
  BY <1>10 DEF StartWaiterReturns
<1>11. ASSUME NEW c \in Callers, StopWaits(c) PROVE TypeOK'
  BY <1>11 DEF StopWaits, StopCall
<1>12. ASSUME NEW c \in Callers, StopWaiterReturns(c) PROVE TypeOK'
  BY <1>12 DEF StopWaiterReturns
<1>13. ASSUME NEW c \in Callers, BeginStop(c) PROVE TypeOK'
  BY <1>13 DEF BeginStop, StopCall, Join, Joining
<1>14. ASSUME NEW c \in Callers, JoinedStopped(c) PROVE TypeOK'
  BY <1>14 DEF JoinedStopped
<1>15. ASSUME NEW c \in Callers, FinishStop(c) PROVE TypeOK'
  BY <1>15 DEF FinishStop
<1>16. ASSUME NEW c \in Callers, SleepAgain(c) PROVE TypeOK'
  BY <1>16 DEF SleepAgain
<1>17. ASSUME WorkerCreatesOutput PROVE TypeOK'
  BY <1>17 DEF WorkerCreatesOutput
<1>18. ASSUME WorkerAttachesWindow PROVE TypeOK'
  BY <1>18 DEF WorkerAttachesWindow
<1>19. ASSUME WorkerFails PROVE TypeOK'
  BY <1>19 DEF WorkerFails
<1>20. ASSUME WorkerReportsFailure PROVE TypeOK'
  BY <1>20 DEF WorkerReportsFailure
<1>29. ASSUME WorkerClearsOutput PROVE TypeOK'
  BY <1>29 DEF WorkerClearsOutput
<1>21. ASSUME WorkerReportsRunning PROVE TypeOK'
  BY <1>21 DEF WorkerReportsRunning
<1>22. ASSUME DisplayRun PROVE TypeOK'
  BY <1>22 DEF DisplayRun
<1>23. ASSUME DisplayRunReturns PROVE TypeOK'
  BY <1>23 DEF DisplayRunReturns
<1>24. ASSUME WorkerDestroysCompositor PROVE TypeOK'
  BY <1>24 DEF WorkerDestroysCompositor
<1>25. ASSUME WorkerReturns PROVE TypeOK'
  BY <1>25 DEF WorkerReturns
<1>26. ASSUME WindowCall PROVE TypeOK'
  BY <1>26 DEF WindowCall
<1>27. ASSUME WindowCallReturns PROVE TypeOK'
  BY <1>27 DEF WindowCallReturns
<1>28. CASE UNCHANGED vars
  BY <1>28 DEF vars
<1> QED
  BY <1>1, <1>2, <1>3, <1>4, <1>5, <1>6, <1>7, <1>8, <1>9, <1>10, <1>11, <1>12, <1>13, <1>14, <1>15, <1>16, <1>17, <1>18, <1>19, <1>20, <1>21, <1>22, <1>23, <1>24, <1>25, <1>26, <1>27, <1>28, <1>29
  DEF Next, Call, CallerStep, Worker

(* The initial state has the types.                                        *)
LEMMA InitType == Init => TypeOK
<1> SUFFICES ASSUME Init PROVE TypeOK
  OBVIOUS
<1>1. starts \in 0 .. MaxStarts
  BY HostAssumption DEF Init
<1>2. caller \in [Callers -> CallerLabels]
  BY DEF Init, CallerLabels
<1> QED BY <1>1, <1>2 DEF Init, TypeOK, WorkerLabels, States

(* Type correctness of the host's lifecycle.                               *)
THEOREM TypeCorrect == Spec => []TypeOK
<1>1. Init => TypeOK
  BY InitType
<1> QED BY <1>1, TypeStep, PTL DEF Spec

-----------------------------------------------------------------------------
(* The lifecycle invariant.                                                *)

(* Every step keeps the mutex exclusive, the state consistent with the     *)
(* worker, and a notify_all coming for every waiter that may go on.        *)
LEMMA HostStep == HostInv /\ [Next]_vars => HostInv'
<1> SUFFICES ASSUME HostInv, [Next]_vars PROVE HostInv'
  OBVIOUS
<1> TypeOK'
  BY TypeStep DEF HostInv
<1> USE DEF HostInv, TypeOK, OneHolder, HolderState, OutputLifetime, LoopRuns,
            StopperPresent, NoForgottenWaiter, Satisfied, HoldsMutex, JoinsLocked,
            MutexFree, threads, At, Goto, Wait, NotifyAll, WorkerGoto, States
<1>1. ASSUME NEW c \in Callers, StartWaits(c) PROVE HostInv'
  BY <1>1 DEF StartWaits, StartCall
<1>2. ASSUME NEW c \in Callers, BeginStart(c) PROVE HostInv'
  BY <1>2 DEF BeginStart, StartsHere, StartCall, Join, Joining
<1>3. ASSUME NEW c \in Callers, BeginStartFails(c) PROVE HostInv'
  BY <1>3 DEF BeginStartFails, StartsHere, StartCall
<1>4. ASSUME NEW c \in Callers, JoinedOld(c) PROVE HostInv'
  BY <1>4 DEF JoinedOld
<1>5. ASSUME NEW c \in Callers, SpawnWorker(c) PROVE HostInv'
  BY <1>5 DEF SpawnWorker
<1>6. ASSUME NEW c \in Callers, StartReturns(c) PROVE HostInv'
  BY <1>6 DEF StartReturns
<1>7. ASSUME NEW c \in Callers, StartCleansUp(c) PROVE HostInv'
  BY <1>7 DEF StartCleansUp, Join, Joining
<1>8. ASSUME NEW c \in Callers, JoinedFailed(c) PROVE HostInv'
  BY <1>8 DEF JoinedFailed
<1>9. ASSUME NEW c \in Callers, StartFails(c) PROVE HostInv'
  BY <1>9 DEF StartFails
<1>10. ASSUME NEW c \in Callers, StartWaiterReturns(c) PROVE HostInv'
  BY <1>10 DEF StartWaiterReturns
<1>11. ASSUME NEW c \in Callers, StopWaits(c) PROVE HostInv'
  BY <1>11 DEF StopWaits, StopCall
<1>12. ASSUME NEW c \in Callers, StopWaiterReturns(c) PROVE HostInv'
  BY <1>12 DEF StopWaiterReturns
<1>13. ASSUME NEW c \in Callers, BeginStop(c) PROVE HostInv'
  BY <1>13 DEF BeginStop, StopCall, Join, Joining
<1>14. ASSUME NEW c \in Callers, JoinedStopped(c) PROVE HostInv'
  BY <1>14 DEF JoinedStopped
<1>15. ASSUME NEW c \in Callers, FinishStop(c) PROVE HostInv'
  BY <1>15 DEF FinishStop
<1>16. ASSUME NEW c \in Callers, SleepAgain(c) PROVE HostInv'
  BY <1>16 DEF SleepAgain
<1>17. ASSUME WorkerCreatesOutput PROVE HostInv'
  BY <1>17 DEF WorkerCreatesOutput
<1>18. ASSUME WorkerAttachesWindow PROVE HostInv'
  BY <1>18 DEF WorkerAttachesWindow
<1>19. ASSUME WorkerFails PROVE HostInv'
  BY <1>19 DEF WorkerFails
<1>20. ASSUME WorkerReportsFailure PROVE HostInv'
  BY <1>20 DEF WorkerReportsFailure
<1>29. ASSUME WorkerClearsOutput PROVE HostInv'
  BY <1>29 DEF WorkerClearsOutput
<1>21. ASSUME WorkerReportsRunning PROVE HostInv'
  BY <1>21 DEF WorkerReportsRunning
<1>22. ASSUME DisplayRun PROVE HostInv'
  BY <1>22 DEF DisplayRun
<1>23. ASSUME DisplayRunReturns PROVE HostInv'
  BY <1>23 DEF DisplayRunReturns
<1>24. ASSUME WorkerDestroysCompositor PROVE HostInv'
  BY <1>24 DEF WorkerDestroysCompositor
<1>25. ASSUME WorkerReturns PROVE HostInv'
  BY <1>25 DEF WorkerReturns
<1>26. ASSUME WindowCall PROVE HostInv'
  BY <1>26 DEF WindowCall
<1>27. ASSUME WindowCallReturns PROVE HostInv'
  BY <1>27 DEF WindowCallReturns
<1>28. CASE UNCHANGED vars
  BY <1>28 DEF vars
<1> QED
  BY <1>1, <1>2, <1>3, <1>4, <1>5, <1>6, <1>7, <1>8, <1>9, <1>10, <1>11, <1>12, <1>13, <1>14, <1>15, <1>16, <1>17, <1>18, <1>19, <1>20, <1>21, <1>22, <1>23, <1>24, <1>25, <1>26, <1>27, <1>28, <1>29
  DEF Next, Call, CallerStep, Worker

(* The stopped host satisfies it.                                          *)
LEMMA InitHost == Init => HostInv
BY InitType
DEF Init, HostInv, OneHolder, HolderState, OutputLifetime, LoopRuns,
    StopperPresent, NoForgottenWaiter, HoldsMutex, JoinsLocked

(* Whatever the number of concurrent start() and stop() calls, a host that *)
(* reports RUNNING has a live compositor behind it.                        *)
THEOREM RunningSafety == Spec => []RunningIsServed
<1>1. HostInv => RunningIsServed
  BY DEF HostInv, LoopRuns, OutputLifetime, RunningIsServed
<1> QED BY <1>1, InitHost, HostStep, PTL DEF Spec

(* Whatever the number of waiters, none sleeps through the last            *)
(* notify_all that could let it go on.                                     *)
THEOREM WaiterSafety == Spec => []NoForgottenWaiter
<1>1. HostInv => NoForgottenWaiter
  BY DEF HostInv
<1> QED BY <1>1, InitHost, HostStep, PTL DEF Spec
=============================================================================
