-------------------------- MODULE EnvironmentProofs --------------------------
(* Proofs about Environment, for any number of environments, callers,      *)
(* archives and crashes, with and without failing renames.                 *)
EXTENDS Environment, TLAPS

-----------------------------------------------------------------------------
(* The inductive invariants.                                               *)

Gone == {"NONE", "DELETING"}

\* A caller inside withLock, and one inside cloneEnvironment.
Locked(c) == pc[c] \notin Waiting \cup {"idle"}
Cloning(c) == Locked(c) /\ src[c] # env[c]

\* As long as an environment has a record, a call that names it has fetched its
\* first mutex: the map drops that only after the record, and ids are never
\* used again.
WantsFirst ==
    \A c \in Callers : pc[c] # "idle" =>
        /\ env[c] \in used
        /\ db[env[c]] # "NONE" => want[c] = <<env[c], 0>>

\* Who holds which mutex.
HoldsOwn ==
    \A c \in Callers :
        /\ ~Locked(c) => locks[c] = {}
        /\ Busy(c) /\ db[env[c]] # "NONE" => <<env[c], 0>> \in locks[c]
        /\ Cloning(c) => <<src[c], 0>> \in locks[c]
        /\ pc[c] = "unlock" => db[env[c]] = "NONE"
        /\ pc[c] \in {"cloneLock", "copy", "copying"} => src[c] # env[c]
        /\ pc[c] \in Waiting => src[c] = env[c]

Exclusive == \A c, d \in Callers : c # d => locks[c] \cap locks[d] = {}

\* Records are of ids that were generated, and a dropped mutex has none.
Recorded ==
    \A i \in Ids :
        /\ db[i] # "NONE" => i \in used
        /\ gen[i] # 0 => i \in used /\ db[i] = "NONE"

DownIsIdle == ~up => \A c \in Callers : pc[c] = "idle"

LockInv == TypeOK /\ WantsFirst /\ HoldsOwn /\ Exclusive /\ Recorded /\ DownIsIdle

\* The record says what its owner is doing, if it is still there.
OwnerState ==
    \A c \in Callers : Busy(c) =>
        db[env[c]] \in IF pc[c] \in {"wipe", "unlock"} THEN Gone
                       ELSE {"INSTALLING", "CLONING", "RESETTING", "NONE"}

ReadyInv == LockInv /\ OwnerState /\ ReadyIsVerified

\* What reconcileEnvironments has passed is settled.
Reconciled == ~up => \A i \in Ids \ todo : db[i] \notin Interrupted

OwnedInv == ReadyInv /\ InterruptedIsOwned /\ Reconciled

\* Without cancellation: the trees of a record that is not on its way out are
\* absent or complete, but for a backup that is being deleted; an id that is
\* still unused has none.  Versions are numbered as they are extracted.
TreesAt(i) ==
    /\ i \notin used => rootfs[i] = Absent /\ staging[i] = Absent /\ backup[i] = Absent
    /\ db[i] \notin Gone => rootfs[i] # Broken
    /\ db[i] \notin Gone /\ backup[i] = Broken => Valid(rootfs[i])
    /\ rootfs[i] <= versions + 1 /\ staging[i] <= versions + 1 /\ backup[i] <= versions + 1

\* What promoteStagedRootfs works on while the environment has a record, and
\* what a clone copies from: its source keeps its record and its files.
PromoteAt(c) ==
    /\ pc[c] \in {"promote", "promote2"} =>
          /\ Valid(staging[env[c]])
          /\ IF src[c] = env[c]
             THEN rootfs[env[c]] < staging[env[c]] /\ backup[env[c]] < staging[env[c]]
             ELSE staging[env[c]] = rootfs[src[c]]
    /\ pc[c] = "promote2" => rootfs[env[c]] = Absent
    /\ pc[c] = "promote3" => Valid(rootfs[env[c]])

CallAt(c) ==
    /\ pc[c] \in {"installDiscard", "deploy", "extract"} => src[c] = env[c]
    /\ db[env[c]] # "NONE" => PromoteAt(c)
    /\ Cloning(c) => db[src[c]] \notin Gone
    /\ pc[c] = "copying" => rootfs[src[c]] # Absent

DiskInv == (\A i \in Ids : TreesAt(i)) /\ (\A c \in Callers : CallAt(c))

StoreInv == OwnedInv /\ DiskInv

-----------------------------------------------------------------------------
(* Types.                                                                  *)

\* A caller outside any call has some id, and a step may write db.
LEMMA AnyIdInIds == AnyId \in Ids
BY EnvironmentAssumption DEF AnyId

\* What dao.updateState does to each record.
LEMMA Updates ==
    ASSUME db \in [Ids -> States], NEW i \in Ids, NEW s, UpdateState(i, s)
    PROVE  \A j \in Ids : db'[j] = IF j = i /\ db[i] # "NONE" THEN s ELSE db[j]
BY DEF UpdateState

\* What a deletion leaves behind is a tree.
LEMMA TreeFacts ==
    /\ Absent \in Tree /\ Broken \in Tree
    /\ \A t : Deleting(t) \subseteq Tree
BY DEF Tree, Deleting

\* deleteRecursively touches one tree at a time.
LEMMA WipeTypes ==
    ASSUME TypeOK, NEW i \in Ids, Wipe(i)
    PROVE  /\ rootfs' \in [Ids -> Tree]
           /\ staging' \in [Ids -> Tree]
           /\ backup' \in [Ids -> Tree]
<1>1. CASE \E t \in Deleting(rootfs[i]) : rootfs' = [rootfs EXCEPT ![i] = t]
                                         /\ UNCHANGED <<staging, backup>>
  BY <1>1, TreeFacts DEF TypeOK
<1>2. CASE staging' = [staging EXCEPT ![i] = Absent] /\ UNCHANGED <<rootfs, backup>>
  BY <1>2, TreeFacts DEF TypeOK
<1>3. CASE \E t \in Deleting(backup[i]) : backup' = [backup EXCEPT ![i] = t]
                                         /\ UNCHANGED <<rootfs, staging>>
  BY <1>3, TreeFacts DEF TypeOK
<1> QED BY Zenon, <1>1, <1>2, <1>3 DEF Wipe

\* Every step of every action keeps the types.
LEMMA TypeStep == TypeOK /\ [Next]_vars => TypeOK'
<1> SUFFICES ASSUME TypeOK, [Next]_vars PROVE TypeOK'
  OBVIOUS
<1> USE AnyIdInIds, TreeFacts, EnvironmentAssumption
    DEF TypeOK, States, Waiting, Discards, disk, call, boot, ids, Goto, Lock,
        Return, UpdateState
<1>1. ASSUME NEW i \in Ids, CreateEnvironment(i) PROVE TypeOK'
  BY <1>1 DEF CreateEnvironment
<1>2. ASSUME NEW c \in Callers, NEW op \in Waiting, NEW i \in Ids, GetLock(c, op, i) PROVE TypeOK'
  BY <1>2 DEF GetLock
<1>3. ASSUME NEW c \in Callers, NEW op, NEW states, CallRefused(c, op, states) PROVE TypeOK'
  BY <1>3 DEF CallRefused
<1>4. ASSUME NEW c \in Callers, BeginInstall(c) PROVE TypeOK'
  BY <1>4 DEF BeginInstall
<1>5. ASSUME NEW c \in Callers, BeginReset(c) PROVE TypeOK'
  BY <1>5 DEF BeginReset
<1>6. ASSUME NEW c \in Callers, BeginDelete(c) PROVE TypeOK'
  BY <1>6 DEF BeginDelete
<1>7. ASSUME NEW c \in Callers, NEW i \in Ids, BeginClone(c, i) PROVE TypeOK'
  BY <1>7 DEF BeginClone
<1>8. ASSUME NEW c \in Callers, CloneRefused(c) PROVE TypeOK'
  BY <1>8 DEF CloneRefused
<1>9. ASSUME NEW c \in Callers, CloneLocked(c) PROVE TypeOK'
  BY <1>9 DEF CloneLocked
<1>10. ASSUME NEW c \in Callers, DiscardStaging(c) PROVE TypeOK'
  BY <1>10 DEF DiscardStaging
<1>11. ASSUME NEW c \in Callers, InstallDiscarded(c) PROVE TypeOK'
  BY <1>11 DEF InstallDiscarded
<1>12. ASSUME NEW c \in Callers, ResetDiscarded(c) PROVE TypeOK'
  BY <1>12 DEF ResetDiscarded
<1>13. ASSUME NEW c \in Callers, FailDiscarded(c) PROVE TypeOK'
  BY <1>13 DEF FailDiscarded
<1>14. ASSUME NEW c \in Callers, DeployInPlace(c) PROVE TypeOK'
  BY <1>14 DEF DeployInPlace
<1>15. ASSUME NEW c \in Callers, Extract(c) PROVE TypeOK'
  BY <1>15 DEF Extract
<1>16. ASSUME NEW c \in Callers, Extracted(c) PROVE TypeOK'
  BY <1>16 DEF Extracted, Tree, Versions
<1>17. ASSUME NEW c \in Callers, StepFails(c) PROVE TypeOK'
  BY <1>17 DEF StepFails
<1>18. ASSUME NEW c \in Callers, Provisioned(c) PROVE TypeOK'
  BY <1>18 DEF Provisioned
<1>19. ASSUME NEW c \in Callers, InstallVerified(c) PROVE TypeOK'
  BY <1>19 DEF InstallVerified
<1>20. ASSUME NEW c \in Callers, InstallNotVerified(c) PROVE TypeOK'
  BY <1>20 DEF InstallNotVerified
<1>21. ASSUME NEW c \in Callers, CopyNothing(c) PROVE TypeOK'
  BY <1>21 DEF CopyNothing
<1>22. ASSUME NEW c \in Callers, CopyStarts(c) PROVE TypeOK'
  BY <1>22 DEF CopyStarts
<1>23. ASSUME NEW c \in Callers, CopyDone(c) PROVE TypeOK'
  BY <1>23 DEF CopyDone
<1>24. ASSUME NEW c \in Callers, PromoteBacksUp(c) PROVE TypeOK'
  <2>1. env[c] \in Ids /\ rootfs[env[c]] \in Tree
    OBVIOUS
  <2>2. rootfs' \in [Ids -> Tree] /\ backup' \in [Ids -> Tree]
    BY Zenon, <1>24, <2>1 DEF PromoteBacksUp
  <2>3. Goto(c, "promote2") /\ UNCHANGED <<db, staging, env, src, want, locks, boot, ids>>
    BY <1>24 DEF PromoteBacksUp
  <2> QED BY <2>2, <2>3
<1>25. ASSUME NEW c \in Callers, PromoteFails(c) PROVE TypeOK'
  BY <1>25 DEF PromoteFails
<1>26. ASSUME NEW c \in Callers, PromoteStaged(c) PROVE TypeOK'
  BY <1>26 DEF PromoteStaged
<1>27. ASSUME NEW c \in Callers, PromoteRestores(c) PROVE TypeOK'
  <2>1. env[c] \in Ids /\ backup[env[c]] \in Tree
    OBVIOUS
  <2>2. rootfs' \in [Ids -> Tree] /\ backup' \in [Ids -> Tree]
    <3>1. CASE /\ rootfs' = [rootfs EXCEPT ![env[c]] = backup[env[c]]]
               /\ backup' = [backup EXCEPT ![env[c]] = Absent]
      BY Zenon, <2>1, <3>1
    <3>2. CASE UNCHANGED <<rootfs, backup>>
      BY <3>2
    <3> QED BY Zenon, <1>27, <3>1, <3>2 DEF PromoteRestores
  <2>3. Goto(c, "failDiscard") /\ UNCHANGED <<db, staging, env, src, want, locks, boot, ids>>
    BY <1>27 DEF PromoteRestores
  <2> QED BY <2>2, <2>3
<1>28. ASSUME NEW c \in Callers, PromoteCleansUp(c) PROVE TypeOK'
  BY <1>28 DEF PromoteCleansUp
<1>29. ASSUME NEW c \in Callers, InstallPromoted(c) PROVE TypeOK'
  BY <1>29 DEF InstallPromoted
<1>30. ASSUME NEW c \in Callers, ClonePromoted(c) PROVE TypeOK'
  BY <1>30 DEF ClonePromoted
<1>31. ASSUME NEW c \in Callers, DeleteWipes(c) PROVE TypeOK'
  <2>1. env[c] \in Ids /\ Wipe(env[c])
    BY <1>31 DEF DeleteWipes
  <2> QED BY <1>31, <2>1, WipeTypes DEF DeleteWipes
<1>32. ASSUME NEW c \in Callers, DeleteRecord(c) \/ DeleteDone(c) PROVE TypeOK'
  <2>1. CASE DeleteRecord(c)
    BY <2>1 DEF DeleteRecord
  <2>2. CASE DeleteDone(c)
    BY <2>2 DEF DeleteDone
  <2> QED BY <1>32, <2>1, <2>2
<1>33. ASSUME NEW c \in Callers, Cancel(c) PROVE TypeOK'
  BY <1>33 DEF Cancel
<1>34. ASSUME Crash PROVE TypeOK'
  <2>1. env' \in [Callers -> Ids] /\ src' \in [Callers -> Ids]
    BY <1>34 DEF Crash
  <2>2. want' \in [Callers -> Ids \X Nat] /\ locks' \in [Callers -> SUBSET (Ids \X Nat)]
    BY <1>34 DEF Crash
  <2>3. pc' = [c \in Callers |-> "idle"] /\ gen' \in [Ids -> Nat] /\ todo' \subseteq Ids
    BY <1>34 DEF Crash
  <2>4. crashes' \in 0 .. MaxCrashes /\ up' = FALSE
    BY <1>34 DEF Crash
  <2> QED BY <1>34, <2>1, <2>2, <2>3, <2>4 DEF Crash
<1>35. ASSUME NEW i \in Ids, ReconcileKeeps(i) PROVE TypeOK'
  BY <1>35 DEF ReconcileKeeps, Done
<1>36. ASSUME NEW i \in Ids, RecoverRestores(i) PROVE TypeOK'
  BY <1>36 DEF RecoverRestores
<1>37. ASSUME NEW i \in Ids, RecoverDropsBackup(i) PROVE TypeOK'
  BY <1>37 DEF RecoverDropsBackup
<1>38. ASSUME NEW i \in Ids, RecoverDropsStaging(i) PROVE TypeOK'
  BY <1>38 DEF RecoverDropsStaging
<1>39. ASSUME NEW i \in Ids, ReconcileUpdates(i) PROVE TypeOK'
  BY <1>39 DEF ReconcileUpdates, Done
<1>40. ASSUME NEW i \in Ids, ReconcileWipes(i) PROVE TypeOK'
  BY <1>40, WipeTypes DEF ReconcileWipes
<1>41. ASSUME NEW i \in Ids, ReconcileDeletes(i) PROVE TypeOK'
  BY <1>41 DEF ReconcileDeletes, Done
<1>42. ASSUME Restarted PROVE TypeOK'
  BY <1>42 DEF Restarted
<1>43. ASSUME UNCHANGED vars PROVE TypeOK'
  BY <1>43 DEF vars
<1> QED BY <1>1, <1>2, <1>3, <1>4, <1>5, <1>6, <1>7, <1>8, <1>9, <1>10, <1>11,
          <1>12, <1>13, <1>14, <1>15, <1>16, <1>17, <1>18, <1>19, <1>20,
          <1>21, <1>22, <1>23, <1>24, <1>25, <1>26, <1>27, <1>28, <1>29,
          <1>30, <1>31, <1>32, <1>33, <1>34, <1>35, <1>36, <1>37, <1>38,
          <1>39, <1>40, <1>41, <1>42, <1>43
       DEF Next, CallStep, Install, Promote, Reset, Delete, Clone, Reconcile

LEMMA TypeInit == Init => TypeOK
<1> SUFFICES ASSUME Init PROVE TypeOK
  OBVIOUS
<1>1. env \in [Callers -> Ids] /\ src \in [Callers -> Ids]
  BY AnyIdInIds DEF Init
<1>2. want \in [Callers -> Ids \X Nat] /\ locks \in [Callers -> SUBSET (Ids \X Nat)]
  BY AnyIdInIds DEF Init
<1> QED BY <1>1, <1>2, TreeFacts, EnvironmentAssumption DEF Init, TypeOK, States

(* Records, trees, callers and mutexes keep their types in every reachable *)
(* state, whatever fails, is cancelled or dies.                            *)
THEOREM TypeCorrect == Spec => []TypeOK
BY TypeInit, TypeStep, PTL DEF Spec

-----------------------------------------------------------------------------
(* The mutexes.  A call enters withLock, works inside it, and leaves it.   *)

\* Which records there are stays the same.
SameRecords == \A i \in Ids : db'[i] = "NONE" <=> db[i] = "NONE"

Enters(c) ==
    /\ pc[c] \in Waiting \cup {"cloneLock"} /\ Free(want[c]) /\ Lock(c)
    /\ \E l \in {"installDiscard", "resetDiscard", "wipe", "copy"} :
          Goto(c, l) /\ (l = "copy" <=> pc[c] = "cloneLock")
    /\ UNCHANGED <<env, src, want, boot, ids>>

Works(c) ==
    /\ Busy(c) /\ Busy(c)'
    /\ \A d \in Callers \ {c} : pc'[d] = pc[d]
    /\ pc'[c] \in {"copy", "copying"} => pc[c] \in {"copy", "copying"}
    /\ pc'[c] = "wipe" <=> pc[c] = "wipe"
    /\ pc[c] # "unlock" /\ pc'[c] # "unlock"
    /\ \A i \in Ids \ {env[c]} : /\ rootfs'[i] = rootfs[i] /\ staging'[i] = staging[i]
                                 /\ backup'[i] = backup[i]
    /\ UNCHANGED <<db, env, src, want, locks, boot, gen, used, copied>>

Leaves(c) ==
    /\ pc[c] # "idle" /\ Return(c) /\ UNCHANGED <<disk, boot, gen, versions, used>>
    /\ \A i \in Ids : db'[i] # db[i] =>
          i = env[c] /\ Busy(c) /\ db'[i] \in {"READY", "FAILED"}
    /\ Busy(c) => Cancels \/ db'[env[c]] \notin Interrupted
    /\ pc[c] \in {"wipe", "unlock"} => db' = db
    /\ \A i \in Ids : db'[i] = "READY" /\ i \notin copied' =>
          Valid(rootfs[i]) \/ (db[i] = "READY" /\ i \notin copied)

\* A step that writes a state to one record adds and removes none.
LEMMA UpdatesKeep ==
    ASSUME db \in [Ids -> States], NEW i \in Ids, NEW s, s # "NONE", UpdateState(i, s)
    PROVE  SameRecords
BY Updates DEF SameRecords

LEMMA EntersWhen ==
    ASSUME TypeOK, NEW c \in Callers,
           BeginInstall(c) \/ BeginReset(c) \/ BeginDelete(c) \/ CloneLocked(c)
    PROVE  Enters(c) /\ SameRecords
<1> env[c] \in Ids /\ db \in [Ids -> States]
  BY DEF TypeOK
<1> USE UpdatesKeep DEF Enters, Waiting
<1>1. CASE BeginInstall(c)
  BY <1>1 DEF BeginInstall
<1>2. CASE BeginReset(c)
  BY <1>2 DEF BeginReset
<1>3. CASE BeginDelete(c)
  BY <1>3 DEF BeginDelete
<1>4. CASE CloneLocked(c)
  BY <1>4 DEF CloneLocked
<1> QED BY <1>1, <1>2, <1>3, <1>4

\* The steps of a call that holds its mutex and goes on.
Work(c) ==
    \/ DiscardStaging(c) \/ InstallDiscarded(c) \/ DeployInPlace(c)
    \/ Extract(c) \/ Extracted(c) \/ StepFails(c) \/ Provisioned(c)
    \/ InstallNotVerified(c) \/ CopyStarts(c) \/ CopyDone(c) \/ Promote(c)
    \/ InstallPromoted(c) \/ DeleteWipes(c)

LEMMA WorksWhen ==
    ASSUME TypeOK, NEW c \in Callers, Work(c)
    PROVE  Works(c)
<1> pc \in [Callers -> Waiting \cup Discards \cup
             {"idle", "cloneLock", "deploy", "extract", "provision", "verify",
              "copy", "copying", "promote", "promote2", "promote3", "wipe", "unlock"}]
  BY DEF TypeOK
<1> rootfs \in [Ids -> Tree] /\ staging \in [Ids -> Tree] /\ backup \in [Ids -> Tree]
  BY DEF TypeOK
<1> USE DEF Works, Busy, Waiting, Discards, Goto, disk, call, boot, ids
<1>1. CASE DiscardStaging(c)
  BY <1>1 DEF DiscardStaging
<1>2. CASE InstallDiscarded(c)
  BY <1>2 DEF InstallDiscarded
<1>3. CASE DeployInPlace(c)
  BY <1>3 DEF DeployInPlace
<1>4. CASE Extract(c)
  BY <1>4 DEF Extract
<1>5. CASE Extracted(c)
  BY <1>5 DEF Extracted
<1>6. CASE StepFails(c)
  BY <1>6 DEF StepFails
<1>7. CASE Provisioned(c)
  BY <1>7 DEF Provisioned
<1>8. CASE InstallNotVerified(c)
  BY <1>8 DEF InstallNotVerified
<1>9. CASE CopyStarts(c)
  BY <1>9 DEF CopyStarts
<1>10. CASE CopyDone(c)
  BY <1>10 DEF CopyDone
<1>11. CASE PromoteBacksUp(c)
  BY <1>11 DEF PromoteBacksUp
<1>12. CASE PromoteFails(c)
  BY <1>12 DEF PromoteFails
<1>13. CASE PromoteStaged(c)
  BY <1>13 DEF PromoteStaged
<1>14. CASE PromoteRestores(c)
  BY <1>14 DEF PromoteRestores
<1>15. CASE PromoteCleansUp(c)
  BY <1>15 DEF PromoteCleansUp
<1>16. CASE InstallPromoted(c)
  BY <1>16 DEF InstallPromoted
<1>17. CASE DeleteWipes(c)
  BY <1>17 DEF DeleteWipes, Wipe
<1> QED BY <1>1, <1>2, <1>3, <1>4, <1>5, <1>6, <1>7, <1>8, <1>9, <1>10, <1>11,
          <1>12, <1>13, <1>14, <1>15, <1>16, <1>17 DEF Work, Promote

\* The steps that end a call but for the end of a deletion.
Leave(c) ==
    \/ \E op \in Waiting, states \in SUBSET States : CallRefused(c, op, states)
    \/ CloneRefused(c) \/ ResetDiscarded(c) \/ FailDiscarded(c)
    \/ InstallVerified(c) \/ CopyNothing(c) \/ ClonePromoted(c) \/ Cancel(c)

LEMMA LeavesWhen ==
    ASSUME TypeOK, NEW c \in Callers, Leave(c)
    PROVE  Leaves(c) /\ SameRecords
<1> env[c] \in Ids /\ db \in [Ids -> States]
  BY DEF TypeOK
<1> USE DEF Leaves, Busy, Waiting, Interrupted, Discards, disk, boot, ids
<1>1. CASE \E op \in Waiting, states \in SUBSET States : CallRefused(c, op, states)
  BY <1>1 DEF CallRefused, SameRecords
<1>2. CASE CloneRefused(c)
  BY <1>2 DEF CloneRefused, SameRecords
<1>3. CASE ResetDiscarded(c)
  BY <1>3, Updates, UpdatesKeep DEF ResetDiscarded
<1>4. CASE FailDiscarded(c)
  BY <1>4, Updates, UpdatesKeep DEF FailDiscarded
<1>5. CASE InstallVerified(c)
  BY <1>5, Updates, UpdatesKeep DEF InstallVerified
<1>6. CASE CopyNothing(c)
  BY <1>6, Updates, UpdatesKeep DEF CopyNothing
<1>7. CASE ClonePromoted(c)
  BY <1>7, Updates, UpdatesKeep DEF ClonePromoted
<1>8. CASE Cancel(c)
  BY <1>8 DEF Cancel, Suspended, SameRecords
<1> QED BY <1>1, <1>2, <1>3, <1>4, <1>5, <1>6, <1>7, <1>8 DEF Leave

\* Every step is of one of these kinds.
Enter(c) == BeginInstall(c) \/ BeginReset(c) \/ BeginDelete(c) \/ CloneLocked(c)

LEMMA StepKinds ==
    ASSUME [Next]_vars
    PROVE  \/ \E i \in Ids : CreateEnvironment(i) \/ Reconcile(i)
           \/ \E c \in Callers, op \in Waiting, i \in Ids : GetLock(c, op, i)
           \/ \E c \in Callers : \/ Enter(c) \/ Work(c) \/ Leave(c)
                               \/ DeleteRecord(c) \/ DeleteDone(c)
           \/ \E c \in Callers, i \in Ids : BeginClone(c, i)
           \/ Crash \/ Restarted \/ UNCHANGED vars
<1>1. ASSUME NEW c \in Callers, CallStep(c)
      PROVE  \/ Enter(c) \/ Work(c) \/ Leave(c) \/ DeleteRecord(c) \/ DeleteDone(c)
             \/ \E i \in Ids : BeginClone(c, i)
  <2>1. CASE Install(c)
    BY <2>1 DEF Install, Enter, Work, Leave, Waiting, States
  <2>2. CASE Reset(c)
    BY <2>2 DEF Reset, Enter, Work, Leave, Waiting, States
  <2>3. CASE Promote(c) \/ Delete(c) \/ DiscardStaging(c) \/ FailDiscarded(c)
    BY <2>3 DEF Delete, Enter, Work, Leave
  <2>4. CASE Clone(c)
    BY <2>4 DEF Clone, Enter, Work, Leave
  <2> QED BY <1>1, <2>1, <2>2, <2>3, <2>4 DEF CallStep
<1>2. ASSUME NEW c \in Callers, Cancel(c) PROVE Leave(c)
  BY <1>2 DEF Leave
<1> QED BY <1>1, <1>2 DEF Next

\* Reconciliation runs while no caller does, and leaves the mutexes alone.
Reconciles ==
    /\ ~up /\ UNCHANGED <<up, pc, env, src, want, locks, gen, used>>
    /\ \A i \in Ids : db'[i] # "NONE" => db[i] # "NONE"

LEMMA ReconcilesWhen ==
    ASSUME TypeOK, NEW i \in Ids, Reconcile(i)
    PROVE  Reconciles
<1> USE DEF Reconciles, Reconciling, Recovering, Done, call, boot, ids
<1>1. CASE ReconcileKeeps(i)
  BY <1>1 DEF ReconcileKeeps
<1>2. CASE RecoverRestores(i) \/ RecoverDropsBackup(i) \/ RecoverDropsStaging(i)
  BY <1>2 DEF RecoverRestores, RecoverDropsBackup, RecoverDropsStaging
<1>3. CASE ReconcileUpdates(i)
  BY <1>3, Updates DEF ReconcileUpdates, TypeOK
<1>4. CASE ReconcileWipes(i)
  BY <1>4 DEF ReconcileWipes
<1>5. CASE ReconcileDeletes(i)
  BY <1>5 DEF ReconcileDeletes, TypeOK
<1> QED BY <1>1, <1>2, <1>3, <1>4, <1>5 DEF Reconcile

\* The mutexes: a mutex has one holder, and a call holds that of its
\* environment (and of the source that it clones) until it returns, as long as
\* there is a record; nobody waits for another one until then.
LEMMA LockStep == LockInv /\ TypeOK' /\ [Next]_vars => LockInv'
<1> SUFFICES ASSUME LockInv, TypeOK', [Next]_vars PROVE LockInv'
  OBVIOUS
<1> TypeOK
  BY DEF LockInv
<1> WantsFirst /\ HoldsOwn /\ Exclusive /\ Recorded /\ DownIsIdle
  BY DEF LockInv
<1>1. ASSUME NEW i \in Ids, CreateEnvironment(i) PROVE LockInv'
  <2>1. WantsFirst'
    BY <1>1 DEF CreateEnvironment, call, boot, TypeOK, WantsFirst
  <2>2. HoldsOwn'
    <3>1. UNCHANGED call /\ \A d \in Callers : pc[d] # "idle" => db'[env[d]] = db[env[d]]
      BY <1>1 DEF CreateEnvironment, TypeOK, WantsFirst
    <3> QED BY <3>1 DEF call, HoldsOwn, Locked, Busy, Cloning
  <2>3. Exclusive'
    BY <1>1 DEF CreateEnvironment, call, boot, TypeOK, Exclusive
  <2>4. Recorded'
    BY <1>1 DEF CreateEnvironment, call, boot, TypeOK, Recorded
  <2>5. DownIsIdle'
    BY <1>1 DEF CreateEnvironment, call, boot, TypeOK, DownIsIdle
  <2> QED BY <2>1, <2>2, <2>3, <2>4, <2>5 DEF LockInv
<1>2. ASSUME NEW c \in Callers, NEW op \in Waiting, NEW i \in Ids, GetLock(c, op, i)
      PROVE  LockInv'
  <2>1. WantsFirst'
    BY <1>2 DEF GetLock, Waiting, Goto, boot, ids, TypeOK, WantsFirst, Recorded
  <2>2. HoldsOwn'
    BY <1>2 DEF GetLock, Waiting, Goto, boot, ids, TypeOK, HoldsOwn, Locked, Busy, Cloning
  <2>3. Exclusive'
    BY <1>2 DEF GetLock, Waiting, Goto, boot, ids, TypeOK, Exclusive
  <2>4. Recorded'
    BY <1>2 DEF GetLock, Waiting, Goto, boot, ids, TypeOK, Recorded
  <2>5. DownIsIdle'
    BY <1>2 DEF GetLock, Waiting, Goto, boot, ids, TypeOK, DownIsIdle
  <2> QED BY <2>1, <2>2, <2>3, <2>4, <2>5 DEF LockInv
<1>3. ASSUME NEW c \in Callers, Enters(c), SameRecords PROVE LockInv'
  <2>1. WantsFirst'
    BY <1>3 DEF Enters, SameRecords, Waiting, Goto, Lock, boot, ids, TypeOK, WantsFirst
  <2>2. HoldsOwn'
    <3>1. db'[env[c]] # "NONE" => want[c] = <<env[c], 0>>
      BY <1>3 DEF Enters, SameRecords, Waiting, WantsFirst, TypeOK
    <3>2. /\ pc'[c] \in {"installDiscard", "resetDiscard", "wipe", "copy"}
          /\ pc'[c] = "copy" <=> pc[c] = "cloneLock"
          /\ pc[c] \in Waiting \cup {"cloneLock"}
      BY <1>3 DEF Enters, TypeOK, Waiting, Goto
    <3>3. locks'[c] = locks[c] \cup {want[c]}
      BY <1>3 DEF Enters, TypeOK, Lock
    <3>4. \A d \in Callers \ {c} : pc'[d] = pc[d] /\ locks'[d] = locks[d]
      BY <1>3 DEF Enters, TypeOK, Goto, Lock
    <3>5. UNCHANGED <<src, env>>
      BY <1>3 DEF Enters
    <3>6. \A d \in Callers : db'[env[d]] = "NONE" <=> db[env[d]] = "NONE"
      BY <1>3 DEF SameRecords, TypeOK
    <3> QED BY <3>1, <3>2, <3>3, <3>4, <3>5, <3>6 DEF HoldsOwn, Locked, Busy, Cloning, Waiting
  <2>3. Exclusive'
    BY <1>3 DEF Enters, SameRecords, Waiting, Goto, Lock, boot, ids, TypeOK, Exclusive, Free
  <2>4. Recorded'
    BY <1>3 DEF Enters, SameRecords, Waiting, Goto, Lock, boot, ids, TypeOK, Recorded
  <2>5. DownIsIdle'
    BY <1>3 DEF Enters, SameRecords, Waiting, Goto, Lock, boot, ids, TypeOK, DownIsIdle
  <2> QED BY <2>1, <2>2, <2>3, <2>4, <2>5 DEF LockInv
<1>4. ASSUME NEW c \in Callers, Works(c) PROVE LockInv'
  <2>1. WantsFirst'
    BY <1>4 DEF Works, Waiting, boot, TypeOK, WantsFirst, Busy
  <2>2. HoldsOwn'
    <3>1. /\ Busy(c) /\ Busy(c)' /\ \A d \in Callers \ {c} : pc'[d] = pc[d]
          /\ pc'[c] \in {"copy", "copying"} => pc[c] \in {"copy", "copying"}
          /\ pc'[c] # "unlock" /\ UNCHANGED <<db, env, src, locks>>
      BY <1>4 DEF Works
    <3> QED BY <3>1 DEF HoldsOwn, Locked, Busy, Cloning, Waiting
  <2>3. Exclusive'
    BY <1>4 DEF Works, Waiting, boot, TypeOK, Exclusive
  <2>4. Recorded'
    BY <1>4 DEF Works, Waiting, boot, TypeOK, Recorded
  <2>5. DownIsIdle'
    BY <1>4 DEF Works, Waiting, boot, TypeOK, DownIsIdle, Busy
  <2> QED BY <2>1, <2>2, <2>3, <2>4, <2>5 DEF LockInv
<1>5. ASSUME NEW c \in Callers, Leaves(c), SameRecords PROVE LockInv'
  <2>1. WantsFirst'
    BY <1>5 DEF Leaves, SameRecords, Return, Waiting, Goto, boot, TypeOK, WantsFirst
  <2>2. HoldsOwn'
    <3>1. pc'[c] = "idle" /\ locks'[c] = {}
      BY <1>5 DEF Leaves, Return, Goto, TypeOK
    <3>2. \A d \in Callers \ {c} : pc'[d] = pc[d] /\ locks'[d] = locks[d]
      BY <1>5 DEF Leaves, Return, Goto, TypeOK
    <3>3. \A d \in Callers \ {c} : src'[d] = src[d] /\ env'[d] = env[d]
      BY <1>5 DEF Leaves, Return, TypeOK
    <3>4. \A d \in Callers : db'[env[d]] = "NONE" <=> db[env[d]] = "NONE"
      BY <1>5 DEF SameRecords, TypeOK
    <3> QED BY <3>1, <3>2, <3>3, <3>4 DEF HoldsOwn, Locked, Busy, Cloning, Waiting
  <2>3. Exclusive'
    BY <1>5 DEF Leaves, SameRecords, Return, Waiting, Goto, boot, TypeOK, Exclusive
  <2>4. Recorded'
    BY <1>5 DEF Leaves, SameRecords, Return, Waiting, Goto, boot, TypeOK, Recorded
  <2>5. DownIsIdle'
    BY <1>5 DEF Leaves, SameRecords, Return, Waiting, Goto, boot, TypeOK, DownIsIdle
  <2> QED BY <2>1, <2>2, <2>3, <2>4, <2>5 DEF LockInv
<1>6. ASSUME NEW c \in Callers, NEW i \in Ids, BeginClone(c, i) PROVE LockInv'
  <2>1. WantsFirst'
    BY <1>6 DEF BeginClone, Waiting, Goto, Lock, boot, TypeOK, WantsFirst, Recorded
  <2>2. HoldsOwn'
    <3>1. want[c] = <<env[c], 0>> /\ env[c] \in used /\ i \notin used
      BY <1>6 DEF BeginClone, WantsFirst
    <3>2. /\ pc'[c] = "cloneLock" /\ src'[c] = env[c] /\ env'[c] = i
          /\ locks'[c] = locks[c] \cup {<<env[c], 0>>} /\ env[c] # i
      BY <1>6, <3>1 DEF BeginClone, TypeOK, Goto, Lock
    <3>3. \A d \in Callers \ {c} : pc'[d] = pc[d] /\ locks'[d] = locks[d]
      BY <1>6 DEF BeginClone, TypeOK, Goto, Lock
    <3>4. \A d \in Callers \ {c} : src'[d] = src[d] /\ env'[d] = env[d]
      BY <1>6 DEF BeginClone, TypeOK
    <3>5. \A d \in Callers \ {c} : pc[d] # "idle" => db'[env[d]] = db[env[d]]
      BY <1>6 DEF BeginClone, WantsFirst, TypeOK
    <3> QED BY <3>2, <3>3, <3>4, <3>5 DEF HoldsOwn, Locked, Busy, Cloning, Waiting
  <2>3. Exclusive'
    BY <1>6 DEF BeginClone, Waiting, Goto, Lock, boot, TypeOK, Exclusive, Free
  <2>4. Recorded'
    BY <1>6 DEF BeginClone, Waiting, Goto, Lock, boot, TypeOK, Recorded
  <2>5. DownIsIdle'
    BY <1>6 DEF BeginClone, Waiting, Goto, Lock, boot, TypeOK, DownIsIdle
  <2> QED BY <2>1, <2>2, <2>3, <2>4, <2>5 DEF LockInv
<1>7. ASSUME NEW c \in Callers, DeleteDone(c) PROVE LockInv'
  <2>1. WantsFirst'
    BY <1>7 DEF DeleteDone, Return, Waiting, Goto, boot, TypeOK, WantsFirst
  <2>2. HoldsOwn'
    <3>1. pc'[c] = "idle" /\ locks'[c] = {}
      BY <1>7 DEF DeleteDone, Return, Goto, TypeOK
    <3>2. \A d \in Callers \ {c} : pc'[d] = pc[d] /\ locks'[d] = locks[d]
      BY <1>7 DEF DeleteDone, Return, Goto, TypeOK
    <3>3. db' = db /\ \A d \in Callers \ {c} : src'[d] = src[d] /\ env'[d] = env[d]
      BY <1>7 DEF DeleteDone, Return, TypeOK
    <3> QED BY <3>1, <3>2, <3>3 DEF HoldsOwn, Locked, Busy, Cloning, Waiting
  <2>3. Exclusive'
    BY <1>7 DEF DeleteDone, Return, Waiting, Goto, boot, TypeOK, Exclusive
  <2>4. Recorded'
    <3>1. env[c] \in used /\ db[env[c]] = "NONE"
      BY <1>7 DEF DeleteDone, WantsFirst, HoldsOwn
    <3>2. db' = db /\ used' = used /\ \A i \in Ids \ {env[c]} : gen'[i] = gen[i]
      BY <1>7 DEF DeleteDone, TypeOK
    <3> QED BY <3>1, <3>2 DEF Recorded
  <2>5. DownIsIdle'
    BY <1>7 DEF DeleteDone, Return, Waiting, Goto, boot, TypeOK, DownIsIdle
  <2> QED BY <2>1, <2>2, <2>3, <2>4, <2>5 DEF LockInv
<1>11. ASSUME NEW c \in Callers, DeleteRecord(c) PROVE LockInv'
  <2>0. /\ \A i \in Ids : db'[i] = IF i = env[c] THEN "NONE" ELSE db[i]
        /\ pc[c] = "wipe" /\ \A d \in Callers : pc'[d] = IF d = c THEN "unlock" ELSE pc[d]
        /\ UNCHANGED <<env, src, want, locks, up, gen, used>>
    BY <1>11 DEF DeleteRecord, Goto, boot, ids, TypeOK
  <2>1. WantsFirst'
    BY <2>0 DEF TypeOK, WantsFirst
  <2>2. HoldsOwn'
    BY <2>0 DEF TypeOK, HoldsOwn, Locked, Busy, Cloning, Waiting
  <2>3. Exclusive'
    BY <2>0 DEF Exclusive
  <2>4. Recorded'
    BY <2>0 DEF Recorded
  <2>5. DownIsIdle'
    BY <2>0 DEF DownIsIdle
  <2> QED BY <2>1, <2>2, <2>3, <2>4, <2>5 DEF LockInv
<1>8. ASSUME Crash PROVE LockInv'
  <2>1. WantsFirst'
    BY <1>8 DEF Crash, Waiting, TypeOK, WantsFirst
  <2>2. HoldsOwn'
    BY <1>8 DEF Crash, Waiting, TypeOK, HoldsOwn, Locked, Busy, Cloning
  <2>3. Exclusive'
    BY <1>8 DEF Crash, Waiting, TypeOK, Exclusive
  <2>4. Recorded'
    BY <1>8 DEF Crash, Waiting, TypeOK, Recorded
  <2>5. DownIsIdle'
    BY <1>8 DEF Crash, Waiting, TypeOK, DownIsIdle
  <2> QED BY <2>1, <2>2, <2>3, <2>4, <2>5 DEF LockInv
<1>9. ASSUME Reconciles PROVE LockInv'
  <2>1. WantsFirst'
    BY <1>9 DEF Reconciles, TypeOK, WantsFirst
  <2>2. HoldsOwn'
    BY <1>9 DEF Reconciles, TypeOK, HoldsOwn, Locked, Busy, Cloning
  <2>3. Exclusive'
    BY <1>9 DEF Reconciles, TypeOK, Exclusive
  <2>4. Recorded'
    BY <1>9 DEF Reconciles, TypeOK, Recorded
  <2>5. DownIsIdle'
    BY <1>9 DEF Reconciles, TypeOK, DownIsIdle
  <2> QED BY <2>1, <2>2, <2>3, <2>4, <2>5 DEF LockInv
<1>10. ASSUME Restarted \/ UNCHANGED vars PROVE LockInv'
  <2>1. WantsFirst'
    BY <1>10 DEF Restarted, vars, call, ids, boot, TypeOK, WantsFirst
  <2>2. HoldsOwn'
    BY <1>10 DEF Restarted, vars, call, ids, boot, TypeOK, HoldsOwn, Locked, Busy, Cloning
  <2>3. Exclusive'
    BY <1>10 DEF Restarted, vars, call, ids, boot, TypeOK, Exclusive
  <2>4. Recorded'
    BY <1>10 DEF Restarted, vars, call, ids, boot, TypeOK, Recorded
  <2>5. DownIsIdle'
    BY <1>10 DEF Restarted, vars, call, ids, boot, TypeOK, DownIsIdle
  <2> QED BY <2>1, <2>2, <2>3, <2>4, <2>5 DEF LockInv
<1> QED BY <1>1, <1>2, <1>3, <1>4, <1>5, <1>6, <1>7, <1>8, <1>9, <1>10, <1>11,
           StepKinds, EntersWhen, WorksWhen, LeavesWhen, ReconcilesWhen DEF Enter

\* A mutex with one holder makes the call that holds it the only one.
LEMMA OwnsAlone == LockInv => OneOwner
BY DEF LockInv, HoldsOwn, Exclusive, OneOwner, TypeOK

LEMMA LockInit == Init => LockInv
<1> SUFFICES ASSUME Init PROVE LockInv
  OBVIOUS
<1>1. TypeOK
  BY TypeInit
<1>2. WantsFirst /\ HoldsOwn
  BY DEF Init, WantsFirst, HoldsOwn, Locked, Busy, Cloning, Waiting
<1>3. Exclusive /\ Recorded /\ DownIsIdle
  BY DEF Init, Exclusive, Recorded, DownIsIdle
<1> QED BY <1>1, <1>2, <1>3 DEF LockInv

LEMMA LockInvariant == Spec => []LockInv
<1>1. LockInv /\ [Next]_vars => LockInv'
  BY LockStep, TypeStep DEF LockInv
<1> QED BY LockInit, <1>1, PTL DEF Spec

(* Two calls never work on the same environment at once while it has a     *)
(* record, although deleteEnvironment drops the mutex from the map while   *)
(* others may already wait for it: the mutex is dropped after the record,  *)
(* so that a second mutex is only ever one of a deleted environment.       *)
THEOREM MutualExclusion == Spec => []OneOwner
BY LockInvariant, OwnsAlone, PTL

-----------------------------------------------------------------------------
(* What the record says.                                                   *)

\* The state of a record and the call that owns it agree.
LEMMA OwnerStep == LockInv /\ OwnerState /\ LockInv' /\ [Next]_vars => OwnerState'
<1> SUFFICES ASSUME LockInv, OwnerState, LockInv', [Next]_vars PROVE OwnerState'
  OBVIOUS
<1> TypeOK /\ TypeOK' /\ OneOwner
  BY OwnsAlone DEF LockInv
<1> OneOwner'
  BY DEF LockInv, HoldsOwn, Exclusive, OneOwner
<1> WantsFirst /\ DownIsIdle /\ HoldsOwn
  BY DEF LockInv
<1>1. ASSUME NEW i \in Ids, CreateEnvironment(i) PROVE OwnerState'
  BY <1>1 DEF OwnerState, CreateEnvironment, TypeOK, WantsFirst, Busy, call
<1>2. ASSUME NEW c \in Callers, NEW op \in Waiting, NEW i \in Ids, GetLock(c, op, i)
      PROVE  OwnerState'
  BY <1>2 DEF OwnerState, GetLock, TypeOK, Busy, Goto
<1>3. ASSUME NEW c \in Callers, Enter(c) PROVE OwnerState'
  <2>1. env[c] \in Ids /\ env' = env /\ \A d \in Callers \ {c} : pc'[d] = pc[d]
    <3>1. Enters(c)
      BY <1>3, EntersWhen DEF Enter
    <3> QED BY <3>1 DEF Enters, Goto, TypeOK
  <2>2. /\ pc'[c] # "wipe" => db'[env[c]] \in {"INSTALLING", "CLONING", "RESETTING", "NONE"}
        /\ pc'[c] = "wipe" => db'[env[c]] \in Gone
        /\ \A i \in Ids \ {env[c]} : db'[i] = db[i]
    <3> USE <2>1, Updates DEF Goto, TypeOK, Gone
    <3>1. CASE BeginInstall(c)
      BY <3>1 DEF BeginInstall
    <3>2. CASE BeginReset(c)
      BY <3>2 DEF BeginReset
    <3>3. CASE BeginDelete(c)
      BY <3>3 DEF BeginDelete
    <3>4. CASE CloneLocked(c)
      BY <3>4 DEF CloneLocked
    <3> QED BY <1>3, <3>1, <3>2, <3>3, <3>4 DEF Enter
  <2>3. Busy(c)'
    <3>1. Enters(c)
      BY <1>3, EntersWhen DEF Enter
    <3> QED BY <3>1 DEF Enters, Busy, Goto, Waiting, TypeOK
  <2>4. ASSUME NEW d \in Callers, d # c, Busy(d)'
        PROVE  Busy(d) /\ pc'[d] = pc[d] /\ db'[env'[d]] \in {db[env[d]], "NONE"}
    BY <2>1, <2>2, <2>3, <2>4 DEF OneOwner, Busy, TypeOK
  <2>5. pc'[c] # "unlock"
    <3>1. Enters(c)
      BY <1>3, EntersWhen DEF Enter
    <3> QED BY <3>1 DEF Enters, Goto, TypeOK
  <2>6. ASSUME NEW d \in Callers, d # c, Busy(d)'
        PROVE  db'[env'[d]] \in IF pc'[d] \in {"wipe", "unlock"} THEN Gone
                                ELSE {"INSTALLING", "CLONING", "RESETTING", "NONE"}
    BY <2>4, <2>6 DEF OwnerState, Gone
  <2> QED BY <2>1, <2>2, <2>5, <2>6 DEF OwnerState
<1>4. ASSUME NEW c \in Callers, Works(c) PROVE OwnerState'
  BY <1>4 DEF OwnerState, Works, Busy
<1>5. ASSUME NEW c \in Callers, Leaves(c), SameRecords PROVE OwnerState'
  <2>1. ASSUME NEW d \in Callers, Busy(d)'
        PROVE  d # c /\ pc'[d] = pc[d] /\ env'[d] = env[d] /\ Busy(d)
    BY <1>5, <2>1 DEF Leaves, Return, Goto, Busy, TypeOK
  <2>2. ASSUME NEW d \in Callers, Busy(d)' PROVE db'[env[d]] = db[env[d]]
    BY <1>5, <2>1, <2>2 DEF Leaves, SameRecords, OneOwner, TypeOK
  <2> QED BY <2>1, <2>2 DEF OwnerState
<1>6. ASSUME NEW c \in Callers, NEW i \in Ids, BeginClone(c, i) PROVE OwnerState'
  BY <1>6 DEF OwnerState, BeginClone, TypeOK, WantsFirst, Busy, Goto
<1>7. ASSUME NEW c \in Callers, DeleteDone(c) PROVE OwnerState'
  BY <1>7 DEF OwnerState, DeleteDone, Return, Goto, Busy, TypeOK
<1>10. ASSUME NEW c \in Callers, DeleteRecord(c) PROVE OwnerState'
  <2>1. \A i \in Ids : db'[i] = IF i = env[c] THEN "NONE" ELSE db[i]
    BY <1>10 DEF DeleteRecord, TypeOK
  <2>2. /\ Busy(c) /\ \A d \in Callers : pc'[d] = IF d = c THEN "unlock" ELSE pc[d]
        /\ env' = env
    BY <1>10 DEF DeleteRecord, Goto, Busy, Waiting, TypeOK
  <2> QED BY <2>1, <2>2 DEF OwnerState, Busy, Gone, Waiting, TypeOK
<1>8. ASSUME Crash \/ Reconciles \/ Restarted PROVE OwnerState'
  BY <1>8 DEF OwnerState, DownIsIdle, Crash, Reconciles, Restarted, Busy, call
<1>9. ASSUME UNCHANGED vars PROVE OwnerState'
  BY <1>9 DEF OwnerState, vars, call, Busy
<1> QED BY <1>1, <1>2, <1>3, <1>4, <1>5, <1>6, <1>7, <1>8, <1>9, <1>10, StepKinds,
           WorksWhen, LeavesWhen, ReconcilesWhen

\* Only a call that has looked at the rootfs makes its record READY, and no
\* other call touches it from then on.
LEMMA ReadyStep == ReadyInv /\ LockInv' /\ [Next]_vars => ReadyIsVerified'
<1> SUFFICES ASSUME ReadyInv, LockInv', [Next]_vars PROVE ReadyIsVerified'
  OBVIOUS
<1> TypeOK /\ OwnerState /\ ReadyIsVerified
  BY DEF ReadyInv, LockInv
<1>1. ASSUME NEW i \in Ids, CreateEnvironment(i) PROVE ReadyIsVerified'
  BY <1>1 DEF ReadyIsVerified, CreateEnvironment, TypeOK, disk
<1>2. ASSUME NEW c \in Callers, NEW op \in Waiting, NEW i \in Ids, GetLock(c, op, i)
      PROVE  ReadyIsVerified'
  BY <1>2 DEF ReadyIsVerified, GetLock, disk, ids
<1>3. ASSUME NEW c \in Callers, Enter(c) PROVE ReadyIsVerified'
  <2> env[c] \in Ids
    BY DEF TypeOK
  <2> USE Updates DEF ReadyIsVerified, TypeOK, disk, ids
  <2>1. CASE BeginInstall(c)
    BY <2>1 DEF BeginInstall
  <2>2. CASE BeginReset(c)
    BY <2>2 DEF BeginReset
  <2>3. CASE BeginDelete(c)
    BY <2>3 DEF BeginDelete
  <2>4. CASE CloneLocked(c)
    BY <2>4 DEF CloneLocked
  <2> QED BY <1>3, <2>1, <2>2, <2>3, <2>4 DEF Enter
<1>4. ASSUME NEW c \in Callers, Works(c) PROVE ReadyIsVerified'
  BY <1>4 DEF ReadyIsVerified, OwnerState, Works, Gone
<1>5. ASSUME NEW c \in Callers, Leaves(c) PROVE ReadyIsVerified'
  BY <1>5 DEF ReadyIsVerified, Leaves, disk
<1>6. ASSUME NEW c \in Callers, NEW i \in Ids, BeginClone(c, i) PROVE ReadyIsVerified'
  BY <1>6 DEF ReadyIsVerified, BeginClone, TypeOK, disk
<1>7. ASSUME NEW c \in Callers, DeleteRecord(c) \/ DeleteDone(c) PROVE ReadyIsVerified'
  BY <1>7 DEF ReadyIsVerified, DeleteRecord, DeleteDone, TypeOK, disk, ids
<1>8. ASSUME NEW i \in Ids, Reconcile(i) PROVE ReadyIsVerified'
  <2> USE DEF ReadyIsVerified, Recovering, Reconciling, Interrupted, TypeOK, disk, ids
  <2>1. CASE ReconcileKeeps(i)
    BY <2>1 DEF ReconcileKeeps
  <2>2. CASE RecoverRestores(i)
    BY <2>2 DEF RecoverRestores
  <2>3. CASE RecoverDropsBackup(i) \/ RecoverDropsStaging(i)
    BY <2>3 DEF RecoverDropsBackup, RecoverDropsStaging
  <2>4. CASE ReconcileUpdates(i)
    BY <2>4, Updates DEF ReconcileUpdates
  <2>5. CASE ReconcileWipes(i)
    BY <2>5 DEF ReconcileWipes, Wipe
  <2>6. CASE ReconcileDeletes(i)
    BY <2>6 DEF ReconcileDeletes
  <2> QED BY <1>8, <2>1, <2>2, <2>3, <2>4, <2>5, <2>6 DEF Reconcile
<1>9. ASSUME Crash \/ Restarted \/ UNCHANGED vars PROVE ReadyIsVerified'
  BY <1>9 DEF ReadyIsVerified, Crash, Restarted, vars, disk, ids
<1> QED BY <1>1, <1>2, <1>3, <1>4, <1>5, <1>6, <1>7, <1>8, <1>9, StepKinds,
           WorksWhen, LeavesWhen

LEMMA ReadyInvariant == Spec => []ReadyInv
<1>1. Init => ReadyInv
  BY LockInit DEF Init, ReadyInv, OwnerState, ReadyIsVerified, Busy
<1>2. ReadyInv /\ [Next]_vars => ReadyInv'
  BY TypeStep, LockStep, OwnerStep, ReadyStep DEF ReadyInv, LockInv
<1> QED BY <1>1, <1>2, PTL DEF Spec

(* An environment that the database calls READY has a complete rootfs,     *)
(* wherever the process died, whichever renames failed and whatever was    *)
(* cancelled; only a clone is taken at its word.                           *)
THEOREM ReadySafety == Spec => []ReadyIsVerified
<1>1. ReadyInv => ReadyIsVerified
  BY DEF ReadyInv
<1> QED BY <1>1, ReadyInvariant, PTL

\* An interrupted record has an owner, or its turn in the reconciliation.
LEMMA OwnedStep ==
    OwnedInv /\ ReadyInv' /\ [Next]_vars => InterruptedIsOwned' /\ Reconciled'
<1> DEFINE Goal == InterruptedIsOwned' /\ Reconciled'
<1> SUFFICES ASSUME OwnedInv, ReadyInv', [Next]_vars PROVE Goal
  OBVIOUS
<1> TypeOK /\ TypeOK' /\ DownIsIdle /\ HoldsOwn /\ InterruptedIsOwned /\ Reconciled
  BY DEF OwnedInv, ReadyInv, LockInv
<1> USE DEF InterruptedIsOwned, Reconciled, Interrupted
<1>1. ASSUME NEW i \in Ids, CreateEnvironment(i) PROVE Goal
  BY <1>1 DEF CreateEnvironment, TypeOK, Busy, call, boot
<1>2. ASSUME NEW c \in Callers, NEW op \in Waiting, NEW i \in Ids, GetLock(c, op, i)
      PROVE  Goal
  BY <1>2 DEF GetLock, TypeOK, Busy, Goto, boot
<1>3. ASSUME NEW c \in Callers, Enter(c) PROVE Goal
  <2>1. Enters(c)
    BY <1>3, EntersWhen DEF Enter
  <2>2. up /\ up' = up /\ env' = env /\ \A d \in Callers \ {c} : pc'[d] = pc[d]
    BY <2>1 DEF Enters, DownIsIdle, Goto, Waiting, boot, TypeOK
  <2>3. Busy(c)' /\ ~Busy(c)
    BY <2>1 DEF Enters, Busy, Goto, Waiting, TypeOK
  <2>4. \A i \in Ids \ {env[c]} : db'[i] = db[i]
    BY <1>3, Updates DEF Enter, BeginInstall, BeginReset, BeginDelete, CloneLocked, TypeOK
  <2> QED BY <2>2, <2>3, <2>4 DEF Busy
<1>4. ASSUME NEW c \in Callers, Works(c) PROVE Goal
  BY <1>4 DEF Works, Busy, boot
<1>5. ASSUME NEW c \in Callers, Leaves(c) PROVE Goal
  <2>1. up /\ up' = up /\ \A d \in Callers \ {c} : pc'[d] = pc[d] /\ env'[d] = env[d]
    BY <1>5 DEF Leaves, Return, DownIsIdle, Goto, boot, TypeOK
  <2> QED BY <1>5, <2>1 DEF Leaves, Busy
<1>6. ASSUME NEW c \in Callers, NEW i \in Ids, BeginClone(c, i) PROVE Goal
  <2>1. up /\ up' = up /\ \A d \in Callers \ {c} : pc'[d] = pc[d] /\ env'[d] = env[d]
    BY <1>6 DEF BeginClone, DownIsIdle, Goto, boot, TypeOK
  <2>2. ~Busy(c) /\ db' = [db EXCEPT ![i] = "CREATED"]
    BY <1>6 DEF BeginClone, Busy, Waiting
  <2>3. db'[i] = "CREATED" /\ \A j \in Ids \ {i} : db'[j] = db[j]
    BY <2>2 DEF TypeOK
  <2> QED BY <2>1, <2>2, <2>3 DEF Busy
<1>7. ASSUME NEW c \in Callers, DeleteDone(c) PROVE Goal
  <2>1. up /\ up' = up /\ \A d \in Callers \ {c} : pc'[d] = pc[d] /\ env'[d] = env[d]
    BY <1>7 DEF DeleteDone, Return, DownIsIdle, Goto, boot, TypeOK
  <2>2. db' = db /\ db[env[c]] = "NONE"
    BY <1>7 DEF DeleteDone, HoldsOwn
  <2> QED BY <2>1, <2>2 DEF Busy
<1>12. ASSUME NEW c \in Callers, DeleteRecord(c) PROVE Goal
  <2>1. /\ up /\ up' = up /\ env' = env
        /\ \A d \in Callers \ {c} : pc'[d] = pc[d]
    BY <1>12 DEF DeleteRecord, DownIsIdle, Goto, boot, TypeOK
  <2>2. \A i \in Ids : db'[i] = IF i = env[c] THEN "NONE" ELSE db[i]
    BY <1>12 DEF DeleteRecord, TypeOK
  <2> QED BY <2>1, <2>2 DEF Busy
<1>8. ASSUME NEW i \in Ids, Reconcile(i) PROVE Goal
  <2>1. ~up /\ up' = up
    BY <1>8, ReconcilesWhen DEF Reconciles
  <2>2. Reconciled'
    <3> USE <2>1 DEF Reconciling, Recovering, Done, boot, TypeOK
    <3>1. CASE ReconcileKeeps(i)
      BY <3>1 DEF ReconcileKeeps
    <3>2. CASE RecoverRestores(i) \/ RecoverDropsBackup(i) \/ RecoverDropsStaging(i)
      BY <3>2 DEF RecoverRestores, RecoverDropsBackup, RecoverDropsStaging
    <3>3. CASE ReconcileUpdates(i)
      BY <3>3, Updates DEF ReconcileUpdates
    <3>4. CASE ReconcileWipes(i)
      BY <3>4 DEF ReconcileWipes
    <3>5. CASE ReconcileDeletes(i)
      BY <3>5 DEF ReconcileDeletes
    <3> QED BY <1>8, <3>1, <3>2, <3>3, <3>4, <3>5 DEF Reconcile
  <2> QED BY <2>1, <2>2
<1>9. ASSUME Crash PROVE Goal
  BY <1>9 DEF Crash
<1>10. ASSUME Restarted PROVE Goal
  BY <1>10 DEF Restarted
<1>11. ASSUME UNCHANGED vars PROVE Goal
  BY <1>11 DEF vars, call, boot, Busy
<1> QED BY <1>1, <1>2, <1>3, <1>4, <1>5, <1>6, <1>7, <1>8, <1>9, <1>10, <1>11,
           <1>12, StepKinds, WorksWhen, LeavesWhen

LEMMA OwnedInvariant == Spec => []OwnedInv
<1>1. Init => OwnedInv
  BY LockInit DEF Init, OwnedInv, ReadyInv, OwnerState, ReadyIsVerified,
                  InterruptedIsOwned, Reconciled, Interrupted, Busy
<1>2. OwnedInv /\ [Next]_vars => OwnedInv'
  BY TypeStep, LockStep, OwnerStep, ReadyStep, OwnedStep DEF OwnedInv, ReadyInv, LockInv
<1> QED BY <1>1, <1>2, PTL DEF Spec

(* No crash and no failed step leaves an environment INSTALLING, CLONING,  *)
(* RESETTING or DELETING with nobody at work on it: once the app is up     *)
(* again, such a state belongs to a running call.                          *)
THEOREM OwnershipSafety == Spec => []InterruptedIsOwned
<1>1. OwnedInv => InterruptedIsOwned
  BY DEF OwnedInv
<1> QED BY <1>1, OwnedInvariant, PTL

-----------------------------------------------------------------------------
(* The trees, when nothing is cancelled.                                   *)

\* Nobody works on the files that a clone is copied from.
LEMMA SourceAlone ==
    ASSUME LockInv, NEW c \in Callers, NEW d \in Callers, c # d, Busy(c), Cloning(d),
           db[src[d]] # "NONE"
    PROVE  env[c] # src[d]
BY DEF LockInv, HoldsOwn, Exclusive, Busy, Waiting

\* A mutex that is free belongs to a record that is in no transient state.
LEMMA FreeIsSettled ==
    ASSUME ~Cancels, OwnedInv, NEW c \in Callers, pc[c] # "idle", Free(want[c])
    PROVE  db[env[c]] \notin Interrupted
<1>1. up /\ env[c] \in Ids /\ (db[env[c]] # "NONE" => want[c] = <<env[c], 0>>)
  BY DEF OwnedInv, ReadyInv, LockInv, DownIsIdle, TypeOK, WantsFirst
<1>2. ASSUME db[env[c]] # "NONE", NEW d \in Callers, Busy(d) PROVE env[d] # env[c]
  BY <1>1, <1>2 DEF OwnedInv, ReadyInv, LockInv, HoldsOwn, Free
<1> QED BY <1>1, <1>2 DEF OwnedInv, InterruptedIsOwned, Interrupted

\* A call that does not move, on trees that do not change, stays in order.
LEMMA CallStays ==
    ASSUME NEW d \in Callers, CallAt(d), UNCHANGED disk,
           pc'[d] = pc[d], env'[d] = env[d], src'[d] = src[d],
           pc[d] # "idle" /\ db'[env[d]] # "NONE" => db[env[d]] # "NONE",
           Cloning(d) => db'[src[d]] \notin Gone
    PROVE  CallAt(d)'
<1>1. rootfs' = rootfs /\ staging' = staging /\ backup' = backup
  BY DEF disk
<1>2. (db[env[d]] # "NONE") /\ PromoteAt(d) => PromoteAt(d)'
  BY <1>1 DEF PromoteAt
<1>3. pc[d] = "idle" => PromoteAt(d)'
  BY DEF PromoteAt
<1> QED BY <1>1, <1>2, <1>3 DEF CallAt, Cloning, Locked

\* A call that has none of its copies or promotions under way is in order.
LEMMA CallRests ==
    ASSUME NEW d \in Callers,
           pc'[d] \notin {"deploy", "extract", "copying", "promote", "promote2", "promote3"},
           pc'[d] = "installDiscard" => src'[d] = env'[d],
           pc'[d] \notin Waiting \cup {"idle"} /\ src'[d] # env'[d] => db'[src'[d]] \notin Gone
    PROVE  CallAt(d)'
BY DEF CallAt, PromoteAt, Cloning, Locked

\* A step inside a call touches the trees of its own environment only, which
\* no other call works on or copies from.
LEMMA WorkElsewhere ==
    ASSUME StoreInv, NEW c \in Callers, Works(c), versions' \in {versions, versions + 1}
    PROVE  /\ \A i \in Ids \ {env[c]} : TreesAt(i)'
           /\ \A d \in Callers \ {c} : CallAt(d)'
<1> TypeOK /\ DiskInv /\ LockInv /\ OneOwner
  BY OwnsAlone DEF StoreInv, OwnedInv, ReadyInv, LockInv
<1>1. ASSUME NEW i \in Ids \ {env[c]} PROVE TreesAt(i)'
  <2>1. rootfs[i] \in Int /\ staging[i] \in Int /\ backup[i] \in Int /\ versions \in Int
    BY DEF TypeOK, Tree, Versions, Absent, Broken
  <2> QED BY <2>1 DEF TreesAt, DiskInv, Works
<1>2. ASSUME NEW d \in Callers \ {c} PROVE CallAt(d)'
  <2>1. pc'[d] = pc[d] /\ env'[d] = env[d] /\ src'[d] = src[d] /\ db' = db
    BY DEF Works
  <2>2. Busy(d) /\ db[env[d]] # "NONE" =>
            /\ rootfs'[env[d]] = rootfs[env[d]] /\ staging'[env[d]] = staging[env[d]]
            /\ backup'[env[d]] = backup[env[d]]
    BY DEF Works, OneOwner, TypeOK
  <2>3. Cloning(d) => rootfs'[src[d]] = rootfs[src[d]]
    BY SourceAlone DEF Works, DiskInv, CallAt, Gone, TypeOK
  <2>4. pc[d] \in {"promote", "promote2", "promote3", "copying"} => Busy(d) /\ Locked(d)
    BY DEF Busy, Locked, Waiting
  <2>5. pc[d] = "copying" => Cloning(d)
    BY <2>4 DEF Cloning, LockInv, HoldsOwn
  <2> QED BY <2>1, <2>2, <2>3, <2>4, <2>5
          DEF CallAt, PromoteAt, DiskInv, HoldsOwn, Cloning, Locked
<1> QED BY <1>1, <1>2

\* What a step inside a call makes of its own environment's trees.
LEMMA WorkHere ==
    ASSUME StoreInv, NEW c \in Callers, Work(c)
    PROVE  /\ \A i \in {env[c]} : TreesAt(i)'
           /\ CallAt(c)' /\ versions' \in {versions, versions + 1}
<1> DEFINE e == env[c]
<1>0. TypeOK /\ LockInv /\ DiskInv /\ OwnerState /\ Works(c)
  BY WorksWhen DEF StoreInv, OwnedInv, ReadyInv, LockInv
<1> /\ rootfs \in [Ids -> Tree] /\ staging \in [Ids -> Tree] /\ backup \in [Ids -> Tree]
    /\ pc \in [Callers -> Waiting \cup Discards \cup
                 {"idle", "cloneLock", "deploy", "extract", "provision", "verify",
                  "copy", "copying", "promote", "promote2", "promote3", "wipe", "unlock"}]
    /\ env' = env /\ src' = src /\ db' = db /\ used' = used
    /\ e \in Ids /\ src[c] \in Ids /\ e \in used /\ versions \in Nat
  BY <1>0, EnvironmentAssumption DEF TypeOK, LockInv, WantsFirst, Works, Busy
<1> /\ rootfs[e] \in Tree /\ staging[e] \in Tree /\ backup[e] \in Tree
    /\ rootfs[src[c]] \in Tree
    /\ TreesAt(e) /\ CallAt(c) /\ TreesAt(src[c])
  BY <1>0 DEF DiskInv
<1>a. pc[c] \in {"copy", "copying"} => Cloning(c)
  BY <1>0 DEF LockInv, HoldsOwn, Cloning, Locked, Waiting
<1>b. pc[c] = "wipe" => db[e] \in Gone
  BY <1>0 DEF OwnerState, Busy, Waiting
<1> USE DEF TreesAt, CallAt, PromoteAt, Cloning, Locked, Waiting, Discards, Goto, Tree, Versions,
            Valid, Absent, Broken, Gone, disk, call, boot, ids
<1>1. CASE DiscardStaging(c)
  BY <1>1 DEF DiscardStaging, Deleting
<1>2. CASE InstallDiscarded(c)
  BY <1>2 DEF InstallDiscarded
<1>3. CASE DeployInPlace(c)
  BY <1>3 DEF DeployInPlace
<1>4. CASE Extract(c)
  BY <1>4 DEF Extract
<1>5. CASE Extracted(c)
  BY <1>5, EnvironmentAssumption DEF Extracted
<1>6. CASE StepFails(c)
  BY <1>6 DEF StepFails
<1>7. CASE Provisioned(c)
  BY <1>7 DEF Provisioned
<1>8. CASE InstallNotVerified(c)
  BY <1>8 DEF InstallNotVerified
<1>9. CASE CopyStarts(c)
  BY <1>9, <1>a DEF CopyStarts
<1>10. CASE CopyDone(c)
  BY <1>10, <1>a DEF CopyDone
<1>11. CASE PromoteBacksUp(c)
  BY <1>11 DEF PromoteBacksUp
<1>12. CASE PromoteFails(c)
  BY <1>12 DEF PromoteFails
<1>13. CASE PromoteStaged(c)
  BY <1>13 DEF PromoteStaged
<1>14. CASE PromoteRestores(c)
  BY <1>14 DEF PromoteRestores
<1>15. CASE PromoteCleansUp(c)
  BY <1>15 DEF PromoteCleansUp, Deleting
<1>16. CASE InstallPromoted(c)
  BY <1>16 DEF InstallPromoted
<1>17. CASE DeleteWipes(c)
  BY <1>17, <1>b DEF DeleteWipes, Wipe, Deleting
<1> QED BY <1>1, <1>2, <1>3, <1>4, <1>5, <1>6, <1>7, <1>8, <1>9, <1>10, <1>11,
          <1>12, <1>13, <1>14, <1>15, <1>16, <1>17 DEF Work, Promote

\* Every step keeps the trees in order.
LEMMA DiskStep ==
    ASSUME ~Cancels, StoreInv, TypeOK', [Next]_vars
    PROVE  DiskInv'
<1>0. TypeOK /\ LockInv /\ DiskInv /\ OwnerState /\ OwnedInv
  BY DEF StoreInv, OwnedInv, ReadyInv, LockInv
<1> WantsFirst /\ HoldsOwn /\ Recorded /\ DownIsIdle /\ TypeOK
  BY <1>0 DEF LockInv
<1> (\A i \in Ids : TreesAt(i)) /\ (\A c \in Callers : CallAt(c))
  BY <1>0 DEF DiskInv
<1>1. ASSUME NEW i \in Ids, CreateEnvironment(i) PROVE DiskInv'
  <2>1. \A j \in Ids : TreesAt(j)'
    BY <1>1 DEF TreesAt, CreateEnvironment, TypeOK, Gone, Absent, Broken, disk
  <2>2. /\ UNCHANGED <<disk, call>> /\ i \notin used
        /\ db'[i] = "CREATED" /\ \A j \in Ids \ {i} : db'[j] = db[j]
    BY <1>1 DEF CreateEnvironment, TypeOK
  <2>3. ASSUME NEW c \in Callers PROVE CallAt(c)'
    <3>1. pc[c] # "idle" => db'[env[c]] = db[env[c]]
      BY <2>2 DEF WantsFirst, TypeOK
    <3>2. Cloning(c) => db'[src[c]] \notin Gone
      BY <2>2 DEF CallAt, Gone, TypeOK
    <3> QED BY <2>2, <3>1, <3>2, CallStays DEF call
  <2> QED BY <2>1, <2>3 DEF DiskInv
<1>2. ASSUME NEW c \in Callers, NEW op \in Waiting, NEW i \in Ids, GetLock(c, op, i)
      PROVE  DiskInv'
  <2>1. \A j \in Ids : TreesAt(j)'
    BY <1>2 DEF GetLock, TreesAt, disk, ids
  <2>2. CallAt(c)'
    <3>1. pc'[c] \in Waiting
      BY <1>2 DEF GetLock, Goto, TypeOK
    <3> QED BY <3>1, CallRests DEF Waiting
  <2>3. ASSUME NEW d \in Callers \ {c} PROVE CallAt(d)'
    <3>1. /\ pc'[d] = pc[d] /\ env'[d] = env[d] /\ src'[d] = src[d]
          /\ db' = db /\ UNCHANGED disk
      BY <1>2 DEF GetLock, Goto, TypeOK
    <3> QED BY <3>1, CallStays DEF CallAt
  <2> QED BY <2>1, <2>2, <2>3 DEF DiskInv
<1>3. ASSUME NEW c \in Callers, Enter(c) PROVE DiskInv'
  <2>1. Enters(c) /\ db[env[c]] \notin Interrupted /\ env[c] \in Ids /\ UNCHANGED disk
    <3>1. Enters(c)
      BY <1>3, EntersWhen DEF Enter
    <3>2. db[env[c]] \notin Interrupted
      BY <1>0, <3>1, FreeIsSettled DEF Enters, Waiting
    <3>3. UNCHANGED disk
      BY <1>3 DEF Enter, BeginInstall, BeginReset, BeginDelete, CloneLocked
    <3> QED BY <3>1, <3>2, <3>3 DEF TypeOK
  <2>2. /\ \A i \in Ids \ {env[c]} : db'[i] = db[i]
        /\ db'[env[c]] = "NONE" <=> db[env[c]] = "NONE"
        /\ db'[env[c]] \in Gone \/ db[env[c]] \notin Gone
        /\ db'[env[c]] \in Gone => db[env[c]] \in Gone \/ pc[c] = "delete"
        /\ pc'[c] = "installDiscard" => pc[c] = "install"
    <3> USE <2>1, Updates DEF Goto, TypeOK, Gone, Interrupted
    <3>1. CASE BeginInstall(c)
      BY <3>1 DEF BeginInstall
    <3>2. CASE BeginReset(c)
      BY <3>2 DEF BeginReset
    <3>3. CASE BeginDelete(c)
      BY <3>3 DEF BeginDelete
    <3>4. CASE CloneLocked(c)
      BY <3>4 DEF CloneLocked
    <3> QED BY <1>3, <3>1, <3>2, <3>3, <3>4 DEF Enter
  <2>3. \A i \in Ids : TreesAt(i)'
    BY <2>1, <2>2 DEF Enters, TreesAt, disk, ids
  <2>4. CallAt(c)'
    <3>1. pc'[c] \in {"installDiscard", "resetDiscard", "wipe", "copy"}
      BY <2>1 DEF Enters, Goto, TypeOK
    <3>2. pc[c] # "cloneLock" => src[c] = env[c]
      BY <2>1 DEF Enters, HoldsOwn
    <3>3. pc[c] = "cloneLock" => Cloning(c)
      BY DEF HoldsOwn, Cloning, Locked, Waiting
    <3>4. pc'[c] = "installDiscard" => src'[c] = env'[c]
      BY <2>1, <2>2, <3>2 DEF Enters, Waiting
    <3>5. src'[c] # env'[c] => db'[src'[c]] \notin Gone
      BY <2>1, <2>2, <3>2, <3>3 DEF Enters, CallAt, Cloning, TypeOK
    <3> QED BY <3>1, <3>4, <3>5, CallRests
  <2>5. ASSUME NEW d \in Callers \ {c} PROVE CallAt(d)'
    <3>1. pc'[d] = pc[d] /\ env' = env /\ src' = src
      BY <2>1 DEF Enters, Goto, TypeOK
    <3>2. Cloning(d) => src[d] # env[c]
      <4>1. ASSUME Cloning(d), src[d] = env[c] PROVE FALSE
        <5>1. db[env[c]] # "NONE" /\ <<env[c], 0>> \in locks[d]
          BY <4>1 DEF CallAt, HoldsOwn, Gone
        <5>2. want[c] = <<env[c], 0>> /\ Free(want[c])
          BY <2>1, <5>1 DEF Enters, WantsFirst, Waiting
        <5> QED BY <5>1, <5>2 DEF Free
      <4> QED BY <4>1
    <3>3. Cloning(d) => db'[src[d]] \notin Gone
      BY <2>2, <3>2 DEF CallAt, TypeOK
    <3>4. db'[env[d]] # "NONE" => db[env[d]] # "NONE"
      BY <2>2 DEF TypeOK
    <3> QED BY <2>1, <3>1, <3>3, <3>4, CallStays
  <2> QED BY <2>3, <2>4, <2>5 DEF DiskInv
<1>4. ASSUME NEW c \in Callers, Work(c) PROVE DiskInv'
  <2>1. env[c] \in Ids /\ Works(c)
    BY <1>4, WorksWhen DEF TypeOK
  <2>2. /\ \A i \in {env[c]} : TreesAt(i)'
        /\ CallAt(c)' /\ versions' \in {versions, versions + 1}
    BY <1>4, WorkHere
  <2>3. /\ \A i \in Ids \ {env[c]} : TreesAt(i)'
        /\ \A d \in Callers \ {c} : CallAt(d)'
    BY <2>1, <2>2, WorkElsewhere
  <2> QED BY <2>1, <2>2, <2>3 DEF DiskInv
<1>5. ASSUME NEW c \in Callers, Leaves(c), SameRecords PROVE DiskInv'
  <2>1. ASSUME NEW i \in Ids PROVE TreesAt(i)'
    <3>1. db'[i] \notin Gone => db[i] \notin Gone
      BY <1>0, <1>5 DEF Leaves, SameRecords, OwnerState, Gone
    <3>2. UNCHANGED <<disk, used>> /\ versions' = versions
      BY <1>5 DEF Leaves
    <3> QED BY <3>1, <3>2 DEF TreesAt, disk
  <2>2. CallAt(c)'
    <3>1. pc'[c] = "idle"
      BY <1>5 DEF Leaves, Return, Goto, TypeOK
    <3> QED BY <3>1, CallRests
  <2>3. ASSUME NEW d \in Callers \ {c} PROVE CallAt(d)'
    <3>1. pc'[d] = pc[d] /\ env'[d] = env[d] /\ src'[d] = src[d]
      BY <1>5 DEF Leaves, Return, Goto, TypeOK
    <3>2. src[d] \in Ids /\ (db[src[d]] \notin Gone => db'[src[d]] \notin Gone)
      BY <1>5 DEF Leaves, Gone, TypeOK
    <3>3. UNCHANGED disk /\ (db'[env[d]] = "NONE" <=> db[env[d]] = "NONE")
      BY <1>5 DEF Leaves, SameRecords, TypeOK
    <3> QED BY <3>1, <3>2, <3>3, CallStays DEF CallAt
  <2> QED BY <2>1, <2>2, <2>3 DEF DiskInv
<1>6. ASSUME NEW c \in Callers, NEW i \in Ids, BeginClone(c, i) PROVE DiskInv'
  <2>1. /\ db[env[c]] \notin Gone /\ env[c] # i /\ env[c] \in Ids
        /\ \A d \in Callers \ {c} : pc'[d] = pc[d] /\ env'[d] = env[d] /\ src'[d] = src[d]
    <3>1. db[env[c]] \notin Gone
      BY <1>0, <1>6, FreeIsSettled DEF BeginClone, Gone, Interrupted
    <3>2. env[c] # i /\ env[c] \in Ids
      BY <1>6 DEF BeginClone, WantsFirst, TypeOK
    <3>3. \A d \in Callers \ {c} : pc'[d] = pc[d] /\ env'[d] = env[d] /\ src'[d] = src[d]
      BY <1>6 DEF BeginClone, Goto, TypeOK
    <3> QED BY <3>1, <3>2, <3>3
  <2>2. /\ db'[i] = "CREATED" /\ \A j \in Ids \ {i} : db'[j] = db[j]
        /\ UNCHANGED disk /\ used' = used \cup {i} /\ versions' = versions /\ i \notin used
    BY <1>6 DEF BeginClone, TypeOK
  <2>3. \A j \in Ids : TreesAt(j)'
    BY <2>2 DEF TreesAt, Gone, Absent, Broken, disk
  <2>4. CallAt(c)'
    <3>1. pc'[c] = "cloneLock" /\ src'[c] = env[c]
      BY <1>6 DEF BeginClone, Goto, TypeOK
    <3> QED BY <2>1, <2>2, <3>1, CallRests
  <2>5. ASSUME NEW d \in Callers \ {c} PROVE CallAt(d)'
    <3>1. src[d] \in Ids /\ (db[src[d]] \notin Gone => db'[src[d]] \notin Gone)
      BY <2>2 DEF Gone, TypeOK
    <3>2. pc[d] # "idle" => db'[env[d]] = db[env[d]]
      BY <2>2 DEF WantsFirst, TypeOK
    <3> QED BY <2>1, <2>2, <3>1, <3>2, CallStays DEF CallAt
  <2> QED BY <2>3, <2>4, <2>5 DEF DiskInv
<1>7. ASSUME NEW c \in Callers, DeleteRecord(c) PROVE DiskInv'
  <2>1. /\ env[c] \in Ids /\ db'[env[c]] = "NONE" /\ \A i \in Ids \ {env[c]} : db'[i] = db[i]
        /\ UNCHANGED <<disk, used, versions>>
    BY <1>7 DEF DeleteRecord, ids, TypeOK
  <2>2. \A i \in Ids : TreesAt(i)'
    BY <2>1 DEF TreesAt, Gone, disk
  <2>3. CallAt(c)'
    <3>1. pc'[c] = "unlock" /\ src'[c] = src[c] /\ env'[c] = env[c] /\ pc[c] = "wipe"
      BY <1>7 DEF DeleteRecord, Goto, TypeOK
    <3>2. src[c] # env[c] => Cloning(c)
      BY <3>1 DEF Cloning, Locked, Waiting
    <3>3. src'[c] # env'[c] => db'[src'[c]] \notin Gone
      BY <2>1, <3>1, <3>2 DEF CallAt, TypeOK
    <3> QED BY <3>1, <3>3, CallRests
  <2>4. ASSUME NEW d \in Callers \ {c} PROVE CallAt(d)'
    <3>1. pc'[d] = pc[d] /\ env'[d] = env[d] /\ src'[d] = src[d]
      BY <1>7 DEF DeleteRecord, Goto, TypeOK
    <3>2. Cloning(d) => src[d] # env[c]
      <4>1. Busy(c)
        BY <1>7 DEF DeleteRecord, Busy, Waiting
      <4> QED BY <1>0, <4>1, SourceAlone DEF CallAt, Gone
    <3>3. Cloning(d) => db'[src[d]] \notin Gone
      BY <2>1, <3>2 DEF CallAt, TypeOK
    <3>4. db'[env[d]] # "NONE" => db[env[d]] # "NONE"
      BY <2>1 DEF TypeOK
    <3> QED BY <2>1, <3>1, <3>3, <3>4, CallStays
  <2> QED BY <2>2, <2>3, <2>4 DEF DiskInv
<1>11. ASSUME NEW c \in Callers, DeleteDone(c) PROVE DiskInv'
  <2>1. UNCHANGED <<db, disk, used, versions>> /\ pc'[c] = "idle"
    BY <1>11 DEF DeleteDone, Return, Goto, TypeOK
  <2>2. \A i \in Ids : TreesAt(i)'
    BY <2>1 DEF TreesAt, disk
  <2>3. CallAt(c)'
    BY <2>1, CallRests
  <2>4. ASSUME NEW d \in Callers \ {c} PROVE CallAt(d)'
    <3>1. pc'[d] = pc[d] /\ env'[d] = env[d] /\ src'[d] = src[d]
      BY <1>11 DEF DeleteDone, Return, Goto, TypeOK
    <3> QED BY <2>1, <3>1, CallStays DEF CallAt
  <2> QED BY <2>2, <2>3, <2>4 DEF DiskInv
<1>8. ASSUME NEW i \in Ids, Reconcile(i) PROVE DiskInv'
  <2>1. Reconciles
    BY <1>8, ReconcilesWhen
  <2>2. \A c \in Callers : CallAt(c)'
    BY <2>1, CallRests DEF Reconciles, DownIsIdle
  <2>3. \A j \in Ids : TreesAt(j)'
    <3> /\ rootfs \in [Ids -> Tree] /\ staging \in [Ids -> Tree] /\ backup \in [Ids -> Tree]
        /\ versions \in Nat /\ db \in [Ids -> States]
      BY EnvironmentAssumption DEF TypeOK
    <3> USE DEF TreesAt, Recovering, Reconciling, Gone, Interrupted, Tree, Versions, Valid,
                Absent, Broken, disk, ids
    <3>1. CASE ReconcileKeeps(i)
      BY <3>1 DEF ReconcileKeeps
    <3>2. CASE RecoverRestores(i)
      BY <3>2 DEF RecoverRestores
    <3>3. CASE RecoverDropsBackup(i)
      BY <3>3 DEF RecoverDropsBackup, Deleting
    <3>4. CASE RecoverDropsStaging(i)
      BY <3>4 DEF RecoverDropsStaging
    <3>5. CASE ReconcileUpdates(i)
      BY <3>5, Updates DEF ReconcileUpdates
    <3>6. CASE ReconcileWipes(i)
      BY <3>6 DEF ReconcileWipes, Wipe, Deleting
    <3>7. CASE ReconcileDeletes(i)
      BY <3>7 DEF ReconcileDeletes
    <3> QED BY <1>8, <3>1, <3>2, <3>3, <3>4, <3>5, <3>6, <3>7 DEF Reconcile
  <2> QED BY <2>2, <2>3 DEF DiskInv
<1>9. ASSUME Crash PROVE DiskInv'
  BY <1>9 DEF Crash, DiskInv, TreesAt, CallAt, PromoteAt, Cloning, Locked, disk
<1>10. ASSUME Restarted \/ UNCHANGED vars PROVE DiskInv'
  BY <1>10 DEF Restarted, vars, DiskInv, TreesAt, CallAt, PromoteAt, Cloning, Locked,
               disk, call, ids
<1> QED BY <1>1, <1>2, <1>3, <1>4, <1>5, <1>6, <1>7, <1>8, <1>9, <1>10, <1>11,
           StepKinds, LeavesWhen

LEMMA StoreInvariant == ~Cancels => (Spec => []StoreInv)
<1> SUFFICES ASSUME ~Cancels PROVE Spec => []StoreInv
  OBVIOUS
<1>1. Init => DiskInv
  BY EnvironmentAssumption
     DEF Init, DiskInv, TreesAt, CallAt, PromoteAt, Cloning, Locked, Absent, Broken
<1>2. DiskInv /\ OwnedInv /\ OwnedInv' /\ [Next]_vars => DiskInv'
  BY DiskStep DEF StoreInv, OwnedInv, ReadyInv, LockInv
<1> QED BY <1>1, <1>2, OwnedInvariant, PTL DEF Spec, StoreInv

-----------------------------------------------------------------------------
(* The store.                                                              *)

\* What the store sees of an environment stays the same.
Same(i) ==
    /\ Surviving(i)' = Surviving(i)
    /\ i \in used' /\ db'[i] \in Gone <=> i \in used /\ db[i] \in Gone

LEMMA SameStutters ==
    ASSUME TypeOK, TypeOK', \A i \in Ids : Same(i)
    PROVE  UNCHANGED Store!vars
<1>1. [i \in Ids |-> Surviving(i)]' = [i \in Ids |-> Surviving(i)]
  BY DEF Same
<1>2. {i \in used : db[i] \in Gone}' = {i \in used : db[i] \in Gone}
  BY DEF Same, TypeOK
<1> QED BY <1>1, <1>2 DEF Store!vars, Gone

\* Only the second rename of a promotion changes which version survives.
LEMMA WorkIsSame ==
    ASSUME StoreInv, NEW c \in Callers, Work(c), ~PromoteStaged(c)
    PROVE  \A i \in Ids : Same(i)
<1>0. TypeOK /\ DiskInv /\ OwnerState /\ Works(c)
  BY WorksWhen DEF StoreInv, OwnedInv, ReadyInv, LockInv
<1>1. \A i \in Ids \ {env[c]} : Same(i)
  BY <1>0 DEF Works, Same, Surviving
<1>2. ASSUME NEW e \in Ids, e = env[c] PROVE Same(e)
  <2> /\ rootfs \in [Ids -> Tree] /\ staging \in [Ids -> Tree] /\ backup \in [Ids -> Tree]
      /\ db' = db /\ used' = used
    BY <1>0 DEF TypeOK, Works
  <2> rootfs[e] \in Tree /\ backup[e] \in Tree /\ TreesAt(e) /\ CallAt(c)
    BY <1>0 DEF DiskInv
  <2>a. pc[c] = "wipe" => db[e] \in Gone
    BY <1>0, <1>2 DEF OwnerState, Busy, Waiting
  <2> USE <1>2 DEF Same, Surviving, TreesAt, CallAt, PromoteAt, Tree, Versions, Valid, Absent, Broken, Gone,
              disk
  <2>1. CASE DiscardStaging(c)
    BY <2>1 DEF DiscardStaging, Deleting
  <2>2. CASE InstallDiscarded(c) \/ DeployInPlace(c) \/ StepFails(c) \/ Provisioned(c)
             \/ InstallNotVerified(c) \/ PromoteFails(c) \/ InstallPromoted(c)
    BY <2>2 DEF InstallDiscarded, DeployInPlace, StepFails, Provisioned, InstallNotVerified,
                PromoteFails, InstallPromoted
  <2>3. CASE Extract(c) \/ Extracted(c) \/ CopyStarts(c) \/ CopyDone(c)
    BY <2>3 DEF Extract, Extracted, CopyStarts, CopyDone
  <2>4. CASE PromoteBacksUp(c)
    BY <2>4 DEF PromoteBacksUp
  <2>5. CASE PromoteRestores(c)
    BY <2>5 DEF PromoteRestores
  <2>6. CASE PromoteCleansUp(c)
    BY <2>6 DEF PromoteCleansUp, Deleting
  <2>7. CASE DeleteWipes(c)
    BY <2>7, <2>a DEF DeleteWipes
  <2> QED BY <2>1, <2>2, <2>3, <2>4, <2>5, <2>6, <2>7 DEF Work, Promote
<1> QED BY <1>1, <1>2

\* The second rename is the step of the store: the extracted version replaces
\* an older one, or the clone becomes a copy of its source.
LEMMA PromotionIsStoreStep ==
    ASSUME StoreInv, NEW c \in Callers, PromoteStaged(c)
    PROVE  [Store!Next]_(Store!vars)
<1>0. TypeOK /\ LockInv /\ DiskInv /\ Works(c)
  BY WorksWhen DEF StoreInv, OwnedInv, ReadyInv, LockInv, Work, Promote
<1>1. PICK e \in Ids : e = env[c]
  BY <1>0 DEF TypeOK
<1>2. /\ db' = db /\ used' = used /\ backup' = backup /\ rootfs'[e] = staging[e]
      /\ \A i \in Ids \ {e} : rootfs'[i] = rootfs[i]
  BY <1>0, <1>1 DEF PromoteStaged, Works, TypeOK
<1>3. db[e] \notin Gone =>
        /\ Valid(staging[e]) /\ rootfs[e] = Absent
        /\ src[c] = e => backup[e] < staging[e]
        /\ src[c] # e => staging[e] = rootfs[src[c]] /\ db[src[c]] \notin Gone
  BY <1>0, <1>1 DEF DiskInv, CallAt, PromoteAt, PromoteStaged, Cloning, Locked, Waiting, Gone
<1>4. \A i \in Ids \ {e} : Surviving(i)' = Surviving(i)
  BY <1>2 DEF Surviving
<1>5. {i \in used : db[i] \in Gone}' = {i \in used : db[i] \in Gone}
  BY <1>2
<1>6. CASE db[e] \in Gone
  <2>1. \A i \in Ids : Surviving(i)' = Surviving(i)
    BY <1>2, <1>4, <1>6 DEF Surviving, Gone
  <2>2. [i \in Ids |-> Surviving(i)]' = [i \in Ids |-> Surviving(i)]
    BY <2>1
  <2> QED BY <1>5, <2>2 DEF Store!vars, Gone
<1>7. CASE db[e] \notin Gone
  <2>1. Surviving(e)' = staging[e] /\ staging[e] \in Versions
    BY <1>2, <1>3, <1>7 DEF Surviving, Valid, Gone
  <2>2. [i \in Ids |-> Surviving(i)]' = [[i \in Ids |-> Surviving(i)] EXCEPT ![e] = staging[e]]
    BY <1>4, <2>1
  <2>3. CASE src[c] = e
    <3>1. staging[e] > Surviving(e)
      BY <1>0, <1>3, <1>7, <2>1, <2>3, EnvironmentAssumption
         DEF TypeOK, Surviving, Valid, Tree, Versions, Absent, Broken
    <3>2. Store!Replace(e)
      BY <1>5, <1>7, <2>1, <2>2, <3>1 DEF Store!Replace, Gone
    <3> QED BY <3>2 DEF Store!Next
  <2>4. CASE src[c] # e
    <3>1. src[c] \in Ids /\ Surviving(src[c]) = staging[e] /\ staging[e] # 0
      BY <1>0, <1>3, <1>7, <2>1, <2>4 DEF TypeOK, Surviving, Valid, Gone, Versions
    <3>2. PICK f \in Ids : f = src[c]
      BY <3>1
    <3>3. Store!Copy(e, f)
      BY <1>5, <1>7, <2>2, <3>1, <3>2 DEF Store!Copy, Gone
    <3> QED BY <3>3 DEF Store!Next
  <2> QED BY <2>3, <2>4
<1> QED BY <1>6, <1>7

\* deleteEnvironment removes the environment from the store with its first
\* write, before a file of it is gone.
LEMMA DeletionIsStoreStep ==
    ASSUME StoreInv, TypeOK', NEW c \in Callers, BeginDelete(c)
    PROVE  [Store!Next]_(Store!vars)
<1>0. TypeOK /\ WantsFirst
  BY DEF StoreInv, OwnedInv, ReadyInv, LockInv
<1>1. PICK e \in Ids : e = env[c]
  BY <1>0 DEF TypeOK
<1>2. e \in used /\ UNCHANGED <<disk, used>>
  BY <1>0, <1>1 DEF BeginDelete, WantsFirst, ids
<1>3. \A i \in Ids : db'[i] = IF i = e /\ db[e] # "NONE" THEN "DELETING" ELSE db[i]
  BY <1>0, <1>1, Updates DEF BeginDelete, TypeOK
<1>4. CASE db[e] = "NONE"
  <2>1. \A i \in Ids : Same(i)
    BY <1>2, <1>3, <1>4 DEF Same, Surviving, disk
  <2> QED BY <1>0, <2>1, SameStutters
<1>5. CASE db[e] # "NONE"
  <2>1. Surviving(e)' = 0 /\ \A i \in Ids \ {e} : Surviving(i)' = Surviving(i)
    BY <1>2, <1>3, <1>5 DEF Surviving, Absent, disk
  <2>2. [i \in Ids |-> Surviving(i)]' = [[i \in Ids |-> Surviving(i)] EXCEPT ![e] = 0]
    BY <2>1
  <2>3. {i \in used : db[i] \in Gone}' = {i \in used : db[i] \in Gone} \cup {e}
    BY <1>0, <1>2, <1>3, <1>5 DEF Gone, TypeOK
  <2>4. Store!Remove(e)
    BY <2>2, <2>3 DEF Store!Remove, Gone
  <2> QED BY <2>4 DEF Store!Next
<1> QED BY <1>4, <1>5

LEMMA StoreStep ==
    ASSUME ~Cancels, StoreInv, TypeOK', [Next]_vars
    PROVE  [Store!Next]_(Store!vars)
<1>0. TypeOK /\ LockInv /\ DiskInv /\ OwnerState /\ OwnedInv
  BY DEF StoreInv, OwnedInv, ReadyInv, LockInv
<1> DEFINE Stutters == \A i \in Ids : Same(i)
<1>1. ASSUME NEW e \in Ids, CreateEnvironment(e) PROVE Stutters
  BY <1>0, <1>1 DEF CreateEnvironment, LockInv, Recorded, DiskInv, TreesAt, Same, Surviving,
                    Valid, Versions, Absent, Gone, TypeOK, disk
<1>2. ASSUME NEW c \in Callers, NEW op \in Waiting, NEW i \in Ids, GetLock(c, op, i)
      PROVE  Stutters
  BY <1>2 DEF GetLock, Same, Surviving, disk, ids
<1>3. ASSUME NEW c \in Callers, Enter(c), ~BeginDelete(c) PROVE Stutters
  <2>1. Enters(c) /\ UNCHANGED disk /\ env[c] \in Ids
    BY <1>0, <1>3, EntersWhen DEF Enter, BeginInstall, BeginReset, CloneLocked, TypeOK
  <2>2. db[env[c]] \notin Interrupted
    BY <1>0, <2>1, FreeIsSettled DEF Enters, Waiting
  <2>3. \A i \in Ids : db'[i] \in Gone <=> db[i] \in Gone
    BY <1>0, <1>3, <2>1, <2>2, Updates
       DEF Enter, BeginInstall, BeginReset, CloneLocked, TypeOK, Gone, Interrupted
  <2> QED BY <2>1, <2>3 DEF Enters, Same, Surviving, Gone, disk, ids
<1>4. ASSUME NEW c \in Callers, Leaves(c), SameRecords PROVE Stutters
  <2>1. \A i \in Ids : db'[i] \in Gone <=> db[i] \in Gone
    BY <1>0, <1>4 DEF Leaves, SameRecords, OwnerState, Gone
  <2> QED BY <1>4, <2>1 DEF Leaves, Same, Surviving, Gone, disk
<1>5. ASSUME NEW c \in Callers, NEW e \in Ids, BeginClone(c, e) PROVE Stutters
  BY <1>0, <1>5 DEF BeginClone, LockInv, Recorded, DiskInv, TreesAt, Same, Surviving,
                    Valid, Versions, Absent, Gone, TypeOK, disk
<1>6. ASSUME NEW c \in Callers, DeleteRecord(c) PROVE Stutters
  <2>1. db[env[c]] \in Gone /\ env[c] \in Ids
    BY <1>0, <1>6 DEF DeleteRecord, OwnerState, Busy, Waiting, TypeOK
  <2> QED BY <1>0, <1>6, <2>1 DEF DeleteRecord, Same, Surviving, Gone, TypeOK, disk, ids
<1>10. ASSUME NEW c \in Callers, DeleteDone(c) PROVE Stutters
  BY <1>10 DEF DeleteDone, Same, Surviving, disk
<1>7. ASSUME NEW e \in Ids, Reconcile(e) PROVE Stutters
  <2> /\ rootfs \in [Ids -> Tree] /\ backup \in [Ids -> Tree] /\ db \in [Ids -> States]
      /\ TreesAt(e)
    BY <1>0 DEF TypeOK, DiskInv
  <2> USE DEF Same, Surviving, TreesAt, Recovering, Reconciling, Gone, Interrupted, Tree,
              Versions, Valid, Absent, Broken, disk, ids
  <2>1. CASE ReconcileKeeps(e)
    BY <2>1 DEF ReconcileKeeps
  <2>2. CASE RecoverRestores(e)
    BY <2>2 DEF RecoverRestores
  <2>3. CASE RecoverDropsBackup(e)
    BY <2>3 DEF RecoverDropsBackup, Deleting
  <2>4. CASE RecoverDropsStaging(e)
    BY <2>4 DEF RecoverDropsStaging
  <2>5. CASE ReconcileUpdates(e)
    BY <2>5, Updates DEF ReconcileUpdates
  <2>6. CASE ReconcileWipes(e)
    BY <2>6 DEF ReconcileWipes, Wipe
  <2>7. CASE ReconcileDeletes(e)
    BY <2>7 DEF ReconcileDeletes
  <2> QED BY <1>7, <2>1, <2>2, <2>3, <2>4, <2>5, <2>6, <2>7 DEF Reconcile
<1>8. ASSUME Crash \/ Restarted \/ UNCHANGED vars PROVE Stutters
  BY <1>8 DEF Crash, Restarted, vars, Same, Surviving, disk, ids
<1>9. ASSUME NEW c \in Callers, Enter(c) \/ Work(c) PROVE [Store!Next]_(Store!vars)
  BY <1>0, <1>3, <1>9, PromotionIsStoreStep, DeletionIsStoreStep, WorkIsSame, SameStutters
<1> QED BY <1>0, <1>1, <1>2, <1>4, <1>5, <1>6, <1>7, <1>8, <1>9, <1>10, StepKinds,
           LeavesWhen, SameStutters

(* Nothing but a deletion loses the version that an environment has: each  *)
(* step of EnvironmentManager, of promoteStagedRootfs, of a crash or of    *)
(* the reconciliation is a step of RootfsStore or none at all, as long as  *)
(* no call is cancelled.                                                   *)
THEOREM StoreRefinement == ~Cancels => (Spec => ImplementsStore)
<1> SUFFICES ASSUME ~Cancels PROVE Spec => ImplementsStore
  OBVIOUS
<1>1. Init => Store!Init
  BY DEF Init, Store!Init, Surviving, Absent
<1>2. StoreInv /\ StoreInv' /\ [Next]_vars => [Store!Next]_(Store!vars)
  BY StoreStep DEF StoreInv, OwnedInv, ReadyInv, LockInv
<1> QED BY <1>1, <1>2, StoreInvariant, PTL DEF Spec, ImplementsStore, Store!Spec
==============================================================================
