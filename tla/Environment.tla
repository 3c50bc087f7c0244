----------------------------- MODULE Environment -----------------------------
(***************************************************************************)
(* Environments on disk and in the database: EnvironmentManager.kt with    *)
(* the rootfs promotion of EnvironmentStorage.kt, the installer that       *)
(* RootfsDeploymentManager.kt and LocalRootfsImporter.kt run inside        *)
(* installEnvironment, process crashes, and the reconciliation that the    *)
(* next start of the app does.                                             *)
(*                                                                         *)
(* A directory tree is Absent, Broken (verifyRootfs refuses it) or a       *)
(* numbered version.  deleteRecursively may leave a tree Broken on its way *)
(* to Absent.  Sessions, which write other states into the same record,    *)
(* are not part of this module.                                            *)
(***************************************************************************)
EXTENDS Integers, FiniteSets

CONSTANTS
    Ids,          \* EnvironmentIds
    Callers,      \* coroutines that call EnvironmentManager
    Faults,       \* may a rename fail
    Cancels,      \* may a coroutine be cancelled
    MaxVersions,  \* bound: how many archives are extracted
    MaxGens,      \* bound: how many mutexes of an environment are dropped
                  \* before nobody asks for its deletion any more
    MaxCrashes    \* bound: how often the process dies

ASSUME EnvironmentAssumption ==
    /\ Faults \in BOOLEAN
    /\ Cancels \in BOOLEAN
    /\ MaxVersions \in Nat
    /\ MaxGens \in Nat
    /\ MaxCrashes \in Nat
    /\ Ids # {}

VARIABLES
    db,        \* the state column of each record, "NONE" without a record
    rootfs,    \* rootfsDir
    staging,   \* stagingRootfsDir
    backup,    \* backupRootfsDir
    pc,        \* where each caller is
    env,       \* the environment it works on
    src,       \* the environment it clones
    want,      \* the mutex it waits for: a generation of getLock(id)
    locks,     \* the mutexes it holds, as pairs of id and generation
    gen,       \* how often locks.remove(id) has dropped the mutex of id
    up,        \* the app is up: reconcileEnvironments is done
    todo,      \* the records reconcileEnvironments still has to look at
    versions,  \* archives extracted so far
    crashes,   \* crashes so far
    used,      \* ids that have been generated
    copied     \* clones that were made READY without a look at their rootfs

disk == <<rootfs, staging, backup>>
call == <<pc, env, src, want, locks>>
boot == <<up, todo, crashes>>
ids  == <<gen, versions, used, copied>>
vars == <<db, disk, call, boot, ids>>

Absent == 0
Broken == 1
Versions == 2 .. MaxVersions + 1
Tree == {Absent, Broken} \cup Versions

\* verifyRootfs, of a tree
Valid(t) == t \in Versions

States == {"NONE", "CREATED", "INSTALLING", "READY", "DELETING", "CLONING",
           "RESETTING", "FAILED"}
Interrupted == {"INSTALLING", "CLONING", "RESETTING", "DELETING"}

Waiting == {"install", "reset", "delete", "clone"}
Busy(c) == pc[c] \notin Waiting \cup {"idle", "cloneLock"}

Goto(c, l) == pc' = [pc EXCEPT ![c] = l]

Free(m) == \A c \in Callers : m \notin locks[c]

\* dao.updateState, which does nothing without a record
UpdateState(i, s) == db' = IF db[i] = "NONE" THEN db ELSE [db EXCEPT ![i] = s]

\* The arguments of a caller that is in no call
AnyId == CHOOSE i \in Ids : TRUE

\* The caller returns or throws; withLock unlocks.
Return(c) ==
    /\ Goto(c, "idle")
    /\ locks' = [locks EXCEPT ![c] = {}]
    /\ env' = [env EXCEPT ![c] = AnyId]
    /\ src' = [src EXCEPT ![c] = AnyId]
    /\ want' = [want EXCEPT ![c] = <<AnyId, 0>>]

Lock(c) == locks' = [locks EXCEPT ![c] = @ \cup {want[c]}]

\* deleteRecursively: what is left of the tree after a while, and at the end
Deleting(t) == IF Valid(t) THEN {Absent, Broken} ELSE {Absent}

-----------------------------------------------------------------------------
(* Calls.  getLock(id) fetches the mutex, withLock then waits for it.      *)

CreateEnvironment(i) ==
    /\ up /\ i \notin used
    /\ used' = used \cup {i}
    /\ db' = [db EXCEPT ![i] = "CREATED"]
    /\ UNCHANGED <<disk, call, boot, gen, versions, copied>>

\* A caller names an environment that it has seen in some list; getLock does
\* not look whether it still has a record.
GetLock(c, op, i) ==
    /\ up /\ pc[c] = "idle" /\ i \in used
    /\ op = "delete" => gen[i] < MaxGens
    /\ Goto(c, op)
    /\ env' = [env EXCEPT ![c] = i]
    /\ src' = [src EXCEPT ![c] = i]
    /\ want' = [want EXCEPT ![c] = <<i, gen[i]>>]
    /\ UNCHANGED <<db, disk, locks, boot, ids>>

\* No record, or withState refuses the transition: the call throws.
CallRefused(c, op, states) ==
    /\ pc[c] = op /\ Free(want[c])
    /\ db[env[c]] \notin states
    /\ Return(c)
    /\ UNCHANGED <<db, disk, boot, ids>>

BeginInstall(c) ==
    /\ pc[c] = "install" /\ Free(want[c])
    /\ db[env[c]] \in {"CREATED", "FAILED", "INSTALLING"}
    /\ Lock(c)
    /\ UpdateState(env[c], "INSTALLING")
    /\ Goto(c, "installDiscard")
    /\ UNCHANGED <<disk, env, src, want, boot, ids>>

BeginReset(c) ==
    /\ pc[c] = "reset" /\ Free(want[c])
    /\ db[env[c]] \in {"READY", "FAILED", "RESETTING"}
    /\ Lock(c)
    /\ UpdateState(env[c], "RESETTING")
    /\ Goto(c, "resetDiscard")
    /\ UNCHANGED <<disk, env, src, want, boot, ids>>

\* Mutant: the mutex is dropped before the files are.
BeginDeleteDropsLock(c) ==
    /\ pc[c] = "delete" /\ Free(want[c])
    /\ Lock(c)
    /\ UpdateState(env[c], "DELETING")
    /\ gen' = [gen EXCEPT ![env[c]] = @ + 1]
    /\ Goto(c, "wipe")
    /\ UNCHANGED <<disk, env, src, want, boot, versions, used, copied>>

\* deleteEnvironment goes on even without a record.
BeginDelete(c) ==
    /\ pc[c] = "delete" /\ Free(want[c])
    /\ Lock(c)
    /\ UpdateState(env[c], "DELETING")
    /\ Goto(c, "wipe")
    /\ UNCHANGED <<disk, env, src, want, boot, ids>>

\* The new environment is in the database before its mutex is locked.
BeginClone(c, i) ==
    /\ pc[c] = "clone" /\ Free(want[c])
    /\ db[env[c]] # "NONE" /\ i \notin used
    /\ Lock(c)
    /\ used' = used \cup {i}
    /\ db' = [db EXCEPT ![i] = "CREATED"]
    /\ src' = [src EXCEPT ![c] = env[c]]
    /\ env' = [env EXCEPT ![c] = i]
    /\ want' = [want EXCEPT ![c] = <<i, gen[i]>>]
    /\ Goto(c, "cloneLock")
    /\ UNCHANGED <<disk, boot, gen, versions, copied>>

\* There is no source, or createEnvironment throws.
CloneRefused(c) ==
    /\ pc[c] = "clone" /\ Free(want[c])
    /\ Return(c)
    /\ UNCHANGED <<db, disk, boot, ids>>

\* newEnv is the record as it was created, so CLONING is always allowed.
CloneLocked(c) ==
    /\ pc[c] = "cloneLock" /\ Free(want[c])
    /\ Lock(c)
    /\ UpdateState(env[c], "CLONING")
    /\ Goto(c, "copy")
    /\ UNCHANGED <<disk, env, src, want, boot, ids>>

-----------------------------------------------------------------------------
(* discardStaging: staging goes, and the backup too if the rootfs is good. *)

Discards == {"installDiscard", "resetDiscard", "failDiscard"}

Discarded(i) == staging[i] = Absent /\ (backup[i] = Absent \/ ~Valid(rootfs[i]))

\* Mutant: the backup goes whatever state the rootfs is in.
DiscardStagingAndBackup(c) ==
    LET i == env[c] IN
    /\ pc[c] \in Discards
    /\ \/ /\ staging[i] # Absent
          /\ staging' = [staging EXCEPT ![i] = Absent]
          /\ UNCHANGED backup
       \/ /\ staging[i] = Absent /\ backup[i] # Absent
          /\ backup' = [backup EXCEPT ![i] = Absent]
          /\ UNCHANGED staging
    /\ UNCHANGED <<db, rootfs, call, boot, ids>>

DiscardStaging(c) ==
    LET i == env[c] IN
    /\ pc[c] \in Discards
    /\ \/ /\ staging[i] # Absent
          /\ \E t \in Deleting(staging[i]) : staging' = [staging EXCEPT ![i] = t]
          /\ UNCHANGED backup
       \/ /\ staging[i] = Absent /\ backup[i] # Absent /\ Valid(rootfs[i])
          /\ \E t \in Deleting(backup[i]) : backup' = [backup EXCEPT ![i] = t]
          /\ UNCHANGED staging
    /\ UNCHANGED <<db, rootfs, call, boot, ids>>

InstallDiscarded(c) ==
    /\ pc[c] = "installDiscard" /\ Discarded(env[c])
    /\ Goto(c, "deploy")
    /\ UNCHANGED <<db, disk, env, src, want, locks, boot, ids>>

\* Mutant: resetEnvironment does not look at the rootfs.
ResetDiscardedTrusting(c) ==
    /\ pc[c] = "resetDiscard" /\ Discarded(env[c])
    /\ UpdateState(env[c], "READY")
    /\ copied' = copied \ {env[c]}
    /\ Return(c)
    /\ UNCHANGED <<disk, boot, gen, versions, used>>

\* resetEnvironment ends with what verifyRootfs says.
ResetDiscarded(c) ==
    /\ pc[c] = "resetDiscard" /\ Discarded(env[c])
    /\ UpdateState(env[c], IF Valid(rootfs[env[c]]) THEN "READY" ELSE "FAILED")
    /\ copied' = copied \ {env[c]}
    /\ Return(c)
    /\ UNCHANGED <<disk, boot, gen, versions, used>>

\* Mutant: a call that throws does not unlock.
FailDiscardedHolding(c) ==
    /\ pc[c] = "failDiscard" /\ Discarded(env[c])
    /\ UpdateState(env[c], "FAILED")
    /\ Goto(c, "idle")
    /\ UNCHANGED <<disk, env, src, want, locks, boot, ids>>

\* The catch blocks of installEnvironment and cloneEnvironment.
FailDiscarded(c) ==
    /\ pc[c] = "failDiscard" /\ Discarded(env[c])
    /\ UpdateState(env[c], "FAILED")
    /\ Return(c)
    /\ UNCHANGED <<disk, boot, ids>>

-----------------------------------------------------------------------------
(* installerAction: deployRootfs, or importRootfs.                         *)

\* The installer leaves the rootfs alone: deployRootfs keeps one that it finds
\* complete, and one that has a shell it configures in place.
DeployInPlace(c) ==
    /\ pc[c] = "deploy"
    /\ \/ Goto(c, "verify")
       \/ rootfs[env[c]] # Absent /\ Goto(c, "provision")
    /\ UNCHANGED <<db, disk, env, src, want, locks, boot, ids>>

\* Download and extraction: staging fills up ...
Extract(c) ==
    /\ pc[c] = "deploy"
    /\ staging' = [staging EXCEPT ![env[c]] = Broken]
    /\ Goto(c, "extract")
    /\ UNCHANGED <<db, rootfs, backup, env, src, want, locks, boot, ids>>

\* ... is configured, and passes the validation of stage A.
Extracted(c) ==
    /\ pc[c] = "extract" /\ versions < MaxVersions
    /\ versions' = versions + 1
    /\ staging' = [staging EXCEPT ![env[c]] = versions + 2]
    /\ Goto(c, "promote")
    /\ UNCHANGED <<db, rootfs, backup, env, src, want, locks, boot,
                   gen, used, copied>>

\* Any step of the installer throws, or the copy of a clone does.
StepFails(c) ==
    /\ pc[c] \in {"deploy", "extract", "provision", "copy", "copying"}
    /\ Goto(c, "failDiscard")
    /\ UNCHANGED <<db, disk, env, src, want, locks, boot, ids>>

\* Stage B, the markers and the guest's provisioning.
Provisioned(c) ==
    /\ pc[c] = "provision"
    /\ Goto(c, "verify")
    /\ UNCHANGED <<db, disk, env, src, want, locks, boot, ids>>

InstallVerified(c) ==
    /\ pc[c] = "verify" /\ Valid(rootfs[env[c]])
    /\ UpdateState(env[c], "READY")
    /\ copied' = copied \ {env[c]}
    /\ Return(c)
    /\ UNCHANGED <<disk, boot, gen, versions, used>>

InstallNotVerified(c) ==
    /\ pc[c] = "verify" /\ ~Valid(rootfs[env[c]])
    /\ Goto(c, "failDiscard")
    /\ UNCHANGED <<db, disk, env, src, want, locks, boot, ids>>

-----------------------------------------------------------------------------
(* cloneEnvironment's copy of the source.                                  *)

\* A source without a rootfs: the clone is READY all the same.
CopyNothing(c) ==
    /\ pc[c] = "copy" /\ rootfs[src[c]] = Absent
    /\ UpdateState(env[c], "READY")
    /\ copied' = copied \cup {env[c]}
    /\ Return(c)
    /\ UNCHANGED <<disk, boot, gen, versions, used>>

CopyStarts(c) ==
    /\ pc[c] = "copy" /\ rootfs[src[c]] # Absent
    /\ staging' = [staging EXCEPT ![env[c]] = Broken]
    /\ Goto(c, "copying")
    /\ UNCHANGED <<db, rootfs, backup, env, src, want, locks, boot, ids>>

CopyDone(c) ==
    /\ pc[c] = "copying"
    /\ staging' = [staging EXCEPT ![env[c]] = rootfs[src[c]]]
    /\ Goto(c, "promote")
    /\ UNCHANGED <<db, rootfs, backup, env, src, want, locks, boot, ids>>

-----------------------------------------------------------------------------
(* promoteStagedRootfs.  It does not suspend.                              *)

\* 1. The rootfs, if there is one, becomes the backup.  An old backup is
\* deleted before that; installEnvironment has discarded it unless the rootfs
\* was bad, so that there is none whose loss a crash here could show.
PromoteBacksUp(c) ==
    LET i == env[c] IN
    /\ pc[c] = "promote" /\ staging[i] # Absent
    /\ IF rootfs[i] = Absent THEN UNCHANGED <<rootfs, backup>>
       ELSE /\ backup' = [backup EXCEPT ![i] = rootfs[i]]
            /\ rootfs' = [rootfs EXCEPT ![i] = Absent]
    /\ Goto(c, "promote2")
    /\ UNCHANGED <<db, staging, env, src, want, locks, boot, ids>>

\* Nothing is staged, or the first rename fails: false.
PromoteFails(c) ==
    /\ pc[c] = "promote"
    /\ \/ staging[env[c]] = Absent
       \/ Faults /\ rootfs[env[c]] # Absent
    /\ Goto(c, "failDiscard")
    /\ UNCHANGED <<db, disk, env, src, want, locks, boot, ids>>

\* 2. Staging becomes the rootfs.
PromoteStaged(c) ==
    LET i == env[c] IN
    /\ pc[c] = "promote2" /\ staging[i] # Absent /\ rootfs[i] = Absent
    /\ rootfs' = [rootfs EXCEPT ![i] = staging[i]]
    /\ staging' = [staging EXCEPT ![i] = Absent]
    /\ Goto(c, "promote3")
    /\ UNCHANGED <<db, backup, env, src, want, locks, boot, ids>>

\* Or the rename fails and the backup is renamed back, which may fail too.
PromoteRestores(c) ==
    LET i == env[c] IN
    /\ pc[c] = "promote2" /\ (Faults \/ staging[i] = Absent \/ rootfs[i] # Absent)
    /\ \/ /\ backup[i] # Absent /\ rootfs[i] = Absent
          /\ rootfs' = [rootfs EXCEPT ![i] = backup[i]]
          /\ backup' = [backup EXCEPT ![i] = Absent]
       \/ /\ backup[i] = Absent \/ rootfs[i] # Absent \/ Faults
          /\ UNCHANGED <<rootfs, backup>>
    /\ Goto(c, "failDiscard")
    /\ UNCHANGED <<db, staging, env, src, want, locks, boot, ids>>

\* 3. The backup is deleted, and promoteStagedRootfs returns true.
PromoteCleansUp(c) ==
    /\ pc[c] = "promote3" /\ backup[env[c]] # Absent
    /\ \E t \in Deleting(backup[env[c]]) : backup' = [backup EXCEPT ![env[c]] = t]
    /\ UNCHANGED <<db, rootfs, staging, call, boot, ids>>

InstallPromoted(c) ==
    /\ pc[c] = "promote3" /\ backup[env[c]] = Absent /\ src[c] = env[c]
    /\ Goto(c, "provision")
    /\ UNCHANGED <<db, disk, env, src, want, locks, boot, ids>>

ClonePromoted(c) ==
    /\ pc[c] = "promote3" /\ backup[env[c]] = Absent /\ src[c] # env[c]
    /\ UpdateState(env[c], "READY")
    /\ copied' = copied \cup {env[c]}
    /\ Return(c)
    /\ UNCHANGED <<disk, boot, gen, versions, used>>

-----------------------------------------------------------------------------
(* deleteEnvironment: the directory goes, then the record, then the mutex. *)

\* A step of deleteRecursively on the directory of environment i.
Wipe(i) ==
    \/ /\ rootfs[i] # Absent
       /\ \E t \in Deleting(rootfs[i]) : rootfs' = [rootfs EXCEPT ![i] = t]
       /\ UNCHANGED <<staging, backup>>
    \/ /\ staging[i] # Absent
       /\ staging' = [staging EXCEPT ![i] = Absent]
       /\ UNCHANGED <<rootfs, backup>>
    \/ /\ backup[i] # Absent
       /\ \E t \in Deleting(backup[i]) : backup' = [backup EXCEPT ![i] = t]
       /\ UNCHANGED <<rootfs, staging>>

Wiped(i) == {rootfs[i], staging[i], backup[i]} = {Absent}

DeleteWipes(c) ==
    /\ pc[c] = "wipe"
    /\ Wipe(env[c])
    /\ UNCHANGED <<db, call, boot, ids>>

DeleteRecord(c) ==
    /\ pc[c] = "wipe" /\ Wiped(env[c])
    /\ db' = [db EXCEPT ![env[c]] = "NONE"]
    /\ Goto(c, "unlock")
    /\ UNCHANGED <<disk, env, src, want, locks, boot, ids>>

\* locks.remove, and withLock unlocks the mutex that others may wait for:
\* nothing that is modelled lies between the two.
DeleteDone(c) ==
    /\ pc[c] = "unlock"
    /\ gen' = [gen EXCEPT ![env[c]] = @ + 1]
    /\ Return(c)
    /\ UNCHANGED <<db, disk, boot, versions, used, copied>>

-----------------------------------------------------------------------------
(* Cancellation, and the end of the process.                               *)

\* A call suspends while it waits for a mutex and at every call of the dao or
\* of withContext; files are moved and deleted without a suspension point.
Suspended(c) ==
    /\ pc[c] # "idle"
    /\ pc[c] \notin {"promote", "promote2"}
    /\ pc[c] \in Discards => Discarded(env[c])
    /\ pc[c] = "promote3" => backup[env[c]] = Absent
    /\ pc[c] = "wipe" => Wiped(env[c])

\* The coroutine is cancelled: withLock unlocks what is locked.  The catch
\* blocks catch that too, but the discardStaging they call suspends and throws
\* at once, so that the state of the record stays what it is: that of a clone
\* that waits for its mutex is still CREATED.
Cancel(c) ==
    /\ Cancels /\ Suspended(c)
    /\ Return(c)
    /\ UNCHANGED <<db, disk, boot, ids>>

\* The process dies at any point; what is on disk stays.
Crash ==
    /\ crashes < MaxCrashes
    /\ crashes' = crashes + 1
    /\ up' = FALSE
    /\ todo' = {i \in Ids : db[i] # "NONE"}
    /\ pc' = [c \in Callers |-> "idle"]
    /\ locks' = [c \in Callers |-> {}]
    /\ env' = [c \in Callers |-> AnyId]
    /\ src' = env'
    /\ want' = [c \in Callers |-> <<AnyId, 0>>]
    /\ gen' = [i \in Ids |-> 0]
    /\ UNCHANGED <<db, disk, versions, used, copied>>

-----------------------------------------------------------------------------
(* reconcileEnvironments: recoverInterruptedPromotion, then the new state. *)

Reconciling(i) == ~up /\ i \in todo

Done(i) == todo' = todo \ {i} /\ UNCHANGED <<up, crashes>>

\* Mutant: an interrupted reset is not recognised.
ReconcileKeepsResetting(i) ==
    /\ Reconciling(i) /\ db[i] \notin Interrupted \ {"RESETTING"}
    /\ Done(i)
    /\ UNCHANGED <<db, disk, call, ids>>

\* Mutant: only environments that are ready are passed over.
ReconcileKeepsReady(i) ==
    /\ Reconciling(i) /\ db[i] = "READY"
    /\ Done(i)
    /\ UNCHANGED <<db, disk, call, ids>>

ReconcileKeeps(i) ==
    /\ Reconciling(i) /\ db[i] \notin Interrupted
    /\ Done(i)
    /\ UNCHANGED <<db, disk, call, ids>>

Recovering(i) == Reconciling(i) /\ db[i] \in Interrupted \ {"DELETING"}

\* The rootfs is missing or corrupt and there is a backup: what is left of the
\* rootfs is deleted and the backup renamed.
RecoverRestores(i) ==
    /\ Recovering(i) /\ ~Valid(rootfs[i]) /\ backup[i] # Absent
    /\ rootfs' = [rootfs EXCEPT ![i] = backup[i]]
    /\ backup' = [backup EXCEPT ![i] = Absent]
    /\ UNCHANGED <<db, staging, call, boot, ids>>

\* A good rootfs makes the backup superfluous.
RecoverDropsBackup(i) ==
    /\ Recovering(i) /\ Valid(rootfs[i]) /\ backup[i] # Absent
    /\ \E t \in Deleting(backup[i]) : backup' = [backup EXCEPT ![i] = t]
    /\ UNCHANGED <<db, rootfs, staging, call, boot, ids>>

\* The backup is settled, or its rename has failed.
Settled(i) == backup[i] = Absent \/ (Faults /\ ~Valid(rootfs[i]))

RecoverDropsStaging(i) ==
    /\ Recovering(i) /\ Settled(i) /\ staging[i] # Absent
    /\ staging' = [staging EXCEPT ![i] = Absent]
    /\ UNCHANGED <<db, rootfs, backup, call, boot, ids>>

ReconcileUpdates(i) ==
    /\ Recovering(i) /\ Settled(i) /\ staging[i] = Absent
    /\ UpdateState(i, IF Valid(rootfs[i]) THEN "READY" ELSE "FAILED")
    /\ copied' = copied \ {i}
    /\ Done(i)
    /\ UNCHANGED <<disk, call, gen, versions, used>>

ReconcileWipes(i) ==
    /\ Reconciling(i) /\ db[i] = "DELETING"
    /\ Wipe(i)
    /\ UNCHANGED <<db, call, boot, ids>>

ReconcileDeletes(i) ==
    /\ Reconciling(i) /\ db[i] = "DELETING" /\ Wiped(i)
    /\ db' = [db EXCEPT ![i] = "NONE"]
    /\ Done(i)
    /\ UNCHANGED <<disk, call, ids>>

Restarted ==
    /\ ~up /\ todo = {}
    /\ up' = TRUE
    /\ UNCHANGED <<db, disk, call, todo, crashes, ids>>

-----------------------------------------------------------------------------

Init ==
    /\ db = [i \in Ids |-> "NONE"]
    /\ rootfs = [i \in Ids |-> Absent]
    /\ staging = [i \in Ids |-> Absent]
    /\ backup = [i \in Ids |-> Absent]
    /\ pc = [c \in Callers |-> "idle"]
    /\ env = [c \in Callers |-> AnyId] /\ src = env
    /\ want = [c \in Callers |-> <<AnyId, 0>>]
    /\ locks = [c \in Callers |-> {}]
    /\ gen = [i \in Ids |-> 0]
    /\ up = TRUE /\ todo = {}
    /\ versions = 0 /\ crashes = 0
    /\ used = {} /\ copied = {}

Install(c) ==
    \/ CallRefused(c, "install", {"CREATED", "FAILED", "INSTALLING"})
    \/ BeginInstall(c) \/ InstallDiscarded(c)
    \/ DeployInPlace(c) \/ Extract(c) \/ Extracted(c) \/ StepFails(c)
    \/ InstallPromoted(c) \/ Provisioned(c)
    \/ InstallVerified(c) \/ InstallNotVerified(c)

Promote(c) ==
    \/ PromoteBacksUp(c) \/ PromoteFails(c)
    \/ PromoteStaged(c) \/ PromoteRestores(c) \/ PromoteCleansUp(c)

Reset(c) ==
    \/ CallRefused(c, "reset", {"READY", "FAILED", "RESETTING"})
    \/ BeginReset(c) \/ ResetDiscarded(c)

Delete(c) == BeginDelete(c) \/ DeleteWipes(c) \/ DeleteRecord(c) \/ DeleteDone(c)

Clone(c) ==
    \/ CloneRefused(c)
    \/ \E i \in Ids : BeginClone(c, i)
    \/ CloneLocked(c) \/ CopyNothing(c) \/ CopyStarts(c) \/ CopyDone(c)
    \/ ClonePromoted(c)

\* One step of a call that has begun.
CallStep(c) ==
    \/ Install(c) \/ Promote(c) \/ Reset(c) \/ Delete(c) \/ Clone(c)
    \/ DiscardStaging(c) \/ FailDiscarded(c)

Reconcile(i) ==
    \/ ReconcileKeeps(i) \/ RecoverRestores(i)
    \/ RecoverDropsBackup(i) \/ RecoverDropsStaging(i) \/ ReconcileUpdates(i)
    \/ ReconcileWipes(i) \/ ReconcileDeletes(i)

Next ==
    \/ \E i \in Ids : CreateEnvironment(i)
    \/ \E c \in Callers, op \in Waiting, i \in Ids : GetLock(c, op, i)
    \/ \E c \in Callers : CallStep(c)
    \/ \E c \in Callers : Cancel(c)
    \/ Crash
    \/ \E i \in Ids : Reconcile(i)
    \/ Restarted

\* kotlinx's Mutex is fair, coroutines on Dispatchers.IO get their turn, and
\* so does the loop of reconcileEnvironments.
Fairness ==
    /\ \A c \in Callers : SF_vars(CallStep(c))
    /\ \A i \in Ids : WF_vars(Reconcile(i))
    /\ WF_vars(Restarted)

Spec == Init /\ [][Next]_vars
FairSpec == Spec /\ Fairness

-----------------------------------------------------------------------------

\* Types: every record, tree and caller is in one of its states.
TypeOK ==
    /\ db \in [Ids -> States]
    /\ rootfs \in [Ids -> Tree] /\ staging \in [Ids -> Tree] /\ backup \in [Ids -> Tree]
    /\ pc \in [Callers -> Waiting \cup Discards \cup
                 {"idle", "cloneLock", "deploy", "extract", "provision", "verify",
                  "copy", "copying", "promote", "promote2", "promote3", "wipe",
                  "unlock"}]
    /\ env \in [Callers -> Ids] /\ src \in [Callers -> Ids]
    /\ gen \in [Ids -> Nat]
    /\ want \in [Callers -> Ids \X Nat]
    /\ locks \in [Callers -> SUBSET (Ids \X Nat)]
    /\ up \in BOOLEAN
    /\ todo \subseteq Ids /\ used \subseteq Ids
    /\ copied \subseteq Ids
    /\ versions \in 0 .. MaxVersions /\ crashes \in 0 .. MaxCrashes

\* A record in a transient state (INSTALLING, CLONING, RESETTING, DELETING)
\* has a call that works on it: neither a crash nor a failure leaves an
\* environment stuck in one, only a cancellation does.
InterruptedIsOwned ==
    \A i \in Ids : up /\ db[i] \in Interrupted =>
        Cancels \/ \E c \in Callers : Busy(c) /\ env[c] = i

\* READY means that the rootfs is there and complete, whatever renames failed
\* and wherever the process died.  Clones are the exception: cloneEnvironment
\* does not look at what it has copied.
ReadyIsVerified ==
    \A i \in Ids : db[i] = "READY" /\ i \notin copied => Valid(rootfs[i])

\* Only one call at a time works on an environment that has a record, even
\* though deleteEnvironment drops the mutex that others already wait for, so
\* that a stale list hands out a second one.  Once the record is gone two
\* calls do overlap: deletions of what is already deleted, or a clone whose
\* target was deleted before it was locked.
OneOwner ==
    \A c, d \in Callers :
        Busy(c) /\ Busy(d) /\ c # d /\ env[c] = env[d] => db[env[c]] = "NONE"

\* Every call returns: the two mutexes that cloneEnvironment nests never make
\* callers wait for each other in a circle.
CallsReturn == \A c \in Callers : pc[c] # "idle" ~> pc[c] = "idle"

\* reconcileEnvironments comes to an end, wherever the crash was.
RestartCompletes == ~up ~> up

\* The version of an environment that survives: its rootfs, or the backup that
\* promoteStagedRootfs or the next restart puts back.
Surviving(i) ==
    IF db[i] \in {"NONE", "DELETING"} THEN Absent
    ELSE IF Valid(rootfs[i]) THEN rootfs[i]
    ELSE IF Valid(backup[i]) THEN backup[i] ELSE Absent

Store == INSTANCE RootfsStore WITH
    store <- [i \in Ids |-> Surviving(i)],
    gone  <- {i \in used : db[i] \in {"NONE", "DELETING"}}

\* The abstract store is implemented: a promotion replaces a version by the
\* next one in one step, and no crash, failed rename or recovery loses it.
ImplementsStore == Store!Spec
=============================================================================
