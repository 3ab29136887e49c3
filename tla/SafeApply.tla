------------------------------ MODULE SafeApply ------------------------------
(***************************************************************************)
(* The generation lifecycle of nftfw: the transactions that Manager        *)
(* (internal/reconcile) runs over the generations table and the pointer    *)
(* file (internal/state) and over the kernel ruleset (internal/nft).       *)
(*                                                                         *)
(* Every transaction runs under the cross-process mutation lock, so at     *)
(* most one is open: pc is its program counter and "free" means that       *)
(* nobody holds the lock.  A step of a transaction is one durable or       *)
(* kernel effect; a process may die, the host may reboot and a deadline    *)
(* may pass between any two of them.                                       *)
(***************************************************************************)
EXTENDS Integers

CONSTANTS MaxGen,     \* bound: generations are numbered 1 .. MaxGen
          Policies,   \* the distinct scripts the compiler can produce
          NoFile,     \* an immutable file that does not exist
          MaxFaults,  \* bound: failed operations, deaths, reboots and drifts
          PowerLoss   \* whether a reboot can undo a rename nobody fsynced

ASSUME ConstantsAssumption ==
    /\ MaxGen \in Nat \ {0}
    /\ MaxFaults \in Nat
    /\ NoFile \notin Policies
    /\ PowerLoss \in BOOLEAN

Gens == 1 .. MaxGen

\* No generation, no owned tables, no recorded fingerprint.
None == 0
\* The ruleset of nft.EmergencyDenyScript.
Deny == -1
\* Owned tables that are incomplete or that a foreign writer has changed.
Foreign == -2

\* A kernel ruleset is named by the generation whose script installed it; its
\* canonical fingerprint is that same name.
Rulesets == Gens \cup {None, Deny, Foreign}

VARIABLES
    status,     \* generations.status; "absent" is a row that does not exist
    deadline,   \* generations.rollback_deadline: "none", "running" or "passed"
    hash,       \* generations.observed_hash
    script,     \* generations/<id>.nft
    snapshot,   \* generations/<id>.snapshot.json: the policy it holds
    prev,       \*   its Previous pointer (generations.previous_id is a copy)
    thisBoot,   \*   the generations whose BootID is that of the running kernel
    ptr,        \* the enforcement pointer as readers see it
    ptrDisk,    \* the enforcement pointer that survives a power loss
    kernel,     \* the owned tables in the kernel
    pc,         \* next step of the transaction that holds the lock
    cur,        \* the generation it is about
    actor,      \* the process it runs in: "nftfwd", which has a PostRestore
                \*   callback, or "static" (timer and early boot)
    faults      \* failures that may still happen

rows == <<status, deadline, hash>>
files == <<script, snapshot, prev, thisBoot>>
session == <<pc, cur, actor>>
vars == <<rows, files, ptr, ptrDisk, kernel, session, faults>>

InFlightStatus == {"pending", "applied", "commit_prepared"}
Status == InFlightStatus \cup {"absent", "committed", "rolled_back"}

\* The steps at which the restored mutable sets (claims, endpoints, container
\* networks) are rebuilt, and the steps that follow them.
RuntimeSteps == {"restore_rt", "rb_rt", "rc_rt", "rec_rt"}
AfterRuntime(l) == CASE l = "restore_rt" -> "restore_mark"
                     [] l = "rb_rt" -> "rb_mark"
                     [] l = "rec_rt" -> "rec_mark"
                     [] OTHER -> "free"

Labels == {"free", "save_snap", "insert", "install", "reject", "mark_applied",
           "fingerprint", "health", "first_fail", "restore", "restore_fp",
           "restore_rt", "restore_mark", "commit", "deadline", "rename",
           "ptr_sync", "finalize", "rollback", "rb_rt", "rb_mark", "rb_clear",
           "rc_install", "rc_fp", "rc_rt", "recover", "rec_rt", "rec_mark",
           "boot_restore"}

-----------------------------------------------------------------------------
(* Queries of the store. *)

InFlight == {g \in Gens : status[g] \in InFlightStatus}
Committed == {g \in Gens : status[g] = "committed"}

IsPending(g) == g \in InFlight /\ \A h \in InFlight : h <= g

IsLastKnownGood(g) ==
    \/ g = None /\ Committed = {}
    \/ g \in Committed /\ \A h \in Committed : h <= g

IsNextGeneration(g) ==
    /\ g \in Gens
    /\ \A h \in Gens : status[h] # "absent" => h < g
    /\ g - 1 \in {None} \cup {h \in Gens : status[h] # "absent"}

Published(g) == status[g] = "commit_prepared" /\ ptr = g

\* The generation the kernel should hold: a candidate counts once it was
\* applied, and a prepared one only when its pointer is in place.
IsExpected(g) ==
    IF \E h \in Gens : IsPending(h) /\ (status[h] = "applied" \/ Published(h))
    THEN IsPending(g)
    ELSE IsLastKnownGood(g)

Stale(g) == g \notin thisBoot \/ deadline[g] = "passed"

\* Mutant: drift is looked for in the list of tables only.
DriftedMissingOnly(e) == kernel = None

Drifted(e) ==
    \/ kernel \in {None, Foreign}
    \/ e # None /\ hash[e] # kernel

-----------------------------------------------------------------------------
(* Building blocks of a step. *)

\* Mutant: a transaction that ends keeps its generation.
GotoKeeping(l) == pc' = l /\ cur' = cur /\ actor' = actor

\* Move to step l; "free" releases the lock and ends the transaction.
Goto(l) ==
    /\ pc' = l
    /\ cur' = IF l = "free" THEN None ELSE cur
    /\ actor' = IF l = "free" THEN "none" ELSE actor

Begin(g, l, a) == pc = "free" /\ pc' = l /\ cur' = g /\ actor' = a

Fault == faults > 0 /\ faults' = faults - 1

\* A status update and the syncDatabase behind it.  The update may be in the
\* database although the caller sees an error from the synchronisation.
SetStatus(g, s, onOk, onError) ==
    \/ /\ status' = [status EXCEPT ![g] = s]
       /\ Goto(onOk)
       /\ UNCHANGED faults
    \/ /\ status' \in {status, [status EXCEPT ![g] = s]}
       /\ Goto(onError)
       /\ Fault

\* recordFingerprint: SetObservedHash of what the kernel holds.
RecordFingerprint(g, onOk, onError) ==
    \/ /\ hash' = [hash EXCEPT ![g] = kernel]
       /\ Goto(onOk)
       /\ UNCHANGED faults
    \/ /\ hash' \in {hash, [hash EXCEPT ![g] = kernel]}
       /\ Goto(onError)
       /\ Fault

\* Backend.Apply or Backend.DestroyOwned: one atomic nft batch, which may have
\* reached the kernel although the caller sees an error.
Install(k, onOk, onError) ==
    \/ kernel' = k /\ Goto(onOk) /\ UNCHANGED faults
    \/ kernel' \in {kernel, k} /\ Goto(onError) /\ Fault

\* EnsurePublishedGenerationDurable, ahead of an installation: the pointer in
\* place is fsynced again, and nothing is installed if that fails.
EnsureDurable ==
    \/ ptrDisk' = ptr
    \/ ptrDisk' = ptrDisk /\ kernel' = kernel /\ faults' < faults

MarkRolledBack(onOk) == SetStatus(cur, "rolled_back", onOk, "free")

-----------------------------------------------------------------------------
(* Manager.Apply: persist the candidate, install it, mark and fingerprint it, *)
(* and either leave it to be confirmed (safe) or commit it at once.           *)

\* Mutant: requireNoPending is forgotten.
StartApplyUnchecked(g, p) ==
    /\ IsNextGeneration(g)
    /\ Committed = {} => kernel = None
    /\ script[g] \in {NoFile, p}
    /\ script' = [script EXCEPT ![g] = p]
    /\ Begin(g, "save_snap", "nftfwd")
    /\ UNCHANGED <<rows, snapshot, prev, thisBoot, ptr, ptrDisk, kernel, faults>>

\* The checks of Apply, the choice of the generation number and the script
\* file of SaveGeneration.  A script file left by an interrupted attempt is
\* accepted only with the same content.
StartApply(g, p) ==
    /\ InFlight = {}
    /\ IsNextGeneration(g)
    /\ Committed = {} => kernel = None
    /\ script[g] \in {NoFile, p}
    /\ script' = [script EXCEPT ![g] = p]
    /\ Begin(g, "save_snap", "nftfwd")
    /\ UNCHANGED <<rows, snapshot, prev, thisBoot, ptr, ptrDisk, kernel, faults>>

\* WriteGenerationSnapshot.  A snapshot file left by an interrupted attempt is
\* accepted only if it is byte for byte the one to be written.
SaveSnapshot ==
    /\ pc = "save_snap"
    /\ \E p \in Gens \cup {None} :
          /\ IsLastKnownGood(p)
          /\ \/ /\ snapshot[cur] = NoFile
                /\ snapshot' = [snapshot EXCEPT ![cur] = script[cur]]
                /\ prev' = [prev EXCEPT ![cur] = p]
                /\ thisBoot' = thisBoot \cup {cur}
                /\ Goto("insert")
             \/ /\ snapshot[cur] = script[cur] /\ prev[cur] = p /\ cur \in thisBoot
                /\ Goto("insert")
                /\ UNCHANGED <<snapshot, prev, thisBoot>>
             \/ /\ snapshot[cur] # NoFile
                /\ snapshot[cur] # script[cur] \/ prev[cur] # p \/ cur \notin thisBoot
                /\ Goto("free")
                /\ UNCHANGED <<snapshot, prev, thisBoot>>
    /\ UNCHANGED <<rows, script, ptr, ptrDisk, kernel, faults>>

\* The pending row; a safe apply records its deadline in it.
InsertRow ==
    /\ pc = "insert"
    /\ \/ /\ status' = [status EXCEPT ![cur] = "pending"]
          /\ \E d \in {"none", "running"} : deadline' = [deadline EXCEPT ![cur] = d]
          /\ hash' = [hash EXCEPT ![cur] = None]
          /\ \/ Goto("install") /\ UNCHANGED faults
             \/ Goto("free") /\ Fault
       \/ UNCHANGED rows /\ Goto("free") /\ Fault
    /\ UNCHANGED <<files, ptr, ptrDisk, kernel>>

\* installOwnedGeneration of the candidate.  An error before nft --file ran is
\* a rejection; one after it leaves the kernel uncertain.
InstallCandidate ==
    /\ pc = "install"
    /\ \/ Install(cur, "mark_applied", IF prev[cur] = None THEN "first_fail" ELSE "restore")
       \/ UNCHANGED kernel /\ Goto("reject") /\ Fault
    /\ UNCHANGED <<rows, files, ptr, ptrDisk>>

Reject ==
    /\ pc = "reject"
    /\ MarkRolledBack("free")
    /\ UNCHANGED <<deadline, hash, files, ptr, ptrDisk, kernel>>

MarkApplied ==
    /\ pc = "mark_applied"
    /\ SetStatus(cur, "applied", "fingerprint", "restore")
    /\ UNCHANGED <<deadline, hash, files, ptr, ptrDisk, kernel>>

Fingerprint ==
    /\ pc = "fingerprint"
    /\ RecordFingerprint(cur, "health", "restore")
    /\ UNCHANGED <<status, deadline, files, ptr, ptrDisk, kernel>>

\* HealthCheck, and for a safe apply the claim publication that follows it in
\* Runtime.Control: the candidate is rolled back if either fails.
Health ==
    /\ pc = "health"
    /\ \/ Goto(IF deadline[cur] = "none" THEN "commit" ELSE "free") /\ UNCHANGED faults
       \/ Goto("rollback") /\ Fault
    /\ UNCHANGED <<rows, files, ptr, ptrDisk, kernel>>

\* recoverFirstApplyExecutionFailure: tables left behind are never deleted.
FirstApplyFailed ==
    /\ pc = "first_fail"
    /\ \/ kernel # None /\ Goto("free") /\ UNCHANGED <<status, faults>>
       \/ kernel = None /\ MarkRolledBack("free")
    /\ UNCHANGED <<deadline, hash, files, ptr, ptrDisk, kernel>>

\* Mutant: the rollback is recorded although the restoration failed.
RestoreUnconfirmed ==
    /\ pc = "restore"
    /\ Install(prev[cur], "restore_mark", "restore_mark")
    /\ UNCHANGED <<rows, files, ptr, ptrDisk>>

\* recoverPostApplyFailure: restore the predecessor, and only then record the
\* rollback.
Restore ==
    /\ pc = "restore"
    /\ Install(prev[cur], IF prev[cur] = None THEN "restore_mark" ELSE "restore_fp", "free")
    /\ UNCHANGED <<rows, files, ptr, ptrDisk>>

RestoreFingerprint ==
    /\ pc = "restore_fp"
    /\ RecordFingerprint(prev[cur], "restore_rt", "free")
    /\ UNCHANGED <<status, deadline, files, ptr, ptrDisk, kernel>>

RestoreMark ==
    /\ pc = "restore_mark"
    /\ MarkRolledBack("free")
    /\ UNCHANGED <<deadline, hash, files, ptr, ptrDisk, kernel>>

\* restoreRuntimeOrDeny, wherever a generation was restored.
RestoreRuntime ==
    /\ pc \in RuntimeSteps
    /\ \/ Goto(AfterRuntime(pc)) /\ UNCHANGED <<kernel, faults>>
       \/ actor = "nftfwd" /\ kernel' \in {kernel, Deny} /\ Goto("free") /\ Fault
    /\ UNCHANGED <<rows, files, ptr, ptrDisk>>

-----------------------------------------------------------------------------
(* Manager.Commit and commitLocked. *)

\* The operator confirms generation g.  Expired or altered candidates are
\* rolled back instead.
StartCommit(g) ==
    /\ IsPending(g)
    /\ status[g] = "applied"
    /\ Begin(g, IF deadline[g] = "passed" \/ hash[g] = None \/ hash[g] # kernel
                THEN "rollback" ELSE "commit", "nftfwd")
    /\ UNCHANGED <<rows, files, ptr, ptrDisk, kernel, faults>>

\* Mutant: the pointer is published from an applied row.
PublishUnprepared ==
    /\ pc = "commit"
    /\ ptr = prev[cur] /\ Goto("deadline")
    /\ UNCHANGED <<rows, files, ptr, ptrDisk, kernel, faults>>

\* PrepareCommit, if the pointer still names the candidate's predecessor.
PrepareCommit ==
    /\ pc = "commit"
    /\ \/ ptr = prev[cur] /\ SetStatus(cur, "commit_prepared", "deadline", "free")
       \/ ptr # prev[cur] /\ Goto("free") /\ UNCHANGED <<status, faults>>
    /\ UNCHANGED <<deadline, hash, files, ptr, ptrDisk, kernel>>

\* PrepareEnforcementPointer and the final read of the deadline.
CheckDeadline ==
    /\ pc = "deadline"
    /\ \/ Goto(IF deadline[cur] = "passed" THEN "rollback" ELSE "rename") /\ UNCHANGED faults
       \/ Goto("free") /\ Fault
    /\ UNCHANGED <<rows, files, ptr, ptrDisk, kernel>>

\* PublishPreparedPointer: the rename, and then its synchronisation.
PublishPointer ==
    /\ pc = "rename"
    /\ \/ ptr' = cur /\ Goto("ptr_sync") /\ UNCHANGED faults
       \/ UNCHANGED ptr /\ Goto("free") /\ Fault
    /\ UNCHANGED <<rows, files, ptrDisk, kernel>>

\* Mutant: a failed synchronisation is taken for a failed publication.
SyncPointerUndone ==
    /\ pc = "ptr_sync"
    /\ \/ ptrDisk' = ptr /\ Goto("finalize") /\ UNCHANGED faults
       \/ UNCHANGED ptrDisk /\ Goto("rb_mark") /\ Fault
    /\ UNCHANGED <<rows, files, ptr, kernel>>

SyncPointer ==
    /\ pc = "ptr_sync"
    /\ \/ ptrDisk' = ptr /\ Goto("finalize") /\ UNCHANGED faults
       \/ ptrDisk' \in {ptrDisk, ptr} /\ Goto("free") /\ Fault
    /\ UNCHANGED <<rows, files, ptr, kernel>>

\* Mutant: every other row is retired, whatever its status.
FinalizedRowsAll ==
    [g \in Gens |-> IF g = cur THEN "committed"
                    ELSE IF status[g] # "absent" THEN "rolled_back"
                    ELSE "absent"]

\* FinalizeCommit: one transaction that also retires every other candidate.
FinalizedRows ==
    [g \in Gens |-> IF g = cur THEN "committed"
                    ELSE IF status[g] \in {"pending", "applied"} THEN "rolled_back"
                    ELSE status[g]]

FinalizeCommit ==
    /\ pc = "finalize"
    /\ \/ /\ status' = FinalizedRows
          /\ deadline' = [deadline EXCEPT ![cur] = "none"]
          /\ \/ UNCHANGED faults
             \/ Fault
       \/ UNCHANGED <<status, deadline>> /\ Fault
    /\ Goto("free")
    /\ UNCHANGED <<hash, files, ptr, ptrDisk, kernel>>

-----------------------------------------------------------------------------
(* Manager.Rollback and rollbackLocked. *)

\* The operator, or the recovery of a managed file change, rolls back g.
StartRollback(g) ==
    /\ status[g] # "absent"
    /\ Begin(g, "rollback", "nftfwd")
    /\ UNCHANGED <<rows, files, ptr, ptrDisk, kernel, faults>>

\* Tables seen next to a first generation that was never marked applied may
\* not be ours.
UnverifiedFirst(g) == prev[g] = None /\ status[g] = "pending" /\ kernel # None

RollbackRefused(g) ==
    \/ g \notin InFlight
    \/ ~Published(g) /\ ptr # prev[g]
    \/ UnverifiedFirst(g)
    \/ prev[g] # None /\ ~Published(g) /\ status[prev[g]] # "committed"

\* A candidate whose pointer is in place can only be finalised.  Otherwise the
\* kernel goes back to the predecessor, whose pointer is synchronised again, or
\* to no tables at all.
RollbackLocked ==
    /\ pc = "rollback"
    /\ \/ /\ RollbackRefused(cur)
          /\ Goto("free")
          /\ UNCHANGED <<kernel, ptrDisk, faults>>
       \/ /\ ~RollbackRefused(cur) /\ Published(cur)
          /\ Goto("finalize")
          /\ UNCHANGED <<kernel, ptrDisk, faults>>
       \/ /\ ~RollbackRefused(cur) /\ ~Published(cur) /\ prev[cur] # None
          /\ Install(prev[cur], "rb_rt", "free")
          /\ EnsureDurable
       \/ /\ ~RollbackRefused(cur) /\ ~Published(cur) /\ prev[cur] = None
          /\ Install(None, "rb_mark", "free")
          /\ UNCHANGED ptrDisk
    /\ UNCHANGED <<rows, files, ptr>>

\* Mutant: the pointer is cleared after the rollback of any generation.
RollbackMarkClearing ==
    /\ pc = "rb_mark"
    /\ MarkRolledBack("rb_clear")
    /\ UNCHANGED <<deadline, hash, files, ptr, ptrDisk, kernel>>

RollbackMark ==
    /\ pc = "rb_mark"
    /\ MarkRolledBack(IF prev[cur] = None THEN "rb_clear" ELSE "free")
    /\ UNCHANGED <<deadline, hash, files, ptr, ptrDisk, kernel>>

\* ClearActive, after the rollback of a first generation.
ClearActive ==
    /\ pc = "rb_clear"
    /\ \/ ptr' = None /\ ptrDisk' = None /\ UNCHANGED faults
       \/ ptr' \in {ptr, None} /\ UNCHANGED ptrDisk /\ Fault
    /\ Goto("free")
    /\ UNCHANGED <<rows, files, kernel>>

-----------------------------------------------------------------------------
(* Manager.Reconcile(repair), at daemon start and every 30 seconds. *)

\* A candidate that was never marked applied, or that lost its integrity, is
\* rolled back; other drift is repaired from the expected generation.
StartReconcile(g) ==
    /\ \/ /\ IsPending(g)
          /\ status[g] = "pending" \/ (status[g] = "applied" /\ Drifted(g))
          /\ Begin(g, "rollback", "nftfwd")
       \/ /\ \A h \in Gens : IsPending(h) => status[h] = "commit_prepared"
          /\ IsExpected(g) /\ Drifted(g)
          /\ Begin(g, "rc_install", "nftfwd")
    /\ UNCHANGED <<rows, files, ptr, ptrDisk, kernel, faults>>

RepairInstall ==
    /\ pc = "rc_install"
    /\ Install(cur, "rc_fp", "free")
    /\ UNCHANGED <<rows, files, ptr, ptrDisk>>

RepairFingerprint ==
    /\ pc = "rc_fp"
    /\ RecordFingerprint(cur, "rc_rt", "free")
    /\ UNCHANGED <<status, deadline, files, ptr, ptrDisk, kernel>>

-----------------------------------------------------------------------------
(* Recovery: Manager.RollbackExpired in the daemon (every 5 seconds) and in   *)
(* the independent timer (every 15), Manager.RecoverAtBoot in early boot.     *)

\* establishAndVerify: nothing to do if the kernel has the fingerprint.
Establish(g, next) ==
    \/ kernel = hash[g] /\ UNCHANGED <<kernel, faults>> /\ Goto(next)
    \/ /\ kernel # hash[g]
       /\ Install(g, IF hash[g] = g THEN next ELSE "free", "free")

\* Mutant: the deadline is not looked at, only the boot id.
StartRecoveryAfterBoot(g, a) ==
    /\ IsPending(g)
    /\ status[g] = "commit_prepared" \/ g \notin thisBoot
    /\ Begin(g, "recover", a)
    /\ UNCHANGED <<rows, files, ptr, ptrDisk, kernel, faults>>

\* A pending generation is picked up once it is prepared or stale.
StartRecovery(g, a) ==
    /\ IsPending(g)
    /\ status[g] = "commit_prepared" \/ Stale(g)
    /\ Begin(g, "recover", a)
    /\ UNCHANGED <<rows, files, ptr, ptrDisk, kernel, faults>>

\* What rollbackFirstGenerationAtBoot may touch: nothing, or exactly what the
\* candidate installed.
FirstRemovable(g) == kernel = None \/ (hash[g] # None /\ hash[g] = kernel)

RecoveryRefused(g) ==
    \/ ~Published(g) /\ ptr # prev[g]
    \/ Published(g) /\ hash[g] = None
    \/ ~Published(g) /\ prev[g] = None /\ ~FirstRemovable(g)
    \/ ~Published(g) /\ prev[g] # None
       /\ (status[prev[g]] # "committed" \/ hash[prev[g]] = None)

\* recoverPendingAtBoot: finish the commit whose rename won, or restore the
\* exact predecessor.
RecoverPending ==
    /\ pc = "recover"
    /\ \/ /\ RecoveryRefused(cur)
          /\ Goto("free")
          /\ UNCHANGED <<kernel, ptrDisk, faults>>
       \/ /\ ~RecoveryRefused(cur) /\ Published(cur)
          /\ Establish(cur, "finalize")
          /\ EnsureDurable
       \/ /\ ~RecoveryRefused(cur) /\ ~Published(cur) /\ prev[cur] # None
          /\ Establish(prev[cur], "rec_rt")
          /\ EnsureDurable
       \/ /\ ~RecoveryRefused(cur) /\ ~Published(cur) /\ prev[cur] = None
          /\ UNCHANGED ptrDisk
          /\ Install(None, "rec_mark", "free")
    /\ UNCHANGED <<rows, files, ptr>>

\* FinalizeRecoveryRollback.
RecoveryMark ==
    /\ pc = "rec_mark"
    /\ SetStatus(cur, "rolled_back", "free", "free")
    /\ UNCHANGED <<deadline, hash, files, ptr, ptrDisk, kernel>>

\* RecoverAtBoot without a candidate.
StartBootRestore ==
    /\ InFlight = {}
    /\ ptr # None /\ status[ptr] = "committed" /\ IsLastKnownGood(ptr)
    /\ hash[ptr] # None
    /\ Begin(ptr, "boot_restore", "static")
    /\ UNCHANGED <<rows, files, ptr, ptrDisk, kernel, faults>>

BootRestore ==
    /\ pc = "boot_restore"
    /\ Establish(cur, "free")
    /\ EnsureDurable
    /\ UNCHANGED <<rows, files, ptr>>

\* restoreVerifiedPointerWithoutDatabase: the database cannot be opened, so the
\* timer or early boot installs what the pointer names and records nothing.
RestoreWithoutDatabase ==
    /\ pc = "free" /\ Fault
    /\ ptr # None
    /\ kernel' = ptr
    /\ UNCHANGED <<rows, files, ptr, ptrDisk, session>>

\* VerifyEnforcement, the readiness check: it changes nothing.
VerifyEnforcement ==
    /\ InFlight = {}
    /\ ptr # None /\ IsLastKnownGood(ptr)
    /\ kernel = hash[ptr] /\ kernel # None

-----------------------------------------------------------------------------
(* The environment. *)

Expire(g) ==
    /\ g \in InFlight /\ deadline[g] = "running"
    /\ deadline' = [deadline EXCEPT ![g] = "passed"]
    /\ UNCHANGED <<status, hash, files, ptr, ptrDisk, kernel, session, faults>>

\* The process that holds the lock dies; the kernel releases its flock.
Die ==
    /\ pc # "free" /\ Fault
    /\ Goto("free")
    /\ UNCHANGED <<rows, files, ptr, ptrDisk, kernel>>

\* A reboot empties nftables and changes the boot id.  A power loss may bring
\* back the pointer whose replacement was never synchronised.
Reboot ==
    /\ Fault
    /\ kernel' = None
    /\ thisBoot' = {}
    /\ ptr' \in {ptr, IF PowerLoss THEN ptrDisk ELSE ptr}
    /\ ptrDisk' = ptr'
    /\ Goto("free")
    /\ UNCHANGED <<rows, script, snapshot, prev>>

\* Another privileged writer changes or removes the owned tables.  It does not
\* take the lock, but the code trusts it not to interfere with a transaction.
Drift ==
    /\ pc = "free" /\ Fault
    /\ kernel' \in {None, Foreign} \ {kernel}
    /\ UNCHANGED <<rows, files, ptr, ptrDisk, session>>

-----------------------------------------------------------------------------
Init ==
    /\ status = [g \in Gens |-> "absent"]
    /\ deadline = [g \in Gens |-> "none"]
    /\ hash = [g \in Gens |-> None]
    /\ script = [g \in Gens |-> NoFile]
    /\ snapshot = [g \in Gens |-> NoFile]
    /\ prev = [g \in Gens |-> None]
    /\ thisBoot = {}
    /\ ptr = None /\ ptrDisk = None
    /\ kernel = None
    /\ pc = "free" /\ cur = None /\ actor = "none"
    /\ faults = MaxFaults

ApplySteps ==
    \/ SaveSnapshot \/ InsertRow \/ InstallCandidate \/ Reject \/ MarkApplied
    \/ Fingerprint \/ Health \/ FirstApplyFailed
    \/ Restore \/ RestoreFingerprint \/ RestoreMark \/ RestoreRuntime

CommitSteps ==
    PrepareCommit \/ CheckDeadline \/ PublishPointer \/ SyncPointer \/ FinalizeCommit

RollbackSteps == RollbackLocked \/ RollbackMark \/ ClearActive

RepairSteps == RepairInstall \/ RepairFingerprint

RecoverySteps == RecoverPending \/ RecoveryMark \/ BootRestore

\* The transaction that holds the lock goes on.
Step == ApplySteps \/ CommitSteps \/ RollbackSteps \/ RepairSteps \/ RecoverySteps

Operator ==
    \E g \in Gens :
        \/ \E p \in Policies : StartApply(g, p)
        \/ StartCommit(g)
        \/ StartRollback(g)

ReconcileTick == \E g \in Gens : StartReconcile(g)
ExpiryTick == \E g \in Gens, a \in {"nftfwd", "static"} : StartRecovery(g, a)

Environment ==
    \/ \E g \in Gens : Expire(g)
    \/ RestoreWithoutDatabase \/ Die \/ Reboot \/ Drift

Next ==
    Step \/ Operator \/ ReconcileTick \/ ExpiryTick \/ StartBootRestore \/ Environment

Spec == Init /\ [][Next]_vars

\* A transaction that holds the lock runs on (every nft call and every lock
\* wait has a timeout), time passes, and the daemon's loop and the systemd
\* timer keep starting their checks.  Those two compete for the lock with the
\* operator's requests: they poll it every 10 ms at every tick, so they get it
\* if it is free again and again.
Fairness ==
    /\ WF_vars(Step)
    /\ WF_vars(\E g \in Gens : Expire(g))
    /\ SF_vars(ExpiryTick)
    /\ SF_vars(ReconcileTick)

LiveSpec == Spec /\ Fairness

-----------------------------------------------------------------------------
(* Properties. *)

\* Every column, file and kernel value is one the code can store, and a
\* transaction knows the generation it works on.
TypeOK ==
    /\ status \in [Gens -> Status]
    /\ deadline \in [Gens -> {"none", "running", "passed"}]
    /\ hash \in [Gens -> Rulesets]
    /\ script \in [Gens -> Policies \cup {NoFile}]
    /\ snapshot \in [Gens -> Policies \cup {NoFile}]
    /\ prev \in [Gens -> Gens \cup {None}]
    /\ thisBoot \in SUBSET Gens
    /\ ptr \in Gens \cup {None}
    /\ ptrDisk \in Gens \cup {None}
    /\ kernel \in Rulesets
    /\ pc \in Labels
    /\ cur \in Gens \cup {None}
    /\ actor \in {"none", "nftfwd", "static"}
    /\ faults \in Nat
    /\ pc = "free" <=> cur = None

\* Whatever dies, fails or reboots in between, there is at most one candidate:
\* requireNoPending under the lock, and a row that outlives its transaction,
\* keep a second Apply out until the first is decided.
AtMostOneInFlight == \A g, h \in InFlight : g = h

\* The pointer never names a candidate that was given up or never prepared:
\* Open and RecoverAtBoot refuse such a state.
PointerIsCommitted == ptr # None => status[ptr] \in {"commit_prepared", "committed"}

\* A candidate in the kernel is always accounted for: the ruleset of a
\* generation is live only while the pointer names it or its row is in flight,
\* so that some recovery path will still look at it.
CandidateTracked ==
    kernel \in Gens => kernel = ptr \/ kernel \in InFlight

\* Recovery never meets the states it must refuse as ambiguous: a candidate's
\* predecessor is the last committed generation, the pointer names it or, once
\* the commit is prepared, the candidate itself, and it can be re-established.
RecoveryUnambiguous ==
    \A g \in InFlight :
        /\ IsLastKnownGood(prev[g])
        /\ ptr = prev[g] \/ Published(g)
        /\ prev[g] # None => hash[prev[g]] = prev[g]

\* With no candidate in flight the pointer names the last committed generation:
\* what early boot restores is what the operator confirmed last.
PointerIsLatestCommitted == InFlight = {} => IsLastKnownGood(ptr)

\* A decision is final: a committed generation is never rolled back, although
\* the SQL of MarkRolledBack would allow it, and a rolled-back one never comes
\* back.
DecisionsAreFinal ==
    [][\A g \in Gens : status[g] \in {"committed", "rolled_back"} => status'[g] = status[g]]_vars

\* The pointer only ever advances to a newer generation: no rollback, timer or
\* boot recovery moves it back once the rename has happened.
PointerOnlyAdvances == [][ptr' # ptr => ptr' > ptr]_vars

\* The register that the lifecycle implements: the generation in force is the
\* one the pointer names, and the rename is the moment of acceptance.
Undecided == {g \in InFlight : ~Published(g)}
Candidate == IF Undecided = {} THEN None ELSE CHOOSE g \in Undecided : TRUE
Register == INSTANCE EnforcementRegister
                WITH current <- ptr, candidate <- Candidate,
                     used <- {g \in Gens : status[g] # "absent"}

\* Through every interleaving of commit, expiry, timer, boot recovery, death
\* and reboot, each generation is accepted or rejected once, atomically, and
\* the pointer changes only by acceptance.
ImplementsRegister == Register!Spec

\* A candidate that expired, that a reboot orphaned or whose commit was cut
\* short is decided in the end, without an operator.  (A first generation has
\* no predecessor to restore and may need one.)
StalePendingResolved ==
    \A g \in Gens :
        (g \in InFlight /\ prev[g] # None /\ (Stale(g) \/ status[g] = "commit_prepared"))
            ~> (g \notin InFlight)

\* Once a generation has been published the host does not stay without it:
\* unless a candidate is being tried, enforcement becomes verifiable again
\* after every reboot, drift or emergency deny.
EnforcementRestored == (ptr # None) ~> (VerifyEnforcement \/ InFlight # {})
=============================================================================
