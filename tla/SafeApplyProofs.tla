--------------------------- MODULE SafeApplyProofs ---------------------------
(***************************************************************************)
(* Proofs about SafeApply, for any number of generations, policies and     *)
(* failures, whether or not a power loss can take a rename back.           *)
(***************************************************************************)
EXTENDS SafeApply, TLAPS

\* What each step of a transaction knows of the row it works on.
StatusAtPc ==
    /\ pc \in {"save_snap", "insert"} => InFlight = {} /\ IsNextGeneration(cur)
    /\ pc \in {"install", "reject", "mark_applied", "first_fail"} => status[cur] = "pending"
    /\ pc \in {"fingerprint", "health", "commit"} => status[cur] = "applied"
    /\ pc \in {"restore", "restore_fp", "restore_rt", "restore_mark"}
          => status[cur] \in {"pending", "applied"}
    /\ pc \in {"deadline", "rename", "ptr_sync", "finalize"} => status[cur] = "commit_prepared"
    /\ pc \in {"rb_rt", "rb_mark", "recover", "rec_rt", "rec_mark"} => cur \in InFlight
    /\ pc = "rb_clear" => status[cur] = "rolled_back" /\ InFlight = {}

StatusInv == TypeOK /\ AtMostOneInFlight /\ StatusAtPc

-----------------------------------------------------------------------------
(* Typing. *)

\* Every step of the lifecycle keeps every variable in its type.
LEMMA TypeStep ==
    ASSUME TypeOK, [Next]_vars
    PROVE  TypeOK'
<1> USE ConstantsAssumption DEF TypeOK, Gens, None, Deny, Foreign, Rulesets, Status,
        InFlightStatus, Labels, rows, files, session, Goto, Begin, Fault,
        SetStatus, RecordFingerprint, Install
<1>1. CASE ApplySteps
  <2>1. CASE SaveSnapshot
    <3>1. cur \in Gens /\ pc' \in {"insert", "free"}
      BY <2>1 DEF SaveSnapshot
    <3>2. snapshot' \in [Gens -> Policies \cup {NoFile}]
      <4>1. script[cur] \in Policies \cup {NoFile}
        BY <3>1
      <4> QED BY <2>1, <3>1, <4>1 DEF SaveSnapshot
    <3>4. prev' \in [Gens -> Gens \cup {None}]
      BY <2>1, <3>1 DEF SaveSnapshot
    <3>5. thisBoot' \in SUBSET Gens
      BY <2>1, <3>1 DEF SaveSnapshot
    <3>3. pc' = "free" <=> cur' = None
      BY <2>1, <3>1 DEF SaveSnapshot
    <3> QED BY <2>1, <3>1, <3>2, <3>3, <3>4, <3>5 DEF SaveSnapshot
  <2>2. CASE InsertRow
    <3>1. cur \in Gens /\ pc' \in {"install", "free"}
      BY <2>2 DEF InsertRow
    <3>2. /\ status' \in [Gens -> Status]
          /\ deadline' \in [Gens -> {"none", "running", "passed"}]
          /\ hash' \in [Gens -> Rulesets]
      BY <2>2, <3>1 DEF InsertRow
    <3>3. pc' = "free" <=> cur' = None
      BY <2>2, <3>1 DEF InsertRow
    <3> QED BY <2>2, <3>1, <3>2, <3>3 DEF InsertRow
  <2>3. CASE InstallCandidate
    BY <2>3 DEF InstallCandidate
  <2>4. CASE Reject
    BY <2>4 DEF Reject, MarkRolledBack
  <2>5. CASE MarkApplied
    BY <2>5 DEF MarkApplied
  <2>6. CASE Fingerprint
    BY <2>6 DEF Fingerprint
  <2>7. CASE Health
    BY <2>7 DEF Health
  <2>8. CASE FirstApplyFailed
    BY <2>8 DEF FirstApplyFailed, MarkRolledBack
  <2>9. CASE Restore
    BY <2>9 DEF Restore
  <2>10. CASE RestoreFingerprint
    <3>1. hash' \in [Gens -> Rulesets]
      BY <2>10 DEF RestoreFingerprint
    <3> QED BY <2>10, <3>1 DEF RestoreFingerprint
  <2>11. CASE RestoreMark
    BY <2>11 DEF RestoreMark, MarkRolledBack
  <2>12. CASE RestoreRuntime
    BY <2>12 DEF RestoreRuntime, RuntimeSteps, AfterRuntime
  <2> QED BY <1>1, <2>1, <2>2, <2>3, <2>4, <2>5, <2>6, <2>7, <2>8, <2>9, <2>10, <2>11, <2>12 DEF ApplySteps
<1>2. CASE CommitSteps
  <2>1. CASE PrepareCommit
    BY <2>1 DEF PrepareCommit
  <2>2. CASE CheckDeadline
    BY <2>2 DEF CheckDeadline
  <2>3. CASE PublishPointer
    BY <2>3 DEF PublishPointer
  <2>4. CASE SyncPointer
    BY <2>4 DEF SyncPointer
  <2>5. CASE FinalizeCommit
    BY <2>5 DEF FinalizeCommit, FinalizedRows
  <2> QED BY <1>2, <2>1, <2>2, <2>3, <2>4, <2>5 DEF CommitSteps
<1>3. CASE RollbackSteps
  <2>1. CASE RollbackLocked
    BY <2>1 DEF RollbackLocked, EnsureDurable
  <2>2. CASE RollbackMark
    BY <2>2 DEF RollbackMark, MarkRolledBack
  <2>3. CASE ClearActive
    BY <2>3 DEF ClearActive
  <2> QED BY <1>3, <2>1, <2>2, <2>3 DEF RollbackSteps
<1>4. CASE RepairSteps
  <2>1. CASE RepairInstall
    BY <2>1 DEF RepairInstall
  <2>2. CASE RepairFingerprint
    BY <2>2 DEF RepairFingerprint
  <2> QED BY <1>4, <2>1, <2>2 DEF RepairSteps
<1>5. CASE RecoverySteps
  <2>1. CASE RecoverPending
    BY <2>1 DEF RecoverPending, EnsureDurable, Establish
  <2>2. CASE RecoveryMark
    BY <2>2 DEF RecoveryMark
  <2>3. CASE BootRestore
    BY <2>3 DEF BootRestore, EnsureDurable, Establish
  <2> QED BY <1>5, <2>1, <2>2, <2>3 DEF RecoverySteps
<1>6. CASE Operator
  <2>1. PICK g \in Gens : (\E p \in Policies : StartApply(g, p)) \/ StartCommit(g) \/ StartRollback(g)
    BY <1>6 DEF Operator
  <2>2. ASSUME NEW p \in Policies, StartApply(g, p) PROVE TypeOK'
    <3>1. script' \in [Gens -> Policies \cup {NoFile}]
      BY <2>2 DEF StartApply
    <3> QED BY <2>2, <3>1 DEF StartApply
  <2>3. CASE StartCommit(g)
    BY <2>3 DEF StartCommit
  <2>4. CASE StartRollback(g)
    BY <2>4 DEF StartRollback
  <2> QED BY <2>1, <2>2, <2>3, <2>4
<1>7. CASE ReconcileTick
  BY <1>7 DEF ReconcileTick, StartReconcile
<1>8. CASE ExpiryTick
  BY <1>8 DEF ExpiryTick, StartRecovery
<1>9. CASE StartBootRestore
  BY <1>9 DEF StartBootRestore
<1>10. CASE Environment
  <2>1. ASSUME NEW g \in Gens, Expire(g) PROVE TypeOK'
    BY <2>1 DEF Expire
  <2>2. CASE RestoreWithoutDatabase
    BY <2>2 DEF RestoreWithoutDatabase
  <2>3. CASE Die
    BY <2>3 DEF Die
  <2>4. CASE Reboot
    BY <2>4 DEF Reboot
  <2>5. CASE Drift
    BY <2>5 DEF Drift
  <2> QED BY <1>10, <2>1, <2>2, <2>3, <2>4, <2>5 DEF Environment
<1>11. CASE UNCHANGED vars
  BY <1>11 DEF vars
<1> QED BY <1>1, <1>2, <1>3, <1>4, <1>5, <1>6, <1>7, <1>8, <1>9, <1>10, <1>11 DEF Next, Step

\* Type correctness of the lifecycle: no path of apply, commit, rollback,
\* reconciliation or recovery stores anything else than its columns can hold.
THEOREM TypeCorrect == Spec => []TypeOK
<1>1. Init => TypeOK
  BY ConstantsAssumption DEF Init, TypeOK, Gens, None, Rulesets, Status, Labels
<1>2. TypeOK /\ [Next]_vars => TypeOK'
  BY TypeStep
<1> QED BY <1>1, <1>2, PTL DEF Spec

-----------------------------------------------------------------------------
(* The rows: at most one candidate, and what each step knows of it. *)

\* The candidates are a function of the status column.
LEMMA RowsKept ==
    ASSUME StatusInv, UNCHANGED status
    PROVE  AtMostOneInFlight' /\ InFlight' = InFlight
BY DEF StatusInv, AtMostOneInFlight, InFlight

\* Deciding the candidate leaves none; moving it on keeps it the only one.
LEMMA RowChanged ==
    ASSUME StatusInv, cur \in InFlight, NEW s \in Status \ {"absent"},
           status' = [status EXCEPT ![cur] = s]
    PROVE  /\ AtMostOneInFlight'
           /\ status'[cur] = s
           /\ InFlight' = IF s \in InFlightStatus THEN InFlight ELSE {}
<1>1. cur \in Gens /\ status \in [Gens -> Status]
  BY DEF StatusInv, TypeOK, InFlight
<1>2. InFlight = {cur}
  BY DEF StatusInv, AtMostOneInFlight
<1>3. InFlight' = {g \in Gens : status'[g] \in InFlightStatus}
  BY DEF InFlight
<1>4. \A g \in Gens : g # cur => status'[g] = status[g] /\ g \notin InFlight
  BY <1>1, <1>2
<1>5. status'[cur] = s
  BY <1>1
<1>6. \A g \in Gens : g # cur => g \notin InFlight'
  BY <1>3, <1>4 DEF InFlight
<1>7. CASE s \in InFlightStatus
  <2>1. InFlight' = {cur}
    BY <1>1, <1>3, <1>5, <1>6, <1>7
  <2> QED BY <1>2, <1>5, <1>7, <2>1 DEF AtMostOneInFlight
<1>8. CASE s \notin InFlightStatus
  <2>1. InFlight' = {}
    BY <1>1, <1>3, <1>5, <1>6, <1>8
  <2> QED BY <1>5, <1>8, <2>1 DEF AtMostOneInFlight
<1> QED BY <1>7, <1>8

\* SetStatus on the candidate, whether it succeeds or fails.
LEMMA SetStatusStep ==
    ASSUME StatusInv, cur \in InFlight, NEW s \in Status \ {"absent"},
           NEW onOk \in Labels, NEW onError \in Labels,
           SetStatus(cur, s, onOk, onError)
    PROVE  /\ AtMostOneInFlight'
           /\ \/ pc' = onOk /\ status'[cur] = s
                 /\ InFlight' = IF s \in InFlightStatus THEN InFlight ELSE {}
              \/ pc' = onError
                 /\ \/ status'[cur] = status[cur] /\ InFlight' = InFlight
                    \/ status'[cur] = s
                       /\ InFlight' = IF s \in InFlightStatus THEN InFlight ELSE {}
<1>1. CASE UNCHANGED status
  <2>1. pc' = onError \/ (pc' = onOk /\ status' = [status EXCEPT ![cur] = s])
    BY <1>1 DEF SetStatus, Goto
  <2>2. CASE pc' = onError
    BY <1>1, <2>2, RowsKept
  <2>3. CASE pc' = onOk /\ status' = [status EXCEPT ![cur] = s]
    BY <2>3, RowChanged
  <2> QED BY <2>1, <2>2, <2>3
<1>2. CASE status' = [status EXCEPT ![cur] = s]
  <2>1. pc' \in {onOk, onError}
    BY DEF SetStatus, Goto
  <2> QED BY <1>2, <2>1, RowChanged
<1> QED BY <1>1, <1>2 DEF SetStatus

\* Every step keeps at most one candidate and what each program point knows of
\* the row it works on.
LEMMA StatusStep ==
    ASSUME StatusInv, [Next]_vars
    PROVE  StatusInv'
<1>0. TypeOK /\ TypeOK'
  BY TypeStep DEF StatusInv
<1>k. UNCHANGED status => AtMostOneInFlight' /\ InFlight' = InFlight
  BY RowsKept
<1>f. \A g \in Gens : g \in InFlight <=> status[g] \in InFlightStatus
  BY DEF InFlight
<1>c. pc # "free" => cur \in Gens
  BY <1>0 DEF TypeOK
<1> USE <1>0, <1>k, <1>f, <1>c DEF StatusInv, StatusAtPc, InFlightStatus,
        rows, files, session, Goto, Begin
<1>1. CASE ApplySteps
  <2>1. CASE SaveSnapshot
    <3>1. UNCHANGED status /\ (pc' = "free" \/ (pc' = "insert" /\ cur' = cur))
      BY <2>1 DEF SaveSnapshot
    <3>2. IsNextGeneration(cur) /\ InFlight = {}
      BY <2>1 DEF SaveSnapshot
    <3>3. pc' = "insert" => IsNextGeneration(cur)'
      BY <3>1, <3>2 DEF IsNextGeneration
    <3> QED BY <3>1, <3>2, <3>3
  <2>2. CASE InsertRow
    <3>1. cur \in Gens /\ InFlight = {} /\ status \in [Gens -> Status]
      BY <2>2 DEF InsertRow, TypeOK
    <3>2. CASE Goto("free") /\ UNCHANGED rows
      BY <3>2
    <3>3. CASE status' = [status EXCEPT ![cur] = "pending"]
      <4>1. status'[cur] = "pending"
        BY <3>1, <3>3
      <4>2. AtMostOneInFlight'
        <5>1. \A h \in Gens : h # cur => status'[h] = status[h] /\ h \notin InFlight
          BY <3>1, <3>3
        <5>2. InFlight' \subseteq {cur}
          BY <5>1 DEF InFlight
        <5> QED BY <5>2 DEF AtMostOneInFlight
      <4> QED BY <2>2, <4>1, <4>2 DEF InsertRow
    <3> QED BY <2>2, <3>2, <3>3 DEF InsertRow
  <2>3. CASE InstallCandidate
    BY <2>3 DEF InstallCandidate, Install
  <2>4. CASE Reject
    <3>1. SetStatus(cur, "rolled_back", "free", "free") /\ cur \in InFlight
      BY <2>4 DEF Reject, MarkRolledBack
    <3>2. "free" \in Labels /\ "free" \in Labels /\ "rolled_back" \in Status \ {"absent"}
      BY DEF Labels, Status
    <3>3. pc' # "free" => cur' = cur
      BY <3>1 DEF SetStatus
    <3> QED BY <2>4, <3>1, <3>2, <3>3, SetStatusStep DEF Reject
  <2>5. CASE MarkApplied
    <3>1. SetStatus(cur, "applied", "fingerprint", "restore") /\ cur \in InFlight
      BY <2>5 DEF MarkApplied
    <3>2. "fingerprint" \in Labels /\ "restore" \in Labels /\ "applied" \in Status \ {"absent"}
      BY DEF Labels, Status
    <3>3. pc' # "free" => cur' = cur
      BY <3>1 DEF SetStatus
    <3> QED BY <2>5, <3>1, <3>2, <3>3, SetStatusStep DEF MarkApplied
  <2>6. CASE Fingerprint
    BY <2>6 DEF Fingerprint, RecordFingerprint
  <2>7. CASE Health
    BY <2>7 DEF Health
  <2>8. CASE FirstApplyFailed
    <3>1. CASE UNCHANGED status
      BY <2>8, <3>1 DEF FirstApplyFailed, MarkRolledBack, SetStatus
    <3>2. CASE MarkRolledBack("free")
      <4>1. SetStatus(cur, "rolled_back", "free", "free") /\ cur \in InFlight
        BY <2>8, <3>2 DEF FirstApplyFailed, MarkRolledBack
      <4>2. "free" \in Labels /\ "rolled_back" \in Status \ {"absent"}
        BY DEF Labels, Status
      <4> QED BY <4>1, <4>2, SetStatusStep
    <3> QED BY <2>8, <3>1, <3>2 DEF FirstApplyFailed
  <2>9. CASE Restore
    BY <2>9 DEF Restore, Install
  <2>10. CASE RestoreFingerprint
    BY <2>10 DEF RestoreFingerprint, RecordFingerprint
  <2>11. CASE RestoreMark
    <3>1. SetStatus(cur, "rolled_back", "free", "free") /\ cur \in InFlight
      BY <2>11 DEF RestoreMark, MarkRolledBack
    <3>2. "free" \in Labels /\ "free" \in Labels /\ "rolled_back" \in Status \ {"absent"}
      BY DEF Labels, Status
    <3>3. pc' # "free" => cur' = cur
      BY <3>1 DEF SetStatus
    <3> QED BY <2>11, <3>1, <3>2, <3>3, SetStatusStep DEF RestoreMark
  <2>12. CASE RestoreRuntime
    BY <2>12 DEF RestoreRuntime, RuntimeSteps, AfterRuntime
  <2> QED BY <1>1, <2>1, <2>2, <2>3, <2>4, <2>5, <2>6, <2>7, <2>8, <2>9, <2>10, <2>11, <2>12 DEF ApplySteps
<1>2. CASE CommitSteps
  <2>1. CASE PrepareCommit
    <3>1. CASE UNCHANGED status /\ Goto("free")
      BY <3>1
    <3>2. CASE SetStatus(cur, "commit_prepared", "deadline", "free")
      <4>1. cur \in InFlight
        BY <2>1 DEF PrepareCommit
      <4>2. "deadline" \in Labels /\ "free" \in Labels /\ "commit_prepared" \in Status \ {"absent"}
        BY DEF Labels, Status
      <4>3. pc' # "free" => cur' = cur
        BY <3>2 DEF SetStatus
      <4> QED BY <3>2, <4>1, <4>2, <4>3, SetStatusStep
    <3> QED BY <2>1, <3>1, <3>2 DEF PrepareCommit
  <2>2. CASE CheckDeadline
    BY <2>2 DEF CheckDeadline
  <2>3. CASE PublishPointer
    BY <2>3 DEF PublishPointer
  <2>4. CASE SyncPointer
    BY <2>4 DEF SyncPointer
  <2>5. CASE FinalizeCommit
    <3>1. pc' = "free" /\ cur \in InFlight
      BY <2>5 DEF FinalizeCommit
    <3>2. CASE UNCHANGED status
      BY <3>1, <3>2
    <3>3. CASE status' = FinalizedRows
      <4>1. \A g \in Gens : status'[g] \notin InFlightStatus
        <5>1. \A g \in Gens : g # cur => status[g] \notin InFlightStatus
          BY <3>1 DEF AtMostOneInFlight
        <5> QED BY <3>3, <5>1 DEF FinalizedRows
      <4>2. InFlight' = {}
        BY <4>1 DEF InFlight
      <4> QED BY <3>1, <4>2 DEF AtMostOneInFlight
    <3> QED BY <2>5, <3>2, <3>3 DEF FinalizeCommit
  <2> QED BY <1>2, <2>1, <2>2, <2>3, <2>4, <2>5 DEF CommitSteps
<1>3. CASE RollbackSteps
  <2>1. CASE RollbackLocked
    <3>1. UNCHANGED status
      BY <2>1 DEF RollbackLocked
    <3>2. pc' # "free" => cur' = cur /\ cur \in InFlight /\ pc' \in {"finalize", "rb_rt", "rb_mark"}
      BY <2>1 DEF RollbackLocked, RollbackRefused, Install
    <3>3. pc' = "finalize" => status[cur] = "commit_prepared"
      BY <2>1 DEF RollbackLocked, Published, Install
    <3> QED BY <3>1, <3>2, <3>3
  <2>2. CASE RollbackMark
    <3> DEFINE next == IF prev[cur] = None THEN "rb_clear" ELSE "free"
    <3>1. SetStatus(cur, "rolled_back", next, "free") /\ cur \in InFlight
      BY <2>2 DEF RollbackMark, MarkRolledBack
    <3>2. next \in {"rb_clear", "free"}
      OBVIOUS
    <3> HIDE DEF next
    <3>3. next \in Labels /\ "free" \in Labels /\ "rolled_back" \in Status \ {"absent"}
      BY <3>2 DEF Labels, Status
    <3>4. pc' # "free" => cur' = cur
      BY <3>1 DEF SetStatus
    <3> QED BY <3>1, <3>2, <3>3, <3>4, SetStatusStep
  <2>3. CASE ClearActive
    BY <2>3 DEF ClearActive
  <2> QED BY <1>3, <2>1, <2>2, <2>3 DEF RollbackSteps
<1>4. CASE RepairSteps
  <2>1. CASE RepairInstall
    BY <2>1 DEF RepairInstall, Install
  <2>2. CASE RepairFingerprint
    BY <2>2 DEF RepairFingerprint, RecordFingerprint
  <2> QED BY <1>4, <2>1, <2>2 DEF RepairSteps
<1>5. CASE RecoverySteps
  <2>1. CASE RecoverPending
    BY <2>1 DEF RecoverPending, RecoveryRefused, Published, Establish, Install
  <2>2. CASE RecoveryMark
    <3>1. SetStatus(cur, "rolled_back", "free", "free") /\ cur \in InFlight
      BY <2>2 DEF RecoveryMark
    <3>2. "free" \in Labels /\ "free" \in Labels /\ "rolled_back" \in Status \ {"absent"}
      BY DEF Labels, Status
    <3>3. pc' # "free" => cur' = cur
      BY <3>1 DEF SetStatus
    <3> QED BY <2>2, <3>1, <3>2, <3>3, SetStatusStep DEF RecoveryMark
  <2>3. CASE BootRestore
    BY <2>3 DEF BootRestore, Establish, Install
  <2> QED BY <1>5, <2>1, <2>2, <2>3 DEF RecoverySteps
<1>6. CASE Operator
  <2>1. PICK g \in Gens : (\E p \in Policies : StartApply(g, p)) \/ StartCommit(g) \/ StartRollback(g)
    BY <1>6 DEF Operator
  <2>2. ASSUME NEW p \in Policies, StartApply(g, p) PROVE StatusInv'
    <3>1. UNCHANGED status /\ cur' = g /\ pc' = "save_snap" /\ InFlight = {} /\ IsNextGeneration(g)
      BY <2>2 DEF StartApply
    <3>2. IsNextGeneration(cur)'
      BY <3>1 DEF IsNextGeneration
    <3> QED BY <3>1, <3>2
  <2>3. CASE StartCommit(g)
    BY <2>3 DEF StartCommit
  <2>4. CASE StartRollback(g)
    BY <2>4 DEF StartRollback
  <2> QED BY <2>1, <2>2, <2>3, <2>4
<1>7. CASE ReconcileTick
  BY <1>7 DEF ReconcileTick, StartReconcile
<1>8. CASE ExpiryTick
  BY <1>8 DEF ExpiryTick, StartRecovery, IsPending
<1>9. CASE StartBootRestore
  BY <1>9 DEF StartBootRestore
<1>10. CASE Environment
  <2>1. ASSUME NEW g \in Gens, Expire(g) PROVE StatusInv'
    BY <2>1 DEF Expire
  <2>2. CASE RestoreWithoutDatabase
    BY <2>2 DEF RestoreWithoutDatabase
  <2>3. CASE Die
    BY <2>3 DEF Die
  <2>4. CASE Reboot
    BY <2>4 DEF Reboot
  <2>5. CASE Drift
    BY <2>5 DEF Drift
  <2> QED BY <1>10, <2>1, <2>2, <2>3, <2>4, <2>5 DEF Environment
<1>11. CASE UNCHANGED vars
  <2>1. UNCHANGED <<status, pc, cur>>
    BY <1>11 DEF vars
  <2>2. IsNextGeneration(cur)' <=> IsNextGeneration(cur)
    BY <2>1 DEF IsNextGeneration
  <2> QED BY <2>1, <2>2
<1> QED BY <1>1, <1>2, <1>3, <1>4, <1>5, <1>6, <1>7, <1>8, <1>9, <1>10, <1>11 DEF Next, Step

LEMMA StatusInvariant == Spec => []StatusInv
<1>1. Init => StatusInv
  BY ConstantsAssumption DEF Init, StatusInv, TypeOK, AtMostOneInFlight, StatusAtPc,
     InFlight, InFlightStatus, Gens, None, Rulesets, Status, Labels
<1>2. StatusInv /\ [Next]_vars => StatusInv'
  BY StatusStep
<1> QED BY <1>1, <1>2, PTL DEF Spec

\* For every number of generations and failures, and with power losses: two
\* candidates are never in flight, so "the pending generation" of Commit,
\* RollbackExpired, Reconcile and RecoverAtBoot is the same one.
THEOREM OneCandidate == Spec => []AtMostOneInFlight
<1>1. StatusInv => AtMostOneInFlight
  BY DEF StatusInv
<1> QED BY <1>1, StatusInvariant, PTL

\* No step changes a row that was decided: every status update of the code is
\* reached with a row in flight only.
LEMMA DecidedRowsKept ==
    ASSUME StatusInv, [Next]_vars, NEW g \in Gens, status[g] \in {"committed", "rolled_back"}
    PROVE  status'[g] = status[g]
<1>0. g \notin InFlight /\ (pc # "free" => cur \in Gens) /\ status \in [Gens -> Status]
  BY DEF StatusInv, TypeOK, InFlight, InFlightStatus
<1>1. CASE UNCHANGED status
  BY <1>1
<1>2. ASSUME NEW s, status' = [status EXCEPT ![cur] = s], cur # g, cur \in Gens
      PROVE  status'[g] = status[g]
  BY <1>0, <1>2
<1>3. cur = g /\ pc # "free" => pc \notin {"save_snap", "insert", "reject", "mark_applied",
          "first_fail", "restore_mark", "commit", "finalize", "rb_mark", "rec_mark"}
  <2>1. ~IsNextGeneration(g)
    BY ConstantsAssumption DEF IsNextGeneration, Gens
  <2> QED BY <1>0, <2>1 DEF StatusInv, StatusAtPc, InFlightStatus
<1>4. CASE InsertRow
  BY <1>0, <1>2, <1>3, <1>4 DEF InsertRow, rows
<1>5. CASE Reject \/ FirstApplyFailed \/ RestoreMark \/ RollbackMark
  BY <1>0, <1>1, <1>2, <1>3, <1>5
     DEF Reject, FirstApplyFailed, RestoreMark, RollbackMark, MarkRolledBack, SetStatus
<1>6. CASE MarkApplied \/ PrepareCommit \/ RecoveryMark
  BY <1>0, <1>1, <1>2, <1>3, <1>6 DEF MarkApplied, PrepareCommit, RecoveryMark, SetStatus
<1>7. CASE FinalizeCommit
  <2>1. cur # g
    BY <1>0, <1>3, <1>7 DEF FinalizeCommit
  <2> QED BY <1>7, <2>1 DEF FinalizeCommit, FinalizedRows
<1>8. CASE SaveSnapshot \/ InstallCandidate \/ Fingerprint \/ Health \/ Restore
           \/ RestoreFingerprint \/ RestoreRuntime
  BY <1>8 DEF SaveSnapshot, InstallCandidate, Fingerprint, Health, Restore,
     RestoreFingerprint, RestoreRuntime, rows
<1>9. CASE CheckDeadline \/ PublishPointer \/ SyncPointer \/ RollbackLocked \/ ClearActive
           \/ RepairSteps \/ RecoverPending \/ BootRestore
  BY <1>9 DEF CheckDeadline, PublishPointer, SyncPointer, RollbackLocked, ClearActive,
     RepairSteps, RepairInstall, RepairFingerprint, RecoverPending, BootRestore, rows
<1>10. CASE Operator \/ ReconcileTick \/ ExpiryTick \/ StartBootRestore \/ Environment
  BY <1>10 DEF Operator, StartApply, StartCommit, StartRollback, ReconcileTick,
     StartReconcile, ExpiryTick, StartRecovery, StartBootRestore, Environment, Expire,
     RestoreWithoutDatabase, Die, Reboot, Drift, rows
<1>11. CASE UNCHANGED vars
  BY <1>11 DEF vars, rows
<1> QED BY <1>4, <1>5, <1>6, <1>7, <1>8, <1>9, <1>10, <1>11
        DEF Next, Step, ApplySteps, CommitSteps, RollbackSteps, RecoverySteps

\* A committed generation is never rolled back and a rolled-back one never
\* returns, although MarkRolledBack updates whatever row it is given.
THEOREM DecidedForGood == Spec => DecisionsAreFinal
<1>1. StatusInv /\ [Next]_vars
        => [\A g \in Gens : status[g] \in {"committed", "rolled_back"} => status'[g] = status[g]]_vars
  BY DecidedRowsKept
<1> QED BY <1>1, StatusInvariant, PTL DEF Spec, DecisionsAreFinal

-----------------------------------------------------------------------------
(* The pointer and power losses. *)

Accepted == {"commit_prepared", "committed"}

\* Neither the pointer nor the one that a power loss would bring back names a
\* generation that was given up.  The second part keeps rollbacks away from the
\* durable pointer: a prepared generation that has reached the disk is the one
\* that readers see, so a candidate that is not published is in neither.
DurableInv ==
    /\ PointerIsCommitted
    /\ ptrDisk # None => status[ptrDisk] \in Accepted
    /\ ptrDisk # None /\ status[ptrDisk] = "commit_prepared" => ptr = ptrDisk
    /\ pc \in {"deadline", "rename", "rb_rt", "rb_mark", "rec_rt", "rec_mark"} => ptr # cur

\* The rows that the pointers name stay accepted, and none of them is prepared
\* that was not.
LEMMA PointersKept ==
    ASSUME StatusInv, DurableInv, UNCHANGED <<ptr, ptrDisk>>,
           \A g \in Gens : status[g] \in Accepted => status'[g] \in Accepted,
           \A g \in Gens : status'[g] = "commit_prepared" /\ status[g] \in Accepted
                             => status[g] = "commit_prepared",
           pc' \in {"deadline", "rename", "rb_rt", "rb_mark", "rec_rt", "rec_mark"} => ptr # cur'
    PROVE  DurableInv'
BY DEF DurableInv, PointerIsCommitted, StatusInv, TypeOK, Accepted

\* A candidate that is given up is named by neither pointer.
LEMMA PointersSpared ==
    ASSUME StatusInv, DurableInv, cur \in InFlight,
           pc \in {"reject", "first_fail", "restore_mark", "rb_mark", "rec_mark"}
    PROVE  cur \in Gens /\ ptr # cur /\ ptrDisk # cur
<1>1. cur \in Gens /\ status[cur] \in InFlightStatus /\ cur # None
  BY ConstantsAssumption DEF InFlight, Gens, None
<1>2. ptr # cur
  BY <1>1 DEF StatusInv, StatusAtPc, DurableInv, PointerIsCommitted
<1>3. ptrDisk = cur => status[cur] = "commit_prepared"
  BY <1>1 DEF DurableInv, Accepted, InFlightStatus
<1> QED BY <1>1, <1>2, <1>3 DEF DurableInv

\* Marking the candidate rolled back leaves both pointers with their rows.
LEMMA GivenUp ==
    ASSUME StatusInv, DurableInv, cur \in InFlight, UNCHANGED <<ptr, ptrDisk>>,
           pc \in {"reject", "first_fail", "restore_mark", "rb_mark", "rec_mark"},
           NEW onOk \in {"free", "rb_clear"}, SetStatus(cur, "rolled_back", onOk, "free")
    PROVE  DurableInv'
<1>1. cur \in Gens /\ ptr # cur /\ ptrDisk # cur
  BY PointersSpared
<1>2. pc' \in {"free", "rb_clear"}
  BY DEF SetStatus, Goto
<1>3. \A g \in Gens : g # cur => status'[g] = status[g]
  BY <1>1 DEF SetStatus, StatusInv, TypeOK
<1> QED BY <1>1, <1>2, <1>3 DEF DurableInv, PointerIsCommitted, StatusInv, TypeOK, Accepted

\* The steps of an apply: only the failing ones decide, and they spare the pointers.
LEMMA DurableApply == ASSUME StatusInv, DurableInv, ApplySteps PROVE DurableInv'
<1>c. pc # "free" => cur \in Gens
  BY DEF StatusInv, TypeOK
<1>1. CASE Reject
  BY <1>1, <1>c, GivenUp
     DEF Reject, MarkRolledBack, StatusInv, StatusAtPc, InFlight, InFlightStatus
<1>2. CASE RestoreMark
  BY <1>2, <1>c, GivenUp
     DEF RestoreMark, MarkRolledBack, StatusInv, StatusAtPc, InFlight, InFlightStatus
<1>3. CASE FirstApplyFailed
  <2>1. CASE MarkRolledBack("free")
    BY <1>3, <1>c, <2>1, GivenUp
       DEF FirstApplyFailed, MarkRolledBack, StatusInv, StatusAtPc, InFlight, InFlightStatus
  <2>2. CASE UNCHANGED status /\ Goto("free")
    BY <1>3, <2>2, PointersKept DEF FirstApplyFailed, Goto
  <2> QED BY <1>3, <2>1, <2>2 DEF FirstApplyFailed
<1>4. CASE InsertRow
  <2>1. UNCHANGED <<ptr, ptrDisk>> /\ pc' \in {"install", "free"} /\ cur \in Gens
    BY <1>4, <1>c DEF InsertRow, Goto
  <2>2. status[cur] = "absent"
    <3>1. IsNextGeneration(cur)
      BY <1>4 DEF InsertRow, StatusInv, StatusAtPc
    <3> QED BY <2>1, <3>1 DEF IsNextGeneration, Gens
  <2>3. status' = status \/ status' = [status EXCEPT ![cur] = "pending"]
    BY <1>4 DEF InsertRow, rows
  <2> QED BY <2>1, <2>2, <2>3, PointersKept DEF StatusInv, TypeOK, Accepted
<1>5. CASE MarkApplied
  <2>1. UNCHANGED <<ptr, ptrDisk>> /\ pc' \in {"fingerprint", "restore"} /\ cur \in Gens
        /\ status[cur] = "pending"
    BY <1>5, <1>c DEF MarkApplied, SetStatus, Goto, StatusInv, StatusAtPc
  <2>2. status' = status \/ status' = [status EXCEPT ![cur] = "applied"]
    BY <1>5 DEF MarkApplied, SetStatus
  <2> QED BY <2>1, <2>2, PointersKept DEF StatusInv, TypeOK, Accepted
<1>6. CASE RestoreRuntime
  <2>1. /\ UNCHANGED <<ptr, ptrDisk, status>>
        /\ pc' \in {"rb_mark", "rec_mark"} => cur' = cur /\ pc \in {"rb_rt", "rec_rt"}
        /\ pc' \in {"free", "restore_mark", "rb_mark", "rec_mark"}
    BY <1>6 DEF RestoreRuntime, RuntimeSteps, AfterRuntime, Goto, rows
  <2> QED BY <2>1, PointersKept DEF DurableInv
<1>7. CASE SaveSnapshot \/ InstallCandidate \/ Fingerprint \/ Health \/ Restore
           \/ RestoreFingerprint
  <2>1. /\ UNCHANGED <<ptr, ptrDisk, status>>
        /\ pc' \notin {"deadline", "rename", "rb_rt", "rb_mark", "rec_rt", "rec_mark"}
    BY <1>7 DEF SaveSnapshot, InstallCandidate, Fingerprint, Health, Restore,
       RestoreFingerprint, RecordFingerprint, Install, Goto, rows
  <2> QED BY <2>1, PointersKept
<1> QED BY <1>1, <1>2, <1>3, <1>4, <1>5, <1>6, <1>7 DEF ApplySteps

\* The steps of a commit: the rename replaces a pointer to another generation.
LEMMA DurableCommit == ASSUME StatusInv, DurableInv, CommitSteps PROVE DurableInv'
<1>c. pc # "free" => cur \in Gens /\ cur # None
  BY DEF StatusInv, TypeOK
<1>1. CASE PrepareCommit
  <2>1. /\ UNCHANGED <<ptr, ptrDisk>> /\ status[cur] = "applied" /\ cur \in Gens /\ cur # None
        /\ pc' \in {"deadline", "free"} /\ (pc' = "deadline" => cur' = cur)
    BY <1>1, <1>c DEF PrepareCommit, SetStatus, Goto, StatusInv, StatusAtPc
  <2>2. status' = status \/ status' = [status EXCEPT ![cur] = "commit_prepared"]
    BY <1>1 DEF PrepareCommit, SetStatus
  <2>3. ptr # cur
    BY <2>1 DEF DurableInv, PointerIsCommitted
  <2> QED BY <2>1, <2>2, <2>3, PointersKept DEF StatusInv, TypeOK, Accepted
<1>2. CASE CheckDeadline
  <2>1. /\ UNCHANGED <<ptr, ptrDisk, status>> /\ pc = "deadline"
        /\ pc' \in {"rollback", "rename", "free"} /\ (pc' = "rename" => cur' = cur)
    BY <1>2 DEF CheckDeadline, Goto, rows
  <2> QED BY <2>1, PointersKept DEF DurableInv
<1>3. CASE PublishPointer
  <2>1. /\ UNCHANGED <<ptrDisk, status>> /\ pc = "rename" /\ pc' \in {"ptr_sync", "free"}
        /\ ptr' \in {ptr, cur} /\ status[cur] = "commit_prepared" /\ cur \in Gens
    BY <1>3, <1>c DEF PublishPointer, Goto, rows, StatusInv, StatusAtPc
  <2>2. ptrDisk # None => status[ptrDisk] # "commit_prepared"
    <3>1. SUFFICES ASSUME ptrDisk # None, status[ptrDisk] = "commit_prepared" PROVE FALSE
      OBVIOUS
    <3>2. ptrDisk \in InFlight /\ cur \in InFlight
      BY <2>1, <3>1 DEF StatusInv, TypeOK, InFlight, InFlightStatus
    <3>3. ptrDisk = cur /\ ptr = ptrDisk
      BY <3>1, <3>2 DEF StatusInv, AtMostOneInFlight, DurableInv
    <3> QED BY <2>1, <3>3 DEF DurableInv
  <2> QED BY <2>1, <2>2 DEF DurableInv, PointerIsCommitted, Accepted
<1>4. CASE SyncPointer
  <2>1. UNCHANGED <<ptr, status>> /\ ptrDisk' \in {ptr, ptrDisk} /\ pc' \in {"finalize", "free"}
    BY <1>4 DEF SyncPointer, Goto, rows
  <2> QED BY <2>1 DEF DurableInv, PointerIsCommitted, Accepted
<1>5. CASE FinalizeCommit
  <2>1. UNCHANGED <<ptr, ptrDisk>> /\ pc' = "free" /\ (status' = status \/ status' = FinalizedRows)
    BY <1>5 DEF FinalizeCommit, Goto
  <2> QED BY <2>1, PointersKept DEF FinalizedRows, Accepted
<1> QED BY <1>1, <1>2, <1>3, <1>4, <1>5 DEF CommitSteps

\* A rollback or recovery of the candidate goes on only if it is not published.
LEMMA DurableRollback ==
    ASSUME StatusInv, DurableInv, RollbackSteps \/ RecoverySteps
    PROVE  DurableInv'
<1>c. pc # "free" => cur \in Gens /\ cur # None
  BY DEF StatusInv, TypeOK
<1>1. CASE RollbackLocked \/ RecoverPending \/ BootRestore
  <2>1. /\ UNCHANGED <<ptr, status>> /\ ptrDisk' \in {ptr, ptrDisk}
        /\ pc' \notin {"deadline", "rename", "rb_mark", "rb_rt", "rec_rt", "rec_mark"}
           \/ (~Published(cur) /\ cur \in InFlight /\ cur' = cur)
    <3>1. CASE RollbackLocked
      BY <3>1 DEF RollbackLocked, RollbackRefused, EnsureDurable, Install, Goto, rows
    <3>2. CASE RecoverPending
      <4>1. cur \in InFlight
        BY <3>2 DEF RecoverPending, StatusInv, StatusAtPc
      <4> QED BY <3>2, <4>1 DEF RecoverPending, EnsureDurable, Establish, Install, Goto, rows
    <3>3. CASE BootRestore
      BY <3>3 DEF BootRestore, EnsureDurable, Establish, Install, Goto, rows
    <3> QED BY <1>1, <3>1, <3>2, <3>3
  <2>2. ~Published(cur) /\ cur \in InFlight => ptr # cur
    <3>1. SUFFICES ASSUME cur \in InFlight, ptr = cur PROVE Published(cur)
      OBVIOUS
    <3>2. cur # None /\ status[cur] \in InFlightStatus
      BY <3>1, ConstantsAssumption DEF InFlight, Gens, None
    <3> QED BY <3>1, <3>2 DEF Published, DurableInv, PointerIsCommitted, InFlightStatus
  <2> QED BY <2>1, <2>2 DEF DurableInv, PointerIsCommitted, Accepted
<1>2. CASE RollbackMark
  <2> DEFINE next == IF prev[cur] = None THEN "rb_clear" ELSE "free"
  <2>1. /\ SetStatus(cur, "rolled_back", next, "free") /\ cur \in InFlight /\ pc = "rb_mark"
        /\ UNCHANGED <<ptr, ptrDisk>>
    BY <1>2 DEF RollbackMark, MarkRolledBack, StatusInv, StatusAtPc
  <2>2. next \in {"free", "rb_clear"}
    OBVIOUS
  <2> HIDE DEF next
  <2> QED BY <2>1, <2>2, GivenUp
<1>3. CASE RecoveryMark
  BY <1>3, GivenUp DEF RecoveryMark, StatusInv, StatusAtPc
<1>4. CASE ClearActive
  <2>1. /\ UNCHANGED status /\ ptr' \in {ptr, None} /\ ptrDisk' \in {ptrDisk, None}
        /\ pc' = "free" /\ InFlight = {}
    BY <1>4 DEF ClearActive, Goto, rows, StatusInv, StatusAtPc
  <2>2. ptrDisk # None => status[ptrDisk] # "commit_prepared"
    BY <2>1 DEF StatusInv, TypeOK, InFlight, InFlightStatus
  <2> QED BY <2>1, <2>2 DEF DurableInv, PointerIsCommitted, Accepted
<1> QED BY <1>1, <1>2, <1>3, <1>4 DEF RollbackSteps, RecoverySteps

\* A reboot brings back one of the two pointers, and both are then the same.
LEMMA DurableOthers ==
    ASSUME StatusInv, DurableInv,
           \/ RepairSteps \/ Operator \/ ReconcileTick \/ ExpiryTick \/ StartBootRestore
           \/ Environment \/ UNCHANGED vars
    PROVE  DurableInv'
<1>1. CASE Reboot
  <2>1. /\ UNCHANGED status /\ ptr' \in {ptr, ptrDisk} /\ ptrDisk' = ptr' /\ pc' = "free"
    BY <1>1 DEF Reboot, Goto, rows
  <2> QED BY <2>1 DEF DurableInv, PointerIsCommitted, Accepted
<1>2. CASE RepairSteps \/ Operator \/ ReconcileTick \/ ExpiryTick \/ StartBootRestore
  <2>1. /\ UNCHANGED <<ptr, ptrDisk, status>>
        /\ pc' \notin {"deadline", "rename", "rb_rt", "rb_mark", "rec_rt", "rec_mark"}
    BY <1>2 DEF RepairSteps, RepairInstall, RepairFingerprint, RecordFingerprint, Install,
       Operator, StartApply, StartCommit, StartRollback, ReconcileTick, StartReconcile,
       ExpiryTick, StartRecovery, StartBootRestore, Begin, Goto, rows
  <2> QED BY <2>1, PointersKept
<1>3. CASE (\E g \in Gens : Expire(g)) \/ RestoreWithoutDatabase \/ Drift \/ UNCHANGED vars
  <2>1. UNCHANGED <<ptr, ptrDisk, status, pc, cur>>
    BY <1>3 DEF Expire, RestoreWithoutDatabase, Drift, vars, rows, session
  <2> QED BY <2>1, PointersKept DEF DurableInv
<1>4. CASE Die
  BY <1>4, PointersKept DEF Die, Goto, rows
<1> QED BY <1>1, <1>2, <1>3, <1>4 DEF Environment

\* For every number of generations and failures, and although a power loss may
\* bring back a pointer whose replacement was never synchronised: the pointer
\* never names a generation that was rolled back or never prepared, which Open
\* and RecoverAtBoot would refuse.
THEOREM PointerAccepted == Spec => []PointerIsCommitted
<1>1. Init => DurableInv
  BY DEF Init, DurableInv, PointerIsCommitted
<1>2. StatusInv /\ DurableInv /\ [Next]_vars => DurableInv'
  BY DurableApply, DurableCommit, DurableRollback, DurableOthers DEF Next, Step
<1>3. DurableInv => PointerIsCommitted
  BY DEF DurableInv
<1> QED BY <1>1, <1>2, <1>3, StatusInvariant, PTL DEF Spec

=============================================================================
