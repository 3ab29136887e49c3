------------------------ MODULE SafeApplyPointerProofs ------------------------
(***************************************************************************)
(* Proofs about the pointer, the fingerprints and the kernel in SafeApply, *)
(* and that the lifecycle implements EnforcementRegister.  They hold when  *)
(* a rename, once visible, survives a reboot.                              *)
(***************************************************************************)
EXTENDS SafeApplyProofs

\* The rows and the pointer agree on who precedes whom.
ChainInv ==
    /\ \A g \in InFlight :
          /\ IsLastKnownGood(prev[g])
          /\ prev[g] < g
          /\ ptr = prev[g] \/ Published(g)
    /\ InFlight = {} => IsLastKnownGood(ptr)
    /\ pc = "insert" => IsLastKnownGood(prev[cur])

\* A recorded fingerprint is that of the generation's own ruleset, and whatever
\* is or may become published has one.
HashInv ==
    /\ \A g \in Gens : hash[g] \in {None, g}
    /\ \A g \in Gens : status[g] \in {"commit_prepared", "committed"} => hash[g] = g
    /\ pc \in {"health", "commit"} => hash[cur] = cur

\* What each step knows of the pointer and of the kernel.
PointerAtPc ==
    /\ pc \in {"deadline", "rename", "restore", "restore_fp", "restore_rt", "restore_mark",
               "rb_rt", "rb_mark", "rec_rt", "rec_mark"} => ptr = prev[cur]
    /\ pc \in {"ptr_sync", "finalize", "rc_install", "rc_fp", "rc_rt", "boot_restore"}
          => ptr = cur
    /\ pc = "rb_clear" => ptr = None
    /\ pc \in {"mark_applied", "fingerprint", "health", "commit", "deadline", "rename", "rc_fp"}
          => kernel = cur
    /\ pc = "restore_fp" => kernel = prev[cur]
    /\ pc \in {"restore_fp", "restore_rt", "restore_mark", "rb_rt", "rb_mark",
               "rec_rt", "rec_mark", "reject", "install"} => kernel # cur

PointerInv == ChainInv /\ HashInv /\ PointerAtPc /\ CandidateTracked

-----------------------------------------------------------------------------
(* What the invariant says, and what keeps its parts. *)

\* There is one last known good generation at a time.
LEMMA GoodUnique ==
    ASSUME NEW g \in Gens \cup {None}, NEW h \in Gens \cup {None},
           IsLastKnownGood(g), IsLastKnownGood(h)
    PROVE  g = h
BY ConstantsAssumption DEF IsLastKnownGood, Committed, Gens, None

\* What the invariant says of the candidate a transaction works on.
LEMMA CandidateFacts ==
    ASSUME StatusInv, PointerInv, cur \in InFlight
    PROVE  /\ InFlight = {cur}
           /\ cur \in Gens /\ cur # None
           /\ prev[cur] \in Gens \cup {None} /\ prev[cur] < cur
           /\ IsLastKnownGood(prev[cur])
           /\ ptr = prev[cur] \/ (ptr = cur /\ status[cur] = "commit_prepared")
           /\ kernel \in Gens => kernel \in {ptr, cur}
<1>1. InFlight = {cur} /\ cur \in Gens
  BY DEF StatusInv, AtMostOneInFlight, InFlight
<1>2. cur # None /\ prev[cur] \in Gens \cup {None}
  BY <1>1, ConstantsAssumption DEF StatusInv, TypeOK, Gens, None
<1> QED BY <1>1, <1>2 DEF PointerInv, ChainInv, CandidateTracked, Published

\* The last known good generation is a function of the status column.
LEMMA GoodKept ==
    ASSUME \A g \in Gens : status'[g] = "committed" <=> status[g] = "committed"
    PROVE  \A g : IsLastKnownGood(g)' <=> IsLastKnownGood(g)
<1>1. Committed' = Committed
  BY DEF Committed
<1> QED BY <1>1 DEF IsLastKnownGood

\* The chain of generations only depends on the rows, the snapshots and the
\* pointer.
LEMMA ChainKept ==
    ASSUME StatusInv, ChainInv, UNCHANGED <<status, prev, ptr>>,
           pc' = "insert" => pc = "insert" /\ cur' = cur
    PROVE  ChainInv'
<1>1. InFlight' = InFlight
  BY RowsKept
<1>2. \A g : IsLastKnownGood(g)' <=> IsLastKnownGood(g)
  BY GoodKept
<1>3. \A g : Published(g)' <=> Published(g)
  BY DEF Published
<1> QED BY <1>1, <1>2, <1>3 DEF ChainInv

\* A candidate that moves on stays where it is in the chain ...
LEMMA ChainMoved ==
    ASSUME StatusInv, PointerInv, cur \in InFlight, NEW s \in {"applied", "commit_prepared"},
           ptr = prev[cur], status' = [status EXCEPT ![cur] = s], UNCHANGED <<prev, ptr>>,
           pc' # "insert"
    PROVE  ChainInv'
<1>1. InFlight = {cur} /\ InFlight' = {cur} /\ prev[cur] < cur /\ IsLastKnownGood(prev[cur])
  BY CandidateFacts, RowChanged DEF InFlightStatus, Status
<1>2. \A g : IsLastKnownGood(g)' <=> IsLastKnownGood(g)
  BY GoodKept, <1>1 DEF StatusInv, TypeOK, InFlight, InFlightStatus
<1> QED BY <1>1, <1>2 DEF ChainInv

\* ... and one that is given up leaves the pointer with the last known good
\* generation, and the kernel with nothing of its own.
LEMMA ChainDecided ==
    ASSUME StatusInv, PointerInv, cur \in InFlight, ptr = prev[cur], kernel # cur,
           status' = [status EXCEPT ![cur] = "rolled_back"], UNCHANGED <<prev, ptr, kernel>>,
           pc' # "insert"
    PROVE  ChainInv' /\ CandidateTracked'
<1>1. InFlight = {cur} /\ InFlight' = {} /\ IsLastKnownGood(prev[cur])
  BY CandidateFacts, RowChanged DEF InFlightStatus, Status
<1>2. \A g : IsLastKnownGood(g)' <=> IsLastKnownGood(g)
  BY GoodKept, <1>1 DEF StatusInv, TypeOK, InFlight, InFlightStatus
<1>3. ChainInv'
  BY <1>1, <1>2 DEF ChainInv
<1>4. CandidateTracked'
  BY <1>1 DEF PointerInv, CandidateTracked
<1> QED BY <1>3, <1>4

\* Fingerprints stay as they are, and no row becomes one that needs another.
LEMMA HashKept ==
    ASSUME HashInv, UNCHANGED hash,
           \A g \in Gens : status'[g] \in {"commit_prepared", "committed"} =>
                             status[g] \in {"commit_prepared", "committed"} \/ hash[g] = g,
           pc' \in {"health", "commit"} => hash[cur'] = cur'
    PROVE  HashInv'
BY DEF HashInv

\* A new fingerprint is that of the generation's own ruleset.
LEMMA HashRecorded ==
    ASSUME StatusInv, HashInv, UNCHANGED status, NEW g \in Gens \cup {None}, kernel = g,
           hash' \in {hash, [hash EXCEPT ![g] = kernel]},
           pc' \in {"health", "commit"} =>
               cur' = g /\ g \in Gens /\ hash' = [hash EXCEPT ![g] = kernel]
    PROVE  HashInv'
BY DEF HashInv, StatusInv, TypeOK

\* A transaction that ends, or that starts without a commitment to the pointer.
LEMMA Ended ==
    ASSUME pc' \in {"free", "save_snap", "first_fail", "rollback", "recover"}
    PROVE  PointerAtPc'
BY DEF PointerAtPc

\* A rollback of the candidate, by whichever path it is reached.
LEMMA DecideStep ==
    ASSUME StatusInv, PointerInv, cur \in InFlight, ptr = prev[cur], kernel # cur,
           NEW next \in {"free", "rb_clear"}, next = "rb_clear" => prev[cur] = None,
           SetStatus(cur, "rolled_back", next, "free"),
           UNCHANGED <<deadline, hash, files, ptr, ptrDisk, kernel>>
    PROVE  PointerInv'
<1>1. pc' \in {"free", "rb_clear"} /\ (pc' = "rb_clear" => ptr = None)
  BY DEF SetStatus, Goto
<1>2. PointerAtPc'
  BY <1>1 DEF PointerAtPc
<1>3. CASE UNCHANGED status
  <2>1. ChainInv'
    BY <1>1, <1>3, ChainKept DEF PointerInv, files
  <2>2. HashInv'
    BY <1>1, <1>3, HashKept DEF PointerInv
  <2>3. CandidateTracked'
    BY <1>3, RowsKept DEF PointerInv, CandidateTracked
  <2> QED BY <1>2, <2>1, <2>2, <2>3 DEF PointerInv
<1>4. CASE status' = [status EXCEPT ![cur] = "rolled_back"]
  <2>1. ChainInv' /\ CandidateTracked'
    BY <1>1, <1>4, ChainDecided DEF files
  <2>2. HashInv'
    BY <1>1, <1>4, HashKept DEF PointerInv, StatusInv, TypeOK
  <2> QED BY <1>2, <2>1, <2>2 DEF PointerInv
<1> QED BY <1>3, <1>4 DEF SetStatus

-----------------------------------------------------------------------------
(* The steps. *)

\* A step that touches neither the rows, nor the chain, nor a fingerprint keeps
\* the invariant if it accounts for the kernel and for its next program point.
LEMMA KernelStep ==
    ASSUME StatusInv, PointerInv, UNCHANGED <<status, hash, prev, ptr>>,
           pc' = "insert" => pc = "insert" /\ cur' = cur,
           pc' \in {"health", "commit"} => hash[cur'] = cur',
           kernel' \in Gens => kernel' \in {kernel, ptr} \cup InFlight,
           PointerAtPc'
    PROVE  PointerInv'
<1>1. ChainInv' /\ HashInv'
  BY ChainKept, HashKept DEF PointerInv
<1>2. CandidateTracked'
  BY RowsKept DEF PointerInv, CandidateTracked
<1> QED BY <1>1, <1>2 DEF PointerInv

\* A step that records the fingerprint of what the kernel holds.
LEMMA FingerprintStep ==
    ASSUME StatusInv, PointerInv, UNCHANGED <<status, prev, ptr, kernel>>,
           NEW g \in Gens \cup {None}, kernel = g, pc' # "insert",
           hash' \in {hash, [hash EXCEPT ![g] = kernel]},
           pc' \in {"health", "commit"} =>
               cur' = g /\ g \in Gens /\ hash' = [hash EXCEPT ![g] = kernel],
           PointerAtPc'
    PROVE  PointerInv'
<1>1. ChainInv' /\ HashInv'
  BY ChainKept, HashRecorded DEF PointerInv
<1>2. CandidateTracked'
  BY RowsKept DEF PointerInv, CandidateTracked
<1> QED BY <1>1, <1>2 DEF PointerInv

\* The rename of a commit moves the pointer from the predecessor to the
\* candidate, which is the ruleset in the kernel.
LEMMA RenameStep ==
    ASSUME StatusInv, PointerInv, PublishPointer
    PROVE  PointerInv'
<1>1. /\ pc = "rename" /\ UNCHANGED <<status, hash, prev, kernel>>
      /\ ptr = prev[cur] /\ kernel = cur /\ status[cur] = "commit_prepared" /\ cur \in Gens
  BY DEF PublishPointer, rows, files, PointerInv, PointerAtPc, StatusInv, StatusAtPc, TypeOK
<1>2. cur \in InFlight
  BY <1>1 DEF InFlight, InFlightStatus
<1>3. CASE UNCHANGED ptr /\ Goto("free")
  BY <1>1, <1>3, KernelStep, Ended DEF Goto
<1>4. CASE ptr' = cur /\ Goto("ptr_sync")
  <2>1. pc' = "ptr_sync" /\ cur' = cur /\ InFlight = {cur} /\ InFlight' = {cur}
    BY <1>1, <1>2, <1>4, CandidateFacts, RowsKept DEF Goto
  <2>2. \A g : IsLastKnownGood(g)' <=> IsLastKnownGood(g)
    BY <1>1, GoodKept
  <2>3. ChainInv'
    BY <1>1, <1>2, <1>4, <2>1, <2>2 DEF PointerInv, ChainInv, Published
  <2>4. HashInv'
    BY <1>1, <2>1, HashKept DEF PointerInv
  <2> QED BY <1>1, <1>4, <2>1, <2>3, <2>4 DEF PointerInv, PointerAtPc, CandidateTracked
<1> QED BY <1>3, <1>4 DEF PublishPointer

\* The end of a commit makes the candidate the last known good generation.
LEMMA FinalizeStep ==
    ASSUME StatusInv, PointerInv, FinalizeCommit
    PROVE  PointerInv'
<1>1. /\ pc = "finalize" /\ pc' = "free" /\ UNCHANGED <<hash, prev, ptr, kernel>>
      /\ ptr = cur /\ status[cur] = "commit_prepared" /\ cur \in Gens
  BY DEF FinalizeCommit, files, Goto, PointerInv, PointerAtPc, StatusInv, StatusAtPc, TypeOK
<1>2. cur \in InFlight
  BY <1>1 DEF InFlight, InFlightStatus
<1>3. CASE UNCHANGED status
  BY <1>1, <1>3, KernelStep, Ended
<1>4. CASE status' = FinalizedRows
  <2>1. InFlight = {cur} /\ prev[cur] < cur /\ IsLastKnownGood(prev[cur])
    BY <1>2, CandidateFacts
  <2>2. \A g \in Gens : status'[g] = IF g = cur THEN "committed" ELSE status[g]
    BY <1>4, <2>1 DEF FinalizedRows, InFlight, InFlightStatus
  <2>3. InFlight' = {} /\ Committed' = Committed \cup {cur}
    BY <1>1, <2>1, <2>2 DEF InFlight, InFlightStatus, Committed
  <2>4. \A h \in Committed : h < cur
    <3> TAKE h \in Committed
    <3>1. h <= prev[cur]
      BY <2>1 DEF IsLastKnownGood
    <3>2. h \in Int /\ cur \in Int /\ prev[cur] \in Int
      BY <1>1, ConstantsAssumption DEF Committed, StatusInv, TypeOK, Gens, None
    <3> QED BY <2>1, <3>1, <3>2
  <2>5. IsLastKnownGood(ptr)'
    BY <1>1, <2>3, <2>4, ConstantsAssumption DEF IsLastKnownGood, Committed, Gens
  <2>6. ChainInv'
    BY <1>1, <2>3, <2>5 DEF ChainInv
  <2>7. HashInv'
    BY <1>1, <2>2, HashKept DEF PointerInv, HashInv
  <2>8. CandidateTracked'
    BY <1>1, <2>1 DEF PointerInv, CandidateTracked
  <2> QED BY <1>1, <2>6, <2>7, <2>8, Ended DEF PointerInv
<1> QED BY <1>3, <1>4 DEF FinalizeCommit

\* The snapshot is written of a generation that has no row yet.
LEMMA SnapshotStep ==
    ASSUME StatusInv, PointerInv, SaveSnapshot
    PROVE  PointerInv'
<1>1. /\ pc = "save_snap" /\ InFlight = {} /\ cur \in Gens
      /\ UNCHANGED <<status, hash, ptr, kernel>>
      /\ pc' = "free" \/ (pc' = "insert" /\ cur' = cur)
  BY DEF SaveSnapshot, rows, Goto, StatusInv, StatusAtPc, TypeOK
<1>2. InFlight' = {} /\ \A g : IsLastKnownGood(g)' <=> IsLastKnownGood(g)
  BY <1>1, RowsKept, GoodKept
<1>3. pc' = "insert" => IsLastKnownGood(prev'[cur])
  BY <1>1 DEF SaveSnapshot, StatusInv, TypeOK, Goto
<1>4. ChainInv'
  BY <1>1, <1>2, <1>3 DEF PointerInv, ChainInv
<1>5. HashInv'
  BY <1>1, HashKept DEF PointerInv
<1>6. PointerAtPc' /\ CandidateTracked'
  BY <1>1, <1>2 DEF PointerInv, PointerAtPc, CandidateTracked
<1> QED BY <1>4, <1>5, <1>6 DEF PointerInv

\* The pending row enters the chain after the last known good generation.
LEMMA InsertStep ==
    ASSUME StatusInv, PointerInv, InsertRow
    PROVE  PointerInv'
<1>1. /\ pc = "insert" /\ InFlight = {} /\ IsNextGeneration(cur) /\ cur \in Gens
      /\ UNCHANGED <<prev, ptr, kernel>>
      /\ pc' = "free" \/ (pc' = "install" /\ cur' = cur)
  BY DEF InsertRow, files, Goto, StatusInv, StatusAtPc, TypeOK
<1>2. IsLastKnownGood(ptr) /\ IsLastKnownGood(prev[cur]) /\ ptr = prev[cur]
  BY <1>1, GoodUnique DEF PointerInv, ChainInv, StatusInv, TypeOK
<1>3. status[cur] = "absent" /\ prev[cur] < cur
  BY <1>1, <1>2, ConstantsAssumption
     DEF IsNextGeneration, IsLastKnownGood, Committed, StatusInv, TypeOK, Gens, None
<1>4. kernel \in Gens => kernel = ptr /\ kernel # cur
  BY <1>1, <1>2, <1>3, ConstantsAssumption DEF PointerInv, CandidateTracked, Gens
<1>5. CASE UNCHANGED rows /\ Goto("free")
  BY <1>1, <1>5, KernelStep, Ended DEF rows, Goto
<1>6. CASE /\ status' = [status EXCEPT ![cur] = "pending"]
           /\ hash' = [hash EXCEPT ![cur] = None]
  <2>1. \A g \in Gens : status'[g] = IF g = cur THEN "pending" ELSE status[g]
    BY <1>6 DEF StatusInv, TypeOK
  <2>2. InFlight' = {cur}
    BY <1>1, <2>1 DEF InFlight, InFlightStatus
  <2>3. \A g : IsLastKnownGood(g)' <=> IsLastKnownGood(g)
    BY <1>3, <2>1, GoodKept
  <2>4. ChainInv'
    BY <1>1, <1>2, <1>3, <2>2, <2>3 DEF ChainInv
  <2>5. HashInv'
    BY <1>1, <1>6, <2>1 DEF PointerInv, HashInv, StatusInv, TypeOK
  <2>6. PointerAtPc' /\ CandidateTracked'
    BY <1>1, <1>4, <2>2 DEF PointerAtPc, CandidateTracked
  <2> QED BY <2>4, <2>5, <2>6 DEF PointerInv
<1> QED BY <1>5, <1>6 DEF InsertRow

\* Every step keeps the rows, the pointer, the fingerprints and the kernel in
\* agreement, as long as no reboot takes a rename back.
LEMMA PointerStep ==
    ASSUME ~PowerLoss, StatusInv, PointerInv, [Next]_vars
    PROVE  PointerInv'
<1>0. pc # "free" => cur \in Gens
  BY DEF StatusInv, TypeOK
<1>p. \A g \in Gens : g # None /\ prev[g] \in Gens \cup {None} /\ None \notin Gens
  BY ConstantsAssumption DEF StatusInv, TypeOK, Gens, None
<1>i. \A g \in Gens : g \in InFlight <=> status[g] \in InFlightStatus
  BY DEF InFlight
<1>c. cur \in InFlight =>
          /\ InFlight = {cur} /\ prev[cur] # cur
          /\ ptr = prev[cur] \/ (ptr = cur /\ status[cur] = "commit_prepared")
          /\ kernel \in Gens => kernel \in {ptr, cur}
  BY CandidateFacts, ConstantsAssumption DEF Gens, None
<1>h. /\ \A g \in Gens : hash[g] \in {None, g}
      /\ \A g \in Gens : status[g] \in {"commit_prepared", "committed"} => hash[g] = g
  BY DEF PointerInv, HashInv
<1> USE <1>0, <1>p, <1>i, <1>c DEF InFlightStatus, rows, files, session, Goto, Begin
<1>1. CASE SaveSnapshot \/ InsertRow
  BY <1>1, SnapshotStep, InsertStep
<1>2. CASE InstallCandidate
  <2>1. PointerAtPc'
    BY <1>2 DEF InstallCandidate, Install, PointerInv, PointerAtPc, StatusInv, StatusAtPc
  <2>2. /\ kernel' \in {kernel, cur} /\ cur \in InFlight
        /\ pc' \notin {"insert", "health", "commit"}
    BY <1>2 DEF InstallCandidate, Install, StatusInv, StatusAtPc
  <2> QED BY <1>2, <2>1, <2>2, KernelStep DEF InstallCandidate
<1>3. CASE Reject \/ RestoreMark
  BY <1>3, DecideStep DEF Reject, RestoreMark, MarkRolledBack, PointerInv, PointerAtPc,
     StatusInv, StatusAtPc
<1>4. CASE MarkApplied
  <2>1. /\ cur \in InFlight /\ status[cur] = "pending" /\ kernel = cur
        /\ ptr = prev[cur] /\ pc' \in {"fingerprint", "restore"} /\ cur' = cur
        /\ UNCHANGED <<hash, prev, ptr, kernel>>
    BY <1>4 DEF MarkApplied, SetStatus, PointerInv, PointerAtPc, StatusInv, StatusAtPc
  <2>2. PointerAtPc'
    BY <2>1 DEF PointerAtPc
  <2>3. CASE UNCHANGED status
    BY <2>1, <2>2, <2>3, KernelStep
  <2>4. CASE status' = [status EXCEPT ![cur] = "applied"]
    <3>1. ChainInv'
      BY <2>1, <2>4, ChainMoved
    <3>2. HashInv'
      BY <2>1, <2>4, HashKept DEF PointerInv, StatusInv, TypeOK
    <3>3. InFlight' = InFlight
      BY <2>1, <2>4, RowChanged DEF Status
    <3> QED BY <2>1, <2>2, <3>1, <3>2, <3>3 DEF PointerInv, CandidateTracked
  <2> QED BY <1>4, <2>3, <2>4 DEF MarkApplied, SetStatus
<1>5. CASE Fingerprint
  <2>1. /\ cur \in InFlight /\ cur \in Gens /\ kernel = cur /\ ptr = prev[cur] /\ cur' = cur
        /\ UNCHANGED <<status, prev, ptr, kernel>>
        /\ hash' \in {hash, [hash EXCEPT ![cur] = kernel]}
        /\ pc' = "restore" \/ (pc' = "health" /\ hash' = [hash EXCEPT ![cur] = kernel])
    BY <1>5 DEF Fingerprint, RecordFingerprint, PointerInv, PointerAtPc, StatusInv, StatusAtPc
  <2>2. PointerAtPc'
    BY <2>1 DEF PointerAtPc
  <2> QED BY <2>1, <2>2, FingerprintStep
<1>6. CASE Health
  <2>1. /\ pc' \in {"commit", "free", "rollback"} /\ (pc' = "commit" => cur' = cur)
        /\ kernel = cur /\ hash[cur] = cur /\ UNCHANGED <<status, hash, prev, ptr, kernel>>
    BY <1>6 DEF Health, PointerInv, PointerAtPc, HashInv
  <2>2. PointerAtPc'
    BY <2>1 DEF PointerAtPc
  <2> QED BY <2>1, <2>2, KernelStep
<1>7. CASE FirstApplyFailed
  <2>1. cur \in InFlight /\ ptr = prev[cur] /\ UNCHANGED <<hash, prev, ptr, kernel>>
    BY <1>7 DEF FirstApplyFailed, StatusInv, StatusAtPc
  <2>2. CASE UNCHANGED status /\ Goto("free")
    BY <2>1, <2>2, KernelStep, Ended
  <2>3. CASE kernel = None /\ MarkRolledBack("free")
    BY <1>7, <2>1, <2>3, DecideStep DEF FirstApplyFailed, MarkRolledBack
  <2> QED BY <1>7, <2>2, <2>3 DEF FirstApplyFailed
<1>8. CASE Restore
  <2>1. /\ cur \in InFlight /\ ptr = prev[cur] /\ UNCHANGED <<status, hash, prev, ptr>>
        /\ kernel' \in {kernel, ptr}
        /\ \/ pc' = "free"
           \/ pc' \in {"restore_mark", "restore_fp"} /\ cur' = cur /\ kernel' = ptr
    BY <1>8 DEF Restore, Install, PointerInv, PointerAtPc, StatusInv, StatusAtPc
  <2>2. PointerAtPc'
    BY <2>1 DEF PointerAtPc
  <2> QED BY <2>1, <2>2, KernelStep
<1>9. CASE RestoreFingerprint
  <2>1. /\ cur \in InFlight /\ cur \in Gens /\ ptr = prev[cur]
        /\ kernel = prev[cur] /\ kernel # cur
        /\ UNCHANGED <<status, prev, ptr, kernel>>
        /\ hash' \in {hash, [hash EXCEPT ![prev[cur]] = kernel]}
        /\ pc' = "free" \/ (pc' = "restore_rt" /\ cur' = cur)
    BY <1>9 DEF RestoreFingerprint, RecordFingerprint, PointerInv, PointerAtPc,
       StatusInv, StatusAtPc
  <2>2. PointerAtPc'
    BY <2>1 DEF PointerAtPc
  <2> QED BY <2>1, <2>2, FingerprintStep
<1>10. CASE RestoreRuntime
  <2>1. /\ UNCHANGED <<status, hash, prev, ptr>> /\ kernel' \in {kernel, Deny}
        /\ pc' = "free" \/ (/\ pc = "restore_rt" /\ pc' = "restore_mark"
                            /\ cur' = cur /\ kernel' = kernel)
                        \/ (/\ pc = "rb_rt" /\ pc' = "rb_mark"
                            /\ cur' = cur /\ kernel' = kernel)
                        \/ (/\ pc = "rec_rt" /\ pc' = "rec_mark"
                            /\ cur' = cur /\ kernel' = kernel)
    BY <1>10 DEF RestoreRuntime, RuntimeSteps, AfterRuntime
  <2>2. PointerAtPc' /\ Deny \notin Gens
    BY <2>1, ConstantsAssumption DEF PointerInv, PointerAtPc, Deny, Gens
  <2> QED BY <2>1, <2>2, KernelStep
<1>11. CASE PrepareCommit
  <2>1. /\ cur \in InFlight /\ status[cur] = "applied" /\ hash[cur] = cur /\ kernel = cur
        /\ UNCHANGED <<hash, prev, ptr, kernel>>
        /\ pc' = "free" \/ (pc' = "deadline" /\ cur' = cur /\ ptr = prev[cur])
    BY <1>11 DEF PrepareCommit, SetStatus, PointerInv, PointerAtPc, HashInv,
       StatusInv, StatusAtPc
  <2>2. PointerAtPc'
    BY <2>1 DEF PointerAtPc
  <2>3. CASE UNCHANGED status
    BY <2>1, <2>2, <2>3, KernelStep
  <2>4. CASE ptr = prev[cur] /\ status' = [status EXCEPT ![cur] = "commit_prepared"]
    <3>1. ChainInv'
      BY <2>1, <2>4, ChainMoved
    <3>2. HashInv'
      BY <2>1, <2>4, HashKept DEF PointerInv, StatusInv, TypeOK
    <3>3. InFlight' = InFlight
      BY <2>1, <2>4, RowChanged DEF Status
    <3> QED BY <2>1, <2>2, <3>1, <3>2, <3>3 DEF PointerInv, CandidateTracked
  <2> QED BY <1>11, <2>3, <2>4 DEF PrepareCommit, SetStatus
<1>12. CASE CheckDeadline \/ SyncPointer
  <2>1. PointerAtPc' /\ pc' \notin {"insert", "health", "commit"}
    BY <1>12 DEF CheckDeadline, SyncPointer, PointerInv, PointerAtPc
  <2> QED BY <1>12, <2>1, KernelStep DEF CheckDeadline, SyncPointer
<1>13. CASE PublishPointer \/ FinalizeCommit
  BY <1>13, RenameStep, FinalizeStep
<1>14. CASE RollbackLocked
  <2>1. /\ UNCHANGED <<status, hash, prev, ptr>> /\ kernel' \in {kernel, ptr, None}
        /\ \/ pc' = "free"
           \/ pc' = "finalize" /\ cur' = cur /\ ptr = cur
           \/ /\ pc' \in {"rb_rt", "rb_mark"} /\ cur' = cur /\ cur \in InFlight
              /\ ptr = prev[cur] /\ kernel' = ptr
    BY <1>14 DEF RollbackLocked, RollbackRefused, Install, Published
  <2>2. PointerAtPc'
    BY <2>1 DEF PointerAtPc
  <2> QED BY <2>1, <2>2, KernelStep
<1>15. CASE RollbackMark
  <2> DEFINE next == IF prev[cur] = None THEN "rb_clear" ELSE "free"
  <2>1. /\ SetStatus(cur, "rolled_back", next, "free")
        /\ cur \in InFlight /\ ptr = prev[cur] /\ kernel # cur
        /\ UNCHANGED <<deadline, hash, files, ptr, ptrDisk, kernel>>
    BY <1>15 DEF RollbackMark, MarkRolledBack, PointerInv, PointerAtPc, StatusInv, StatusAtPc
  <2>2. next \in {"free", "rb_clear"} /\ (next = "rb_clear" => prev[cur] = None)
    OBVIOUS
  <2> HIDE DEF next
  <2> QED BY <2>1, <2>2, DecideStep
<1>16. CASE ClearActive
  <2>1. pc' = "free" /\ UNCHANGED <<status, hash, prev, ptr, kernel>>
    BY <1>16 DEF ClearActive, PointerInv, PointerAtPc
  <2> QED BY <2>1, KernelStep, Ended
<1>17. CASE RepairInstall
  <2>1. /\ UNCHANGED <<status, hash, prev, ptr>> /\ kernel' \in {kernel, ptr}
        /\ pc' = "free" \/ (pc' = "rc_fp" /\ cur' = cur /\ ptr = cur /\ kernel' = cur)
    BY <1>17 DEF RepairInstall, Install, PointerInv, PointerAtPc
  <2>2. PointerAtPc'
    BY <2>1 DEF PointerAtPc
  <2> QED BY <2>1, <2>2, KernelStep
<1>18. CASE RepairFingerprint
  <2>1. /\ cur \in Gens /\ kernel = cur /\ UNCHANGED <<status, prev, ptr, kernel>>
        /\ hash' \in {hash, [hash EXCEPT ![cur] = kernel]}
        /\ pc' = "free" \/ (pc' = "rc_rt" /\ cur' = cur /\ ptr = cur)
    BY <1>18 DEF RepairFingerprint, RecordFingerprint, PointerInv, PointerAtPc
  <2>2. PointerAtPc'
    BY <2>1 DEF PointerAtPc
  <2> QED BY <2>1, <2>2, FingerprintStep
<1>19. CASE RecoverPending
  <2>1. cur \in InFlight /\ UNCHANGED <<status, hash, prev, ptr>>
    BY <1>19 DEF RecoverPending, StatusInv, StatusAtPc
  <2>2. /\ kernel' \in {kernel, ptr, None}
        /\ \/ pc' = "free"
           \/ pc' = "finalize" /\ cur' = cur /\ ptr = cur
           \/ pc' \in {"rec_rt", "rec_mark"} /\ cur' = cur /\ ptr = prev[cur] /\ kernel' = ptr
    BY <1>19, <1>h, <2>1 DEF RecoverPending, RecoveryRefused, Establish, Install, Published
  <2>3. PointerAtPc'
    BY <2>1, <2>2 DEF PointerAtPc
  <2> QED BY <2>1, <2>2, <2>3, KernelStep
<1>20. CASE RecoveryMark
  BY <1>20, DecideStep DEF RecoveryMark, PointerInv, PointerAtPc, StatusInv, StatusAtPc
<1>21. CASE BootRestore
  <2>1. /\ pc' = "free" /\ UNCHANGED <<status, hash, prev, ptr>> /\ kernel' \in {kernel, ptr}
    BY <1>21 DEF BootRestore, Establish, Install, PointerInv, PointerAtPc
  <2> QED BY <2>1, KernelStep, Ended
<1>22. CASE Operator
  <2>1. UNCHANGED <<status, hash, prev, ptr, kernel>>
    BY <1>22 DEF Operator, StartApply, StartCommit, StartRollback
  <2>2. \/ pc' \in {"save_snap", "rollback"}
        \/ pc' = "commit" /\ hash[cur'] = cur' /\ kernel = cur'
    BY <1>22, <1>h DEF Operator, StartApply, StartCommit, StartRollback
  <2>3. PointerAtPc'
    BY <2>1, <2>2 DEF PointerAtPc
  <2> QED BY <2>1, <2>2, <2>3, KernelStep
<1>23. CASE ReconcileTick
  <2>1. PICK g \in Gens : StartReconcile(g)
    BY <1>23 DEF ReconcileTick
  <2>2. UNCHANGED <<status, hash, prev, ptr, kernel>>
    BY <2>1 DEF StartReconcile
  <2>3. CASE pc' = "rollback"
    BY <2>2, <2>3, KernelStep, Ended
  <2>4. CASE /\ \A h \in Gens : IsPending(h) => status[h] = "commit_prepared"
             /\ IsExpected(g) /\ pc' = "rc_install" /\ cur' = g
    <3>1. ptr = g
      <4>1. CASE \E h \in Gens : IsPending(h) /\ Published(h)
        <5>1. PICK h \in Gens : IsPending(h) /\ Published(h)
          BY <4>1
        <5>2. IsPending(g)
          BY <2>4, <5>1 DEF IsExpected
        <5> QED BY <5>1, <5>2 DEF IsPending, Published, StatusInv, AtMostOneInFlight
      <4>2. CASE ~\E h \in Gens : IsPending(h) /\ Published(h)
        <5>1. IsLastKnownGood(g)
          BY <2>4, <4>2 DEF IsExpected
        <5>2. CASE InFlight = {}
          BY <5>1, <5>2, GoodUnique DEF PointerInv, ChainInv, StatusInv, TypeOK
        <5>3. ASSUME NEW h \in InFlight PROVE ptr = g
          <6>1. h \in Gens /\ IsPending(h)
            BY ConstantsAssumption DEF IsPending, InFlight, StatusInv, AtMostOneInFlight, Gens
          <6>2. IsLastKnownGood(prev[h]) /\ ptr = prev[h]
            BY <4>2, <6>1 DEF PointerInv, ChainInv
          <6> QED BY <5>1, <6>1, <6>2, GoodUnique
        <5> QED BY <5>2, <5>3
      <4> QED BY <4>1, <4>2
    <3>2. PointerAtPc'
      BY <2>2, <2>4, <3>1 DEF PointerAtPc
    <3> QED BY <2>2, <2>4, <3>2, KernelStep
  <2> QED BY <2>1, <2>3, <2>4 DEF StartReconcile
<1>24. CASE ExpiryTick
  <2>1. pc' = "recover" /\ UNCHANGED <<status, hash, prev, ptr, kernel>>
    BY <1>24 DEF ExpiryTick, StartRecovery
  <2> QED BY <2>1, KernelStep, Ended
<1>25. CASE StartBootRestore
  <2>1. /\ pc' = "boot_restore" /\ cur' = ptr
        /\ UNCHANGED <<status, hash, prev, ptr, kernel>>
    BY <1>25 DEF StartBootRestore
  <2>2. PointerAtPc'
    BY <2>1 DEF PointerAtPc
  <2> QED BY <2>1, <2>2, KernelStep
<1>26. CASE (\E g \in Gens : Expire(g)) \/ UNCHANGED vars
  <2>1. UNCHANGED <<status, hash, prev, ptr, kernel, pc, cur>>
    BY <1>26 DEF Expire, vars
  <2>2. PointerAtPc' /\ (pc \in {"health", "commit"} => hash[cur] = cur)
    BY <2>1 DEF PointerInv, PointerAtPc, HashInv
  <2> QED BY <2>1, <2>2, KernelStep
<1>27. CASE RestoreWithoutDatabase \/ Drift
  <2>1. /\ pc' = "free" /\ UNCHANGED <<status, hash, prev, ptr>>
        /\ kernel' \in {ptr, None, Foreign}
    BY <1>27 DEF RestoreWithoutDatabase, Drift
  <2>2. Foreign \notin Gens
    BY ConstantsAssumption DEF Foreign, Gens
  <2> QED BY <2>1, <2>2, KernelStep, Ended
<1>28. CASE Die \/ Reboot
  <2>1. pc' = "free" /\ UNCHANGED <<status, hash, prev, ptr>> /\ kernel' \in {kernel, None}
    BY <1>28 DEF Die, Reboot
  <2> QED BY <2>1, KernelStep, Ended
<1> QED
  BY <1>1, <1>2, <1>3, <1>4, <1>5, <1>6, <1>7, <1>8, <1>9, <1>10, <1>11, <1>12, <1>13, <1>14,
     <1>15, <1>16, <1>17, <1>18, <1>19, <1>20, <1>21, <1>22, <1>23, <1>24, <1>25, <1>26,
     <1>27, <1>28
     DEF Next, Step, ApplySteps, CommitSteps, RollbackSteps, RepairSteps, RecoverySteps,
         Environment

LEMMA PointerInvariant ==
    ASSUME ~PowerLoss
    PROVE  Spec => [](StatusInv /\ PointerInv)
<1>1. Init => PointerInv
  BY ConstantsAssumption DEF Init, PointerInv, ChainInv, HashInv, PointerAtPc, CandidateTracked,
     InFlight, InFlightStatus, IsLastKnownGood, Committed, Gens, None
<1>2. StatusInv /\ PointerInv /\ [Next]_vars => PointerInv'
  BY PointerStep
<1> QED BY <1>1, <1>2, StatusInvariant, PTL DEF Spec

\* Whoever recovers a candidate, and whenever, finds its predecessor to be the
\* last committed generation with its fingerprint, and the pointer on one of
\* the two: RecoverAtBoot and RollbackExpired have no ambiguous case to refuse.
THEOREM RecoveryNeverAmbiguous == ASSUME ~PowerLoss PROVE Spec => []RecoveryUnambiguous
<1>1. StatusInv /\ PointerInv => RecoveryUnambiguous
  <2> SUFFICES ASSUME StatusInv, PointerInv, NEW g \in InFlight
               PROVE  /\ IsLastKnownGood(prev[g])
                      /\ ptr = prev[g] \/ Published(g)
                      /\ prev[g] # None => hash[prev[g]] = prev[g]
    BY DEF RecoveryUnambiguous
  <2>1. IsLastKnownGood(prev[g]) /\ (ptr = prev[g] \/ Published(g))
    BY DEF PointerInv, ChainInv
  <2>2. prev[g] # None => status[prev[g]] = "committed" /\ prev[g] \in Gens
    BY <2>1 DEF IsLastKnownGood, Committed
  <2> QED BY <2>1, <2>2 DEF PointerInv, HashInv
<1> QED BY <1>1, PointerInvariant, PTL

\* When no candidate is being tried, early boot restores from the pointer the
\* generation that was committed last.
THEOREM PointerIsLatest == ASSUME ~PowerLoss PROVE Spec => []PointerIsLatestCommitted
<1>1. PointerInv => PointerIsLatestCommitted
  BY DEF PointerInv, ChainInv, PointerIsLatestCommitted
<1> QED BY <1>1, PointerInvariant, PTL

\* A generation's ruleset is in the kernel only while the pointer names it or
\* its row is in flight: no path forgets a candidate it has installed.
THEOREM KernelAccounted == ASSUME ~PowerLoss PROVE Spec => []CandidateTracked
<1>1. PointerInv => CandidateTracked
  BY DEF PointerInv
<1> QED BY <1>1, PointerInvariant, PTL

\* The one step that moves the pointer is the rename, to a newer generation.
LEMMA PointerMove ==
    ASSUME ~PowerLoss, StatusInv, PointerInv, [Next]_vars, ptr' # ptr
    PROVE  PublishPointer /\ ptr' = cur /\ pc = "rename"
<1>1. ~ClearActive
  BY DEF ClearActive, PointerInv, PointerAtPc
<1>2. PublishPointer
  BY <1>1 DEF Next, Step, ApplySteps, CommitSteps, RollbackSteps, RepairSteps, RecoverySteps,
     Operator, ReconcileTick, ExpiryTick, Environment, vars,
     SaveSnapshot, InsertRow, InstallCandidate, Reject, MarkApplied, Fingerprint, Health,
     FirstApplyFailed, Restore, RestoreFingerprint, RestoreMark, RestoreRuntime,
     PrepareCommit, CheckDeadline, SyncPointer, FinalizeCommit, RollbackLocked, RollbackMark,
     RepairInstall, RepairFingerprint, RecoverPending, RecoveryMark, BootRestore,
     StartApply, StartCommit, StartRollback, StartReconcile, StartRecovery, StartBootRestore,
     Expire, RestoreWithoutDatabase, Die, Reboot, Drift
<1> QED BY <1>2 DEF PublishPointer

\* No rollback, timer or boot recovery moves the pointer back.
THEOREM PointerForwardOnly == ASSUME ~PowerLoss PROVE Spec => PointerOnlyAdvances
<1>1. StatusInv /\ PointerInv /\ [Next]_vars => [ptr' # ptr => ptr' > ptr]_vars
  <2> SUFFICES ASSUME StatusInv, PointerInv, [Next]_vars, ptr' # ptr PROVE ptr' > ptr
    OBVIOUS
  <2>1. PublishPointer /\ ptr' = cur /\ pc = "rename"
    BY PointerMove
  <2>2. cur \in Gens /\ status[cur] = "commit_prepared" /\ ptr = prev[cur]
    BY <2>1 DEF StatusInv, StatusAtPc, TypeOK, PointerInv, PointerAtPc
  <2>3. cur \in InFlight
    BY <2>2 DEF InFlight, InFlightStatus
  <2>4. prev[cur] < cur /\ cur \in Int /\ prev[cur] \in Int
    BY <2>2, <2>3, ConstantsAssumption, CandidateFacts DEF Gens, None
  <2> QED BY <2>1, <2>2, <2>4
<1> QED BY <1>1, PointerInvariant, PTL DEF Spec, PointerOnlyAdvances

-----------------------------------------------------------------------------
(* The register: which steps move the abstract state, and how. *)

Used == {g \in Gens : status[g] # "absent"}

\* The candidate of the register is the candidate that is not published yet.
LEMMA CandidateIs ==
    ASSUME StatusInv
    PROVE  /\ InFlight = {} => Candidate = None
           /\ \A g \in InFlight : Candidate = IF Published(g) THEN None ELSE g
<1>1. ASSUME InFlight = {} PROVE Candidate = None
  BY <1>1 DEF Candidate, Undecided
<1>2. ASSUME NEW g \in InFlight PROVE Candidate = IF Published(g) THEN None ELSE g
  <2>1. InFlight = {g}
    BY DEF StatusInv, AtMostOneInFlight
  <2>2. Undecided = IF Published(g) THEN {} ELSE {g}
    BY <2>1 DEF Undecided
  <2> QED BY <2>2 DEF Candidate
<1> QED BY <1>1, <1>2

\* The same of the state after a step.
LEMMA CandidateBecomes ==
    ASSUME StatusInv'
    PROVE  /\ InFlight' = {} => Candidate' = None
           /\ \A g \in InFlight' :
                 Candidate' = IF status'[g] = "commit_prepared" /\ ptr' = g THEN None ELSE g
<1>1. ASSUME InFlight' = {} PROVE Candidate' = None
  BY <1>1 DEF Candidate, Undecided
<1>2. ASSUME NEW g \in InFlight'
      PROVE  Candidate' = IF status'[g] = "commit_prepared" /\ ptr' = g THEN None ELSE g
  <2>1. InFlight' = {g}
    BY DEF StatusInv, AtMostOneInFlight
  <2>2. Undecided' = IF status'[g] = "commit_prepared" /\ ptr' = g THEN {} ELSE {g}
    BY <2>1 DEF Undecided, Published
  <2> QED BY <2>2 DEF Candidate
<1> QED BY <1>1, <1>2

\* The steps that change a row or the pointer.
LEMMA DecisiveSteps ==
    ASSUME ~PowerLoss, StatusInv, PointerInv, [Next]_vars
    PROVE  \/ UNCHANGED <<status, ptr>>
           \/ InsertRow
           \/ PublishPointer
           \/ FinalizeCommit
           \/ /\ cur \in InFlight /\ ptr = prev[cur] /\ UNCHANGED ptr
              /\ \E s \in {"applied", "commit_prepared", "rolled_back"} :
                    status' = [status EXCEPT ![cur] = s]
<1>0. \A g \in Gens : status[g] \in InFlightStatus => g \in InFlight
  BY DEF InFlight
<1>1. pc # "free" => cur \in Gens
  BY DEF StatusInv, TypeOK
<1> DEFINE Deciding == {"reject", "mark_applied", "first_fail", "commit",
                        "restore_mark", "rb_mark", "rec_mark"}
<1>2. pc \in Deciding => cur \in InFlight /\ ptr = prev[cur]
  <2>1. pc \in Deciding => cur \in InFlight
    BY <1>0, <1>1 DEF StatusInv, StatusAtPc, InFlightStatus
  <2>2. pc \in {"restore_mark", "rb_mark", "rec_mark"} => ptr = prev[cur]
    BY DEF PointerInv, PointerAtPc
  <2>3. pc \in {"reject", "mark_applied", "first_fail", "commit"}
          => status[cur] # "commit_prepared"
    BY DEF StatusInv, StatusAtPc
  <2> QED BY <2>1, <2>2, <2>3, CandidateFacts
<1>3. CASE Reject \/ FirstApplyFailed \/ RestoreMark \/ RollbackMark
  BY <1>2, <1>3
     DEF Reject, FirstApplyFailed, RestoreMark, RollbackMark, MarkRolledBack, SetStatus
<1>4. CASE MarkApplied \/ PrepareCommit \/ RecoveryMark
  BY <1>2, <1>4 DEF MarkApplied, PrepareCommit, RecoveryMark, SetStatus
<1>5. CASE SaveSnapshot \/ InstallCandidate \/ Fingerprint \/ Health \/ Restore
           \/ RestoreFingerprint \/ RestoreRuntime
  BY <1>5 DEF SaveSnapshot, InstallCandidate, Fingerprint, Health, Restore,
     RestoreFingerprint, RestoreRuntime, rows
<1>6. CASE CheckDeadline \/ SyncPointer \/ RollbackLocked
           \/ RepairSteps \/ RecoverPending \/ BootRestore
  BY <1>6 DEF CheckDeadline, SyncPointer, RollbackLocked,
     RepairSteps, RepairInstall, RepairFingerprint, RecoverPending, BootRestore, rows
<1>7. CASE ClearActive
  BY <1>7 DEF ClearActive, PointerInv, PointerAtPc, rows
<1>8. CASE Operator \/ ReconcileTick \/ ExpiryTick \/ StartBootRestore \/ Environment
  BY <1>8 DEF Operator, StartApply, StartCommit, StartRollback, ReconcileTick,
     StartReconcile, ExpiryTick, StartRecovery, StartBootRestore, Environment, Expire,
     RestoreWithoutDatabase, Die, Reboot, Drift, rows
<1>9. CASE UNCHANGED vars
  BY <1>9 DEF vars, rows
<1> QED BY <1>3, <1>4, <1>5, <1>6, <1>7, <1>8, <1>9
        DEF Next, Step, ApplySteps, CommitSteps, RollbackSteps, RecoverySteps

\* Every step of the lifecycle is a step of the register or none.
LEMMA RegisterStep ==
    ASSUME ~PowerLoss, StatusInv, PointerInv, [Next]_vars
    PROVE  [Register!Next]_(Register!vars)
<1> SUFFICES \/ UNCHANGED <<ptr, Candidate, Used>>
             \/ \E g \in 1 .. MaxGen : Register!Propose(g)
             \/ Register!Accept
             \/ Register!Reject
  BY DEF Register!Next, Register!vars, Used
<1>s. StatusInv'
  BY StatusStep
<1>n. None \notin Gens
  BY ConstantsAssumption DEF Gens, None
<1>1. CASE UNCHANGED <<status, ptr>>
  <2>1. UNCHANGED <<Undecided, Used>>
    BY <1>1 DEF Undecided, InFlight, Published, Used
  <2> QED BY <1>1, <2>1 DEF Candidate
<1>2. CASE InsertRow
  <2>1. pc = "insert" /\ InFlight = {} /\ IsNextGeneration(cur) /\ cur \in Gens /\ UNCHANGED ptr
    BY <1>2 DEF InsertRow, StatusInv, StatusAtPc, TypeOK
  <2>2. CASE UNCHANGED status
    BY <1>1, <2>1, <2>2
  <2>3. CASE status' = [status EXCEPT ![cur] = "pending"]
    <3>1. \A g \in Gens : status'[g] = IF g = cur THEN "pending" ELSE status[g]
      BY <2>3 DEF StatusInv, TypeOK
    <3>2. Used' = Used \cup {cur} /\ \A h \in Used : h < cur
      BY <2>1, <3>1 DEF Used, IsNextGeneration
    <3>3. cur \in InFlight' /\ status'[cur] # "commit_prepared"
      BY <2>1, <3>1 DEF InFlight, InFlightStatus
    <3>4. Candidate = None /\ Candidate' = cur
      BY <1>s, <2>1, <3>3, CandidateIs, CandidateBecomes
    <3> QED BY <2>1, <3>2, <3>4 DEF Register!Propose, Used, Gens, None
  <2> QED BY <1>2, <2>2, <2>3 DEF InsertRow, rows
<1>3. CASE PublishPointer
  <2>1. /\ status[cur] = "commit_prepared" /\ ptr = prev[cur] /\ cur \in Gens
        /\ UNCHANGED status
    BY <1>3 DEF PublishPointer, rows, StatusInv, StatusAtPc, TypeOK, PointerInv, PointerAtPc
  <2>2. cur \in InFlight /\ InFlight' = InFlight
    BY <2>1, RowsKept DEF InFlight, InFlightStatus
  <2>3. ~Published(cur) /\ Used' = Used /\ cur # None
    BY <1>n, <2>1, <2>2, CandidateFacts, ConstantsAssumption DEF Published, Used, Gens, None
  <2>4. CASE UNCHANGED ptr
    BY <1>1, <2>1, <2>4
  <2>5. CASE ptr' = cur
    <3>1. Candidate = cur /\ Candidate' = None
      BY <1>s, <2>1, <2>2, <2>3, <2>5, CandidateIs, CandidateBecomes
    <3> QED BY <2>3, <2>5, <3>1 DEF Register!Accept, Used, None
  <2> QED BY <1>3, <2>4, <2>5 DEF PublishPointer
<1>4. CASE FinalizeCommit
  <2>1. /\ status[cur] = "commit_prepared" /\ ptr = cur /\ cur \in Gens /\ UNCHANGED ptr
    BY <1>4 DEF FinalizeCommit, StatusInv, StatusAtPc, TypeOK, PointerInv, PointerAtPc
  <2>0. cur \in InFlight /\ Published(cur)
    BY <2>1 DEF InFlight, InFlightStatus, Published
  <2>2. InFlight = {cur} /\ Candidate = None
    BY <2>0, CandidateFacts, CandidateIs
  <2>3. CASE UNCHANGED status
    BY <1>1, <2>1, <2>3
  <2>4. CASE status' = FinalizedRows
    <3>1. \A g \in Gens : status'[g] = IF g = cur THEN "committed" ELSE status[g]
      BY <2>2, <2>4 DEF FinalizedRows, InFlight, InFlightStatus
    <3>2. InFlight' = {} /\ Used' = Used
      BY <2>1, <2>2, <3>1 DEF InFlight, InFlightStatus, Used
    <3> QED BY <1>s, <2>1, <2>2, <3>2, CandidateIs, CandidateBecomes
  <2> QED BY <1>4, <2>3, <2>4 DEF FinalizeCommit
<1>5. ASSUME cur \in InFlight, ptr = prev[cur], UNCHANGED ptr,
             NEW s \in {"applied", "commit_prepared", "rolled_back"},
             status' = [status EXCEPT ![cur] = s]
      PROVE  UNCHANGED <<ptr, Candidate, Used>> \/ Register!Reject
  <2>1. /\ cur \in Gens /\ ptr # cur /\ cur # None /\ ~Published(cur)
        /\ status[cur] \in InFlightStatus
    BY <1>5, CandidateFacts, ConstantsAssumption DEF Published, Gens, None, InFlight
  <2>2. Used' = Used
    BY <1>5, <2>1 DEF Used, StatusInv, TypeOK, InFlightStatus
  <2>3. Candidate = cur
    BY <1>5, <2>1, CandidateIs
  <2>4. CASE s = "rolled_back"
    <3>1. InFlight' = {}
      BY <1>5, <2>4, RowChanged DEF Status, InFlightStatus
    <3>2. Candidate' = None
      BY <1>s, <3>1, CandidateIs, CandidateBecomes
    <3> QED BY <1>5, <2>1, <2>2, <2>3, <3>2 DEF Register!Reject, Used, None
  <2>5. CASE s # "rolled_back"
    <3>1. InFlight' = InFlight
      BY <1>5, <2>5, RowChanged DEF Status, InFlightStatus
    <3>2. Candidate' = cur
      BY <1>s, <1>5, <2>1, <3>1, CandidateIs, CandidateBecomes
    <3> QED BY <1>5, <2>2, <2>3, <3>2
  <2> QED BY <2>4, <2>5
<1> QED BY <1>1, <1>2, <1>3, <1>4, <1>5, DecisiveSteps

\* The lifecycle implements the register: through deaths, reboots, expiry and
\* failed steps each generation is accepted or rejected once and atomically,
\* by the rename or by its rollback.
THEOREM LifecycleIsRegister == ASSUME ~PowerLoss PROVE Spec => ImplementsRegister
<1>1. Init => Register!Init
  BY DEF Init, Register!Init, Candidate, Undecided, InFlight, InFlightStatus, None
<1>2. StatusInv /\ PointerInv /\ [Next]_vars => [Register!Next]_(Register!vars)
  BY RegisterStep
<1> QED BY <1>1, <1>2, PointerInvariant, PTL DEF Spec, ImplementsRegister, Register!Spec

=============================================================================
