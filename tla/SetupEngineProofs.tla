------------------------- MODULE SetupEngineProofs -------------------------
(***************************************************************************)
(* The safety of the managed setup, for any number of setups, failures,    *)
(* deaths and reboots.                                                     *)
(*                                                                         *)
(* The properties speak of the journal on the disk and of the host; none   *)
(* is inductive.  SetupInv adds what the code relies on without saying it: *)
(* which journals can be on the disk (Sound, Fitting), what a process has  *)
(* in memory next to what it has written, step by step (MemInv, StageInv), *)
(* which generation belongs to which transaction (CountInv, GenInv), what  *)
(* the journal says of the host (HostInv) and what a rollback has already  *)
(* undone if none of its steps failed (UndoneInv).  KeepInv adds that      *)
(* nothing committed is undone; it needs a daemon that looks at nftables   *)
(* before it answers.                                                      *)
(***************************************************************************)
EXTENDS SetupEngine, SequenceTheorems, TLAPS

\* The steps of a process: those of the setup, of the decision, of the rollback
\* and of the recovery of a committed setup.
Working  == {"enter", "run", "leave"}
Deciding == {"fail", "inspect", "decide"}
Undoing  == {"rb_tunnel", "rb_generation", "rb_stop", "rb_restore", "rb_guard", "rb_done"}
Redoing  == {"rec_handoff", "rec_boot", "rec_finalize", "rec_done", "rec_failed"}
Labels   == Working \cup Deciding \cup Undoing \cup Redoing
              \cup {"idle", "hold", "publish", "resume", "verify", "resumed", "complete"}
Running  == pc \notin {"idle", "hold"}

Closed == {"complete", "rolled_back", "rollback_reboot_required"}
GivenUp == {"rolled_back", "rollback_reboot_required"}
Ended == {"complete", "failed"}

\* What holds of every journal, on the disk or in memory.
Sound(j) ==
  /\ j.txn # 0
  /\ j.backup \in {"none", "prior"}
  /\ j.backup = "none" => j.phase \in {"inspect", "backup", "failed"} /\ j.gen = 0
  /\ j.phase = "inspect" => j.backup = "none"
  /\ j.gen # 0 => j.phase \in From("apply") \cup Ended /\ j.gen = Len(rows)
  /\ j.gen = 0 => j.phase \notin From("tunnel") \cup {"complete"}
  /\ j.committed =>
       j.phase \in From("commit") \cup Ended /\ j.gen # 0 /\ rows[j.gen] = "committed"
  /\ j.gen # 0 /\ rows[j.gen] = "committed" => j.phase \in From("commit") \cup Ended
  /\ j.phase \in From("handoff") => j.committed
  /\ j.phase = "complete" <=> j.status = "complete"
  /\ j.phase = "failed" <=> j.status \in GivenUp

\* The status fits the rest; a process that has just learnt of a commit has yet
\* to decide on one that does.
Fitting(j) ==
  /\ j.status = "complete" => j.committed
  /\ j.status \in {"rolled_back", "rolling_back", "rollback_failed", "commit_state_unknown"}
       => ~j.committed
  /\ j.status \in {"reboot_required", "resume_ready"} => j.phase = "boot_prepare"
  /\ j.status = "rollback_reboot_required" => j.backup # "none"
  /\ j.status \in {"recovering_committed", "committed_recovery_failed"} => j.committed
  /\ j.status = "commit_state_unknown" => j.gen # 0

\* The host as it was before the setup.
Clean == files = "prior" /\ boot = "prior" /\ ~hold /\ ~guard /\ ~tunnel

\* The journals on the disk.
DiskInv ==
  /\ journal # NoJournal => Sound(journal) /\ Fitting(journal)
  /\ \A j \in archive : j.backup \in {"none", "prior"}

\* What the process knows of the journal on the disk, step by step.
MemInv ==
  /\ ~Running => mem = NoJournal
  /\ Running => Sound(mem) /\ (pc # "decide" => Fitting(mem))
  /\ pc = "publish" =>
       /\ mem = Initial(journal.txn + 1) /\ journal.txn < MaxTxn
       /\ journal = NoJournal \/ Terminal(journal)
       /\ Clean /\ ~Committed
  /\ pc \in {"enter", "run", "verify", "complete"} \cup Undoing \cup Redoing
       => mem = journal
  /\ pc = "resume" =>
       RebootRequired(journal) /\ mem = [journal EXCEPT !.status = "resume_ready"]
  /\ pc = "resumed" =>
       RebootRequired(journal) /\ mem = [journal EXCEPT !.status = "running"]
  /\ pc = "leave" => journal.status = "running" /\ journal.phase = mem.phase
  /\ Running /\ pc # "publish" =>
       /\ mem.txn = journal.txn /\ journal.status \notin Closed
       /\ mem.backup = "none" => journal.backup = "none"
       /\ journal.committed => mem.committed
       /\ MayHaveTunnel(journal.phase) => MayHaveTunnel(mem.phase)
       /\ journal.phase \in From("apply") => mem.phase \in From("apply")
       /\ journal.gen # 0 => mem.gen = journal.gen

\* The step and the status it is taken under.
StageInv ==
  /\ pc \in Labels
  /\ pc \in Working \cup {"complete"} => mem.status = "running"
  /\ pc \in {"resume", "verify", "resumed"} => mem.phase = "boot_prepare"
  /\ pc \in {"resume", "verify"} => mem.status = "resume_ready"
  /\ pc = "resumed" => mem.status = "running"
  /\ pc = "complete" => mem.phase = "finalize"
  /\ pc \in Deciding => NeedsRecovery(mem) \/ mem.status = "reboot_required"
  /\ pc \in Undoing => mem.status = "rolling_back"
  /\ pc \in Redoing => mem.status = "recovering_committed"
  /\ pc = "enter" => mem.phase # "finalize"
  /\ pc \in {"run", "leave"} => mem.phase # "inspect"
  /\ pc \in {"enter", "leave"} =>
       /\ mem.phase = "backup" => mem.backup # "none"
       /\ mem.phase = "apply" => mem.gen # 0
       /\ mem.phase = "commit" => mem.committed
  /\ pc = "run" /\ mem.phase = "backup" => mem.backup = "none"
  /\ pc = "run" /\ mem.phase = "apply" => mem.gen = 0
  /\ pc \in Working /\ mem.gen # 0 /\ rows[mem.gen] = "pending" => policy = mem.gen
  /\ pc = "run" /\ mem.phase \in From("docker") => files = "managed"
  /\ pc \in {"enter", "leave"} /\ mem.phase \in From("install") => files = "managed"

\* Every transaction applies one generation at most.
CountInv ==
  /\ Len(rows) <= journal.txn
  /\ journal # NoJournal /\ journal.phase \notin From("apply") \cup Ended
       => Len(rows) < journal.txn
  /\ pc = "run" /\ mem.phase = "apply" => Len(rows) < journal.txn
  /\ policy <= Len(rows)

\* The journal and the generations.
GenInv ==
  /\ Committed => journal.backup = "prior"
  /\ Committed /\ journal.status # "rolled_back" =>
       journal.gen # 0 /\ rows[journal.gen] = "committed"
  /\ Committed /\ ~journal.committed /\ journal.status # "rolled_back"
       => ("nftfwd" \in active => policy = journal.gen)
  /\ enabled \cap {"early", "nftfwd", "vpn"} # {} =>
       journal.committed \/ (Committed /\ journal.status = "rolled_back")
  /\ journal.status \in GivenUp /\ journal.gen # 0 /\ ~journal.committed
       => rows[journal.gen] = "rolled_back" /\ policy # journal.gen

\* The journal and the host.
HostInv ==
  /\ journal.backup = "none" => Clean
  /\ tunnel \/ "vpn" \in enabled => MayHaveTunnel(journal.phase)
  /\ journal.status \in {"running", "reboot_required", "resume_ready"}
       /\ journal.phase \in {"inspect", "backup", "boot_prepare"}
       => files = "prior" /\ ~guard /\ ~tunnel
  /\ journal.status \in GivenUp /\ ~Committed => files = "prior" /\ ~guard /\ ~tunnel
  /\ journal.status = "rolled_back" /\ ~Committed => boot = "prior" /\ ~hold

\* What the rollback has done so far if no step of it has failed.
UndoneInv ==
  /\ pc \in Undoing \ {"rb_tunnel", "rb_done"} => ~BeforeProtectedMutation(mem)
  /\ pc \in Undoing \ {"rb_tunnel"} /\ ~broken => ~tunnel
  /\ pc \in Undoing \ {"rb_tunnel", "rb_generation"} /\ ~broken /\ mem.gen # 0
       => rows[mem.gen] = "rolled_back" /\ policy # mem.gen
  /\ pc \in {"rb_guard", "rb_done"} /\ ~broken => files = "prior" /\ boot = "prior" /\ ~hold
  /\ pc = "rb_done" /\ ~broken => ~guard

SetupInv ==
  /\ TypeOK /\ DiskInv
  /\ MemInv /\ StageInv /\ CountInv /\ GenInv /\ HostInv /\ UndoneInv

\* The daemon's answer decides: nothing committed is undone.
KeepInv ==
  /\ Committed => files = "managed"
  /\ journal.status \in {"rolling_back", "rollback_failed"} => ~Committed
  /\ Running /\ mem.status \in {"rolling_back", "rollback_failed"} => ~Committed
  /\ pc = "decide" /\ ~mem.committed => ~Committed

-----------------------------------------------------------------------------
(* The phases and the journals. *)

\* Index is the position in Order.
LEMMA Indices ==
  /\ Index("inspect") = 1 /\ Index("backup") = 2 /\ Index("boot_prepare") = 3
  /\ Index("guard") = 4 /\ Index("install") = 5 /\ Index("docker") = 6
  /\ Index("runtime") = 7 /\ Index("apply") = 8 /\ Index("tunnel") = 9
  /\ Index("validate") = 10 /\ Index("commit") = 11 /\ Index("handoff") = 12
  /\ Index("boot") = 13 /\ Index("finalize") = 14
<1>1. DOMAIN Order = 1 .. 14 /\ Len(Order) = 14
  BY DEF Order
<1>2. ASSUME NEW p, NEW n \in 1 .. 14, Order[n] = p, \A i \in 1 .. 14 : Order[i] = p
        => i = n
      PROVE  Index(p) = n
  BY <1>1, <1>2 DEF Index
<1> QED
  BY <1>1, <1>2 DEF Order, Index

\* The sets of phases, element by element.
LEMMA PhaseSets ==
  /\ From("handoff") = {"handoff", "boot", "finalize"}
  /\ From("commit") = {"commit"} \cup From("handoff")
  /\ From("tunnel") = {"tunnel", "validate"} \cup From("commit")
  /\ From("apply") = {"apply"} \cup From("tunnel")
  /\ From("docker") = {"docker", "runtime"} \cup From("apply")
  /\ From("install") = {"install"} \cup From("docker")
  /\ From("guard") = {"guard"} \cup From("install")
  /\ From("inspect") = {"inspect", "backup", "boot_prepare"} \cup From("guard")
<1>1. DOMAIN Order = 1 .. 14 /\ Len(Order) = 14
  BY DEF Order
<1> QED
  BY <1>1, Indices DEF From, Order

\* What follows each phase.
LEMMA NextPhase ==
  /\ Following("inspect") = "backup" /\ Following("backup") = "boot_prepare"
  /\ Following("boot_prepare") = "guard" /\ Following("guard") = "install"
  /\ Following("install") = "docker" /\ Following("docker") = "runtime"
  /\ Following("runtime") = "apply" /\ Following("apply") = "tunnel"
  /\ Following("tunnel") = "validate" /\ Following("validate") = "commit"
  /\ Following("commit") = "handoff" /\ Following("handoff") = "boot"
  /\ Following("boot") = "finalize"
<1>1. DOMAIN Order = 1 .. 14 /\ Len(Order) = 14
  BY DEF Order
<1> QED
  BY <1>1, Indices DEF Following, Order

\* Where the next phase stands.
LEMMA Advance ==
  ASSUME NEW p \in From("inspect"), p # "finalize"
  PROVE  /\ Following(p) \in From("inspect")
              /\ Following(p) \notin {"inspect", "complete", "failed"}
         /\ Following(p) = "backup" <=> p = "inspect"
         /\ Following(p) = "boot_prepare" <=> p = "backup"
         /\ Following(p) = "apply" <=> p = "runtime"
         /\ Following(p) \in From("guard") <=> p \in From("guard") \cup {"boot_prepare"}
         /\ Following(p) \in From("docker") <=> p \in From("install")
         /\ Following(p) \in From("apply") <=> p \in From("apply") \cup {"runtime"}
         /\ Following(p) \in From("tunnel") <=> p \in From("apply")
         /\ Following(p) \in From("commit") <=> p \in From("commit") \cup {"validate"}
         /\ Following(p) \in From("handoff") <=> p \in From("commit")
BY PhaseSets, NextPhase

\* The first journal of a transaction.
LEMMA InitialIs ==
  ASSUME NEW t
  PROVE  /\ Initial(t).txn = t /\ Initial(t).phase = "inspect"
              /\ Initial(t).status = "running"
         /\ Initial(t).gen = 0 /\ Initial(t).committed = FALSE /\ Initial(t).backup = "none"
BY DEF Initial, NoJournal

\* validateSetupWatchdogJournal accepts such a journal.
LEMMA SoundAccepted ==
  ASSUME NEW j \in Journals, Sound(j), Fitting(j)
  PROVE  Accepted(j)
<1> USE PhaseSets DEF Accepted, Sound, Fitting, Ended, GivenUp, NeedsRecovery
<1>0. j.phase \in From("inspect") \cup Ended /\ j.status \in Statuses
  BY DEF Journals, Phases
<1>1. j.committed => j.gen # 0
  OBVIOUS
<1>2. CASE j.status = "running"
  BY <1>0, <1>1, <1>2
<1>3. CASE j.status = "complete"
  BY <1>0, <1>1, <1>3
<1>4. CASE j.status = "rolled_back"
  BY <1>0, <1>1, <1>4
<1>5. CASE j.status = "reboot_required"
  BY <1>0, <1>1, <1>5
<1>6. CASE j.status = "resume_ready"
  BY <1>0, <1>1, <1>6
<1>7. CASE j.status = "rollback_reboot_required"
  BY <1>0, <1>1, <1>7
<1>8. CASE j.status = "rolling_back"
  BY <1>0, <1>1, <1>8
<1>9. CASE j.status = "rollback_failed"
  BY <1>0, <1>1, <1>9
<1>10. CASE j.status = "recovering_committed"
  BY <1>0, <1>1, <1>10
<1>11. CASE j.status = "committed_recovery_failed"
  BY <1>0, <1>1, <1>11
<1>12. CASE j.status = "commit_state_unknown"
  BY <1>0, <1>1, <1>12
<1> QED
  BY <1>0, <1>2, <1>3, <1>4, <1>5, <1>6, <1>7, <1>8, <1>9, <1>10, <1>11, <1>12 DEF Statuses

-----------------------------------------------------------------------------
(* Types. *)

\* The journals that the code builds are journals.
LEMMA JournalTypes ==
  /\ NoJournal \in Journals
  /\ \A t \in 1 .. MaxTxn : Initial(t) \in Journals
  /\ \A j \in Journals : \A s \in Statuses : \A p \in Phases :
       /\ [j EXCEPT !.status = s] \in Journals /\ [j EXCEPT !.phase = p] \in Journals
       /\ [j EXCEPT !.phase = p, !.status = s] \in Journals
       /\ [j EXCEPT !.phase = p, !.status = s, !.committed = FALSE, !.gen = 0] \in Journals
       /\ \A g \in 0 .. MaxTxn : [j EXCEPT !.status = s, !.committed = FALSE,
            !.gen = g] \in Journals
  /\ \A j \in Journals : \A b \in Contents : [j EXCEPT !.backup = b] \in Journals
  /\ \A j \in Journals : \A g \in 0 .. MaxTxn : [j EXCEPT !.gen = g] \in Journals
  /\ \A j \in Journals : \A c \in BOOLEAN : [j EXCEPT !.committed = c] \in Journals
<1>1. "inspect" \in Phases /\ {"complete", "running"} \subseteq Statuses
        /\ 0 \in 0 .. MaxTxn
  BY PhaseSets, SetupConstants DEF Phases, Statuses
<1>2. NoJournal \in Journals
  BY <1>1 DEF NoJournal, Journals
<1>3. \A t \in 1 .. MaxTxn : Initial(t) \in Journals
  <2> SUFFICES ASSUME NEW t \in 1 .. MaxTxn PROVE Initial(t) \in Journals
    OBVIOUS
  <2>1. t \in 0 .. MaxTxn
    BY SetupConstants
  <2> QED
    BY <1>1, <1>2, <2>1 DEF Journals, Initial
<1>4. ASSUME NEW j \in Journals, NEW s \in Statuses, NEW p \in Phases
      PROVE  /\ [j EXCEPT !.status = s] \in Journals /\ [j EXCEPT !.phase = p] \in Journals
             /\ [j EXCEPT !.phase = p, !.status = s] \in Journals
             /\ [j EXCEPT !.phase = p, !.status = s, !.committed = FALSE,
                  !.gen = 0] \in Journals
             /\ \A g \in 0 .. MaxTxn : [j EXCEPT !.status = s, !.committed = FALSE,
                  !.gen = g] \in Journals
  BY <1>1 DEF Journals
<1>5. ASSUME NEW j \in Journals,
        NEW b \in Contents PROVE [j EXCEPT !.backup = b] \in Journals
  BY DEF Journals
<1>6. ASSUME NEW j \in Journals,
        NEW g \in 0 .. MaxTxn PROVE [j EXCEPT !.gen = g] \in Journals
  BY DEF Journals
<1>7. ASSUME NEW j \in Journals,
        NEW c \in BOOLEAN PROVE [j EXCEPT !.committed = c] \in Journals
  BY DEF Journals
<1> QED
  BY <1>2, <1>3, <1>4, <1>5, <1>6, <1>7

\* The counters stay within their bounds.
LEMMA CounterStep ==
  ASSUME TypeOK, [Next]_vars
  PROVE  faults' \in 0 .. MaxFaults /\ boots' \in 0 .. MaxBoots /\ seen' \in 0 .. MaxTxn
<1> USE DEF vars, Next, Proceed, StartFirst, StartAgain, StartResume, PublishInitial,
            WaitBootHold, Resume, VerifyBootResume, Resumed, Enter, Leave, Complete, Backup,
            PrepareBoot, StartGuard, Install, ConfigureDocker, StartRuntime, ApplySafe,
            StartTunnel, Validate, Commit, AfterCommit, Fail, Inspect, Decide,
            RecoverCommitted, Recovered, RollbackTunnel, RollbackGeneration, RollbackStop,
            RollbackRestore, RollbackGuard, RolledBack, RollbackCommand,
            FinalizeBootRollback, BootHandoff, WatchdogRead, WatchdogLock, Expire,
            CandidateExpires, Crash, Reboot, Goto, Return, Written, Unwritten, Record,
            RecordLast, Runs, Succeeds, Fails, procVars, hostVars, genVars, Up, Down,
            FailsOn, RestoreBackup, PublishFinalDependencies, EnableBoot, Finalize, TakeOver
<1>1. faults' = faults \/ Fault
  OBVIOUS
<1>2. boots' = boots \/ (boots < MaxBoots /\ boots' = boots + 1)
  OBVIOUS
<1>3. seen' \in {seen, 0, journal.txn}
  OBVIOUS
<1>4. 0 \in 0 .. MaxTxn /\ journal.txn \in 0 .. MaxTxn
  BY SetupConstants DEF TypeOK, Journals
<1> QED
  BY <1>1, <1>2, <1>3, <1>4, SetupConstants DEF TypeOK, Fault

\* The switches stay Boolean.
LEMMA SwitchStep ==
  ASSUME TypeOK, [Next]_vars
  PROVE  /\ late' \in BOOLEAN /\ broken' \in BOOLEAN /\ guard' \in BOOLEAN
              /\ tunnel' \in BOOLEAN
         /\ hold' \in BOOLEAN /\ database' \in BOOLEAN
<1> USE DEF TypeOK, vars, Next, Proceed, StartFirst, StartAgain, StartResume,
            PublishInitial, WaitBootHold, Resume, VerifyBootResume, Resumed, Enter, Leave,
            Complete, Backup, PrepareBoot, StartGuard, Install, ConfigureDocker,
            StartRuntime, ApplySafe, StartTunnel, Validate, Commit, AfterCommit, Fail,
            Inspect, Decide, RecoverCommitted, Recovered, RollbackTunnel,
            RollbackGeneration, RollbackStop, RollbackRestore, RollbackGuard, RolledBack,
            RollbackCommand, FinalizeBootRollback, BootHandoff, WatchdogRead, WatchdogLock,
            Expire, CandidateExpires, Crash, Reboot, Goto, Return, Written, Unwritten,
            Record, RecordLast, Runs, Succeeds, Fails, procVars, hostVars, genVars, Up,
            Down, FailsOn, RestoreBackup, PublishFinalDependencies, EnableBoot, Finalize,
            TakeOver
<1>1. late' \in BOOLEAN
  BY Zenon
<1>2. broken' \in BOOLEAN
  BY Zenon
<1>3. guard' \in BOOLEAN
  BY Zenon
<1>4. tunnel' \in BOOLEAN
  <2>1. tunnel' = tunnel \/ tunnel' \in BOOLEAN \/ Reboot
    BY Zenon DEF Next, Proceed
  <2>2. Reboot => tunnel' = ("vpn" \in enabled)
    BY Zenon
  <2>3. ("vpn" \in enabled) \in BOOLEAN
    OBVIOUS
  <2> HIDE DEF Reboot
  <2> QED
    BY <2>1, <2>2, <2>3, Zenon
<1>5. hold' \in BOOLEAN
  BY Zenon
<1>6. database' \in BOOLEAN
  BY Zenon
<1> QED
  BY <1>1, <1>2, <1>3, <1>4, <1>5, <1>6

\* A rollback that reaches the files has a backup of the host as it was.
LEMMA RestoresPrior ==
  ASSUME SetupInv, pc \in Undoing \ {"rb_tunnel", "rb_done"}
  PROVE  mem.backup = "prior" /\ mem.status = "rolling_back" /\ ~mem.committed
<1>1. Running /\ Sound(mem) /\ Fitting(mem) /\ mem.status = "rolling_back"
        /\ ~BeforeProtectedMutation(mem)
  BY DEF SetupInv, MemInv, StageInv, UndoneInv, Running, Undoing
<1> QED
  BY <1>1 DEF Sound, Fitting, BeforeProtectedMutation, GivenUp

\* The files, the boot loader and the units stay in their sets.
LEMMA HostTypeStep ==
  ASSUME SetupInv, [Next]_vars
  PROVE  /\ files' \in Contents /\ boot' \in Contents /\ kernel' \in {"prior", "managed"}
         /\ enabled' \subseteq Units /\ active' \subseteq Units
<1> USE DEF vars, Next, Proceed, StartFirst, StartAgain, StartResume, PublishInitial,
            WaitBootHold, Resume, VerifyBootResume, Resumed, Enter, Leave, Complete, Backup,
            PrepareBoot, StartGuard, Install, ConfigureDocker, StartRuntime, ApplySafe,
            StartTunnel, Validate, Commit, AfterCommit, Fail, Inspect, Decide,
            RecoverCommitted, Recovered, RollbackTunnel, RollbackGeneration, RollbackStop,
            RollbackRestore, RollbackGuard, RolledBack, RollbackCommand,
            FinalizeBootRollback, BootHandoff, WatchdogRead, WatchdogLock, Expire,
            CandidateExpires, Crash, Reboot, Goto, Return, Written, Unwritten, Record,
            RecordLast, Runs, Succeeds, Fails, procVars, hostVars, genVars, Up, Down,
            FailsOn, RestoreBackup, PublishFinalDependencies, EnableBoot, Finalize,
            TakeOver, Start, Enable
<1>0. TypeOK
  BY DEF SetupInv
<1>1. files' \in {files, "mixed", "managed"} \/ (pc = "rb_restore" /\ files' = mem.backup)
  OBVIOUS
<1>2. boot' \in {boot, "mixed", "managed", "prior"} \/ (pc = "rb_restore"
        /\ boot' = mem.backup)
  OBVIOUS
<1>3. kernel' \in {kernel, boot, "prior", "managed"} /\ (boot = "mixed"
        => kernel' \in {kernel, "prior", "managed"})
  OBVIOUS
<1>4. enabled' \subseteq enabled \cup {"watchdog", "gentimer", "nftfwd", "early", "vpn"}
  OBVIOUS
<1>5. active' \subseteq active \cup enabled \cup {"watchdog", "gentimer", "nftfwd", "early",
        "vpn"}
  OBVIOUS
<1>6. pc = "rb_restore" => mem.backup = "prior"
  BY RestoresPrior DEF Undoing
<1> QED
  BY <1>0, <1>1, <1>2, <1>3, <1>4, <1>5, <1>6 DEF TypeOK, Contents, Units

\* The generations stay a sequence, with at most one for each transaction.
LEMMA RowsStep ==
  ASSUME SetupInv, [Next]_vars
  PROVE  /\ rows' \in Seq({"pending", "rolled_back", "committed"}) /\ Len(rows') <= MaxTxn
         /\ policy' \in 0 .. MaxTxn /\ policy' <= Len(rows')
<1>0. /\ TypeOK /\ Len(rows) \in Nat /\ Len(rows) <= MaxTxn /\ MaxTxn \in Nat
           /\ journal.txn \in 0 .. MaxTxn
      /\ policy <= Len(rows)
  BY SetupConstants DEF SetupInv, CountInv, TypeOK, Journals
<1>1. CASE ApplySafe
  <2>1. Len(rows) < MaxTxn
    BY <1>0, <1>1 DEF ApplySafe, Runs, SetupInv, CountInv
  <2>2. /\ rows' = rows \/ (\E r \in {"pending", "rolled_back"} : rows' = Append(rows, r))
        /\ policy' = policy \/ (policy' = Len(rows) + 1 /\ rows' = Append(rows, "pending"))
    BY <1>1 DEF ApplySafe
  <2> QED
    BY <1>0, <2>1, <2>2 DEF TypeOK
<1>2. CASE Reboot
  <2>1. rows' = rows
    BY <1>2 DEF Reboot
  <2>2. \E g \in 0 .. Len(rows) : IF g = 0 THEN \A h \in DOMAIN rows : rows[h] # "committed"
                                            ELSE rows[g] = "committed"
    <3>1. CASE \A h \in DOMAIN rows : rows[h] # "committed"
      BY <1>0, <3>1
    <3>2. ASSUME NEW h \in DOMAIN rows, rows[h] = "committed"
          PROVE  h \in 0 .. Len(rows) /\ h # 0
      BY <1>0, <3>2 DEF TypeOK
    <3> QED
      BY <3>1, <3>2
  <2>3. policy' \in 0 .. Len(rows)
    BY <1>0, <1>2, <2>2 DEF Reboot
  <2> QED
    BY <1>0, <2>1, <2>3 DEF TypeOK
<1>3. CASE UNCHANGED <<rows, policy>>
  BY <1>0, <1>3 DEF TypeOK
<1>4. ASSUME NEW g \in 1 .. Len(rows), NEW r \in {"rolled_back", "committed"},
        rows' = [rows EXCEPT ![g] = r], policy' \in {policy, 0}
      PROVE  /\ rows' \in Seq({"pending", "rolled_back", "committed"})
                  /\ Len(rows') = Len(rows)
             /\ policy' \in 0 .. MaxTxn /\ policy' <= Len(rows)
  <2>1. rows \in Seq({"pending", "rolled_back", "committed"})
    BY <1>0 DEF TypeOK
  <2>2. rows' \in Seq({"pending", "rolled_back", "committed"}) /\ Len(rows') = Len(rows)
    BY <1>4, <2>1, ExceptSeq
  <2> QED
    BY <1>0, <1>4, <2>2 DEF TypeOK
<1>5. \/ ApplySafe \/ Reboot \/ UNCHANGED <<rows, policy>>
      \/ \E r \in {"rolled_back", "committed"} : \E g \in 1 .. Len(rows) :
           rows' = [rows EXCEPT ![g] = r] /\ policy' \in {policy, 0}
  <2>1. Commit => mem.gen # 0
    BY PhaseSets DEF Commit, Runs, SetupInv, MemInv, Running, Sound
  <2>2. pc \notin {"idle", "hold"} /\ mem.gen # 0 => mem.gen \in 1 .. Len(rows)
    BY <1>0 DEF SetupInv, MemInv, Running, Sound, TypeOK, Journals
  <2>3. DOMAIN rows = 1 .. Len(rows)
    BY <1>0 DEF TypeOK
  <2> USE DEF vars, StartFirst, StartAgain, StartResume, PublishInitial, WaitBootHold,
            Resume, VerifyBootResume, Resumed, Enter, Leave, Complete, Backup, PrepareBoot,
            StartGuard, Install, ConfigureDocker, StartRuntime, StartTunnel, Validate,
            Commit, AfterCommit, Fail, Inspect, Decide, RecoverCommitted, Recovered,
            RollbackTunnel, RollbackGeneration, RollbackStop, RollbackRestore,
            RollbackGuard, RolledBack, RollbackCommand, FinalizeBootRollback, BootHandoff,
            WatchdogRead, WatchdogLock, Expire, CandidateExpires, Crash, Goto, Return,
            Written, Unwritten, Record, RecordLast, Runs, Succeeds, Fails, procVars,
            hostVars, genVars, Up, Down, FailsOn, RestoreBackup, PublishFinalDependencies,
            EnableBoot, Finalize, TakeOver
  <2> QED
    BY <2>1, <2>2, <2>3 DEF Next, Proceed
<1> QED
  BY <1>0, <1>1, <1>2, <1>3, <1>4, <1>5

\* The journals on the disk, in memory and in the history stay journals.
LEMMA RecordStep ==
  ASSUME SetupInv, [Next]_vars
  PROVE  journal' \in Journals /\ mem' \in Journals /\ archive' \subseteq Journals
<1>0. /\ journal \in Journals /\ mem \in Journals /\ archive \subseteq Journals
      /\ mem.committed \in BOOLEAN /\ mem.phase \in Phases /\ journal.txn \in 0 .. MaxTxn
      /\ MaxTxn \in Nat /\ 1 \in 1 .. MaxTxn
      /\ Len(rows) \in Nat
  BY SetupConstants DEF SetupInv, TypeOK, Journals
<1>1. Statuses = Statuses /\ {"complete", "failed"} \subseteq Phases
  BY DEF Phases
<1>2. pc = "enter" => Following(mem.phase) \in Phases
  BY <1>0, PhaseSets, NextPhase DEF SetupInv, StageInv, MemInv, Phases, Running, Working,
    Sound, Closed, GivenUp
<1>3. Runs("apply") => Len(rows) + 1 \in 0 .. MaxTxn
  BY <1>0 DEF SetupInv, CountInv, Runs
<1>4. Present \in Contents
  BY DEF Present, SetupInv, TypeOK, Contents
<1>5. \A c \in GenerationCommitted(mem.gen) : c \in BOOLEAN
  BY DEF GenerationCommitted
<1>7. (IF journal.committed THEN 0 ELSE journal.gen) \in 0 .. MaxTxn
  BY <1>0 DEF Journals
<1>6. StartAgain => journal.txn + 1 \in 1 .. MaxTxn
  BY <1>0 DEF StartAgain
<1> USE <1>0, <1>1, JournalTypes DEF Goto, Return, Written, Unwritten, Record, RecordLast,
            Runs, Succeeds, Fails, Start, Enable, Prepared, RunningManaged, procVars,
            hostVars, genVars, Statuses
<1>11. CASE StartFirst
  BY <1>11 DEF StartFirst
<1>12. CASE StartAgain
  BY <1>12, <1>6 DEF StartAgain, Lineage
<1>13. CASE StartResume
  BY <1>13 DEF StartResume
<1>14. CASE PublishInitial
  BY <1>14 DEF PublishInitial
<1>15. CASE WaitBootHold
  BY <1>15 DEF WaitBootHold
<1>16. CASE Resume
  BY <1>16 DEF Resume
<1>17. CASE VerifyBootResume
  BY <1>17 DEF VerifyBootResume
<1>18. CASE Resumed
  BY <1>18 DEF Resumed
<1>19. CASE Enter
  BY <1>19, <1>2 DEF Enter
<1>20. CASE Leave
  BY <1>20 DEF Leave
<1>21. CASE Complete
  BY <1>21 DEF Complete
<1>22. CASE Backup
  BY <1>22, <1>4 DEF Backup
<1>23. CASE PrepareBoot
  BY <1>23 DEF PrepareBoot
<1>24. CASE StartGuard
  BY <1>24 DEF StartGuard
<1>25. CASE Install
  BY <1>25 DEF Install
<1>26. CASE ConfigureDocker
  BY <1>26 DEF ConfigureDocker
<1>27. CASE StartRuntime
  BY <1>27 DEF StartRuntime
<1>28. CASE ApplySafe
  BY <1>28, <1>3 DEF ApplySafe
<1>29. CASE StartTunnel
  BY <1>29 DEF StartTunnel, Up
<1>30. CASE Validate
  BY <1>30 DEF Validate
<1>31. CASE Commit
  BY <1>31 DEF Commit
<1>32. CASE AfterCommit
  BY <1>32 DEF AfterCommit
<1>33. CASE Fail
  BY <1>33 DEF Fail
<1>34. CASE Inspect
  BY <1>34, <1>5 DEF Inspect
<1>35. CASE Decide
  BY <1>35 DEF Decide
<1>36. CASE RecoverCommitted
  BY <1>36 DEF RecoverCommitted
<1>37. CASE Recovered
  BY <1>37 DEF Recovered
<1>38. CASE RollbackTunnel
  BY <1>38 DEF RollbackTunnel
<1>39. CASE RollbackGeneration
  BY <1>39 DEF RollbackGeneration
<1>40. CASE RollbackStop
  BY <1>40 DEF RollbackStop
<1>41. CASE RollbackRestore
  BY <1>41 DEF RollbackRestore
<1>42. CASE RollbackGuard
  BY <1>42 DEF RollbackGuard
<1>43. CASE RolledBack
  BY <1>43 DEF RolledBack
<1>44. CASE RollbackCommand
  BY <1>44 DEF RollbackCommand, TakeOver
<1>45. CASE FinalizeBootRollback
  BY <1>45, <1>7 DEF FinalizeBootRollback
<1>46. CASE BootHandoff
  BY <1>46 DEF BootHandoff
<1>47. CASE WatchdogRead
  BY <1>47 DEF WatchdogRead
<1>48. CASE WatchdogLock
  BY <1>48 DEF WatchdogLock, TakeOver
<1>49. CASE Expire
  BY <1>49 DEF Expire
<1>50. CASE CandidateExpires
  BY <1>50 DEF CandidateExpires
<1>51. CASE Crash
  BY <1>51 DEF Crash
<1>52. CASE Reboot
  BY <1>52 DEF Reboot
<1>53. CASE UNCHANGED vars
  BY <1>53 DEF vars
<1> QED
  BY <1>11, <1>12, <1>13, <1>14, <1>15, <1>16, <1>17, <1>18, <1>19, <1>20, <1>21, <1>22,
     <1>23, <1>24, <1>25, <1>26, <1>27, <1>28, <1>29, <1>30, <1>31, <1>32, <1>33, <1>34,
     <1>35, <1>36, <1>37, <1>38, <1>39, <1>40, <1>41, <1>42, <1>43, <1>44, <1>45, <1>46,
     <1>47, <1>48, <1>49, <1>50, <1>51, <1>52, <1>53 DEF Next, Proceed

-----------------------------------------------------------------------------
(* The conjuncts of the invariant. *)

\* A write that leaves a sound journal.
LEMMA Rewritten ==
  ASSUME DiskInv, UNCHANGED <<rows, archive>>,
         NEW j, Sound(j), Fitting(j), journal' \in {journal, j}
  PROVE  DiskInv'
BY DEF DiskInv, Sound, Fitting

\* Every write leaves a journal that fits the rows, and the history keeps the
\* backups it has.
LEMMA DiskStep ==
  ASSUME SetupInv, [Next]_vars
  PROVE  DiskInv'
<1> USE PhaseSets, NextPhase DEF Fault, Goto, Return, Written, Unwritten, Record,
            RecordLast, Runs, Succeeds, Fails, Start, Enable, Prepared, RunningManaged,
            procVars, hostVars, genVars, SetupInv, TypeOK, DiskInv, MemInv, StageInv,
            UndoneInv, Journals, Sound, Fitting, NoJournal, Initial, Terminal,
            BeforeProtectedMutation, NeedsRecovery, RebootRequired, Working, Deciding,
            Undoing, Redoing, Labels, Running, Closed, GivenUp, Ended
<1>1. CASE StartFirst
  BY <1>1 DEF StartFirst
<1>2. CASE StartAgain
  BY <1>2 DEF StartAgain, Retired, Restored, GenerationsRetired, Lineage, Terminal
<1>3. CASE StartResume
  BY <1>3 DEF StartResume, ResumeReady, RebootRequired
<1>4. CASE PublishInitial
  <2> DEFINE j == mem
  <2>1. DiskInv /\ UNCHANGED <<rows, archive>> /\ journal' \in {journal, j}
    BY <1>4 DEF PublishInitial
  <2>3. Sound(j) /\ Fitting(j)
    BY <1>4 DEF PublishInitial
  <2> HIDE DEF DiskInv, Sound, Fitting, j
  <2> QED
    BY <2>1, <2>3, Rewritten
<1>5. CASE WaitBootHold
  BY <1>5 DEF WaitBootHold, ResumeReady, RebootRequired
<1>6. CASE Resume
  <2> DEFINE j == mem
  <2>1. DiskInv /\ UNCHANGED <<rows, archive>> /\ journal' \in {journal, j}
    BY <1>6 DEF Resume
  <2>3. Sound(j) /\ Fitting(j)
    BY <1>6 DEF Resume
  <2> HIDE DEF DiskInv, Sound, Fitting, j
  <2> QED
    BY <2>1, <2>3, Rewritten
<1>7. CASE VerifyBootResume
  BY <1>7 DEF VerifyBootResume
<1>8. CASE Resumed
  BY <1>8 DEF Resumed
<1>9. CASE Enter
  <2> DEFINE j == [mem EXCEPT !.phase = Following(mem.phase)]
  <2>1. DiskInv /\ UNCHANGED <<rows, archive>> /\ journal' \in {journal, j}
    BY <1>9 DEF Enter, Steps
  <2>2. mem.phase \in From("inspect") /\ mem.phase # "finalize"
    BY <1>9 DEF Enter, Phases
  <2>3. Sound(j) /\ Fitting(j)
    BY <1>9, <2>2 DEF Enter
  <2> HIDE DEF DiskInv, Sound, Fitting, j
  <2> QED
    BY <2>1, <2>3, Rewritten
<1>10. CASE Leave
  BY <1>10 DEF Leave
<1>11. CASE Complete
  <2> DEFINE j == [mem EXCEPT !.phase = "complete", !.status = "complete"]
  <2>1. DiskInv /\ UNCHANGED <<rows, archive>> /\ journal' \in {journal, j}
    BY <1>11 DEF Complete
  <2>3. Sound(j) /\ Fitting(j)
    BY <1>11 DEF Complete
  <2> HIDE DEF DiskInv, Sound, Fitting, j
  <2> QED
    BY <2>1, <2>3, Rewritten
<1>12. CASE Backup
  BY <1>12 DEF Backup, Present
<1>13. CASE PrepareBoot
  BY <1>13 DEF PrepareBoot
<1>14. CASE StartGuard
  BY <1>14 DEF StartGuard
<1>15. CASE Install
  BY <1>15 DEF Install
<1>16. CASE ConfigureDocker
  BY <1>16 DEF ConfigureDocker
<1>17. CASE StartRuntime
  BY <1>17 DEF StartRuntime
<1>18. CASE ApplySafe
  BY <1>18 DEF ApplySafe
<1>19. CASE StartTunnel
  BY <1>19 DEF StartTunnel, Up
<1>20. CASE Validate
  BY <1>20 DEF Validate
<1>21. CASE Commit
  BY <1>21 DEF Commit, CanCommit
<1>22. CASE AfterCommit
  BY <1>22 DEF AfterCommit, PublishFinalDependencies, EnableBoot, Finalize
<1>23. CASE Fail
  <2> DEFINE j == [mem EXCEPT !.phase = "failed", !.status = "rolled_back"]
  <2>1. CASE UNCHANGED journal
    BY <1>23, <2>1 DEF Fail
  <2>2. CASE BeforeProtectedMutation(mem)
    <3>1. DiskInv /\ UNCHANGED <<rows, archive>> /\ journal' \in {journal, j}
      BY <1>23, <2>2 DEF Fail
    <3>2. Sound(j) /\ Fitting(j)
      BY <1>23, <2>2 DEF Fail
    <3> HIDE DEF DiskInv, Sound, Fitting, j
    <3> QED
      BY <3>1, <3>2, Rewritten
  <2> QED
    BY <1>23, <2>1, <2>2 DEF Fail
<1>24. CASE Inspect
  <2> DEFINE j == [mem EXCEPT !.status = "commit_state_unknown"]
  <2>1. CASE UNCHANGED journal
    BY <1>24, <2>1 DEF Inspect
  <2>2. CASE Undecided(mem)
    <3>1. DiskInv /\ UNCHANGED <<rows, archive>> /\ journal' \in {journal, j}
      BY <1>24, <2>2 DEF Inspect
    <3>2. Sound(j) /\ Fitting(j)
      BY <1>24, <2>2 DEF Inspect, Undecided
    <3> HIDE DEF DiskInv, Sound, Fitting, j
    <3> QED
      BY <3>1, <3>2, Rewritten
  <2> QED
    BY <1>24, <2>1, <2>2 DEF Inspect
<1>25. CASE Decide
  BY <1>25 DEF Decide
<1>26. CASE RecoverCommitted
  BY <1>26 DEF RecoverCommitted, PublishFinalDependencies, EnableBoot, Finalize
<1>27. CASE Recovered
  <2> DEFINE j == IF pc = "rec_done"
                    THEN [mem EXCEPT !.phase = "complete", !.status = "complete"]
                                     ELSE [mem EXCEPT !.status = "committed_recovery_failed"]
  <2>1. DiskInv /\ UNCHANGED <<rows, archive>> /\ journal' \in {journal, j}
    BY <1>27 DEF Recovered
  <2>2. mem.committed /\ Sound(mem) /\ mem.phase \in From("commit")
    BY <1>27 DEF Recovered
  <2>3. Sound(j) /\ Fitting(j)
    BY <2>2
  <2> HIDE DEF DiskInv, Sound, Fitting, j
  <2> QED
    BY <2>1, <2>3, Rewritten
<1>28. CASE RollbackTunnel
  BY <1>28 DEF RollbackTunnel, Down, FailsOn
<1>29. CASE RollbackGeneration
  BY <1>29 DEF RollbackGeneration, FailsOn
<1>30. CASE RollbackStop
  BY <1>30 DEF RollbackStop
<1>31. CASE RollbackRestore
  BY <1>31 DEF RollbackRestore, RestoreBackup, FailsOn
<1>32. CASE RollbackGuard
  BY <1>32 DEF RollbackGuard, FailsOn
<1>33. CASE RolledBack
  <2> DEFINE j(s) == IF s = "rollback_failed" THEN [mem EXCEPT !.status = s]
                                              ELSE [mem EXCEPT !.phase = "failed",
                                                !.status = s]
  <2>0. RunningManaged /\ ~BeforeProtectedMutation(mem) => mem.backup # "none"
    BY <1>33 DEF RolledBack
  <2>1. \E s \in {"rollback_failed", "rollback_reboot_required", "rolled_back"} :
          /\ DiskInv /\ UNCHANGED <<rows, archive>> /\ journal' \in {journal, j(s)}
          /\ s = "rollback_reboot_required" => mem.backup # "none"
    BY <1>33, <2>0 DEF RolledBack
  <2>2. PICK s \in {"rollback_failed", "rollback_reboot_required", "rolled_back"} :
          /\ DiskInv /\ UNCHANGED <<rows, archive>> /\ journal' \in {journal, j(s)}
          /\ s = "rollback_reboot_required" => mem.backup # "none"
    BY <2>1
  <2>3. Sound(j(s)) /\ Fitting(j(s))
    BY <1>33, <2>2 DEF RolledBack
  <2> HIDE DEF DiskInv, Sound, Fitting, j
  <2> QED
    BY <2>2, <2>3, Rewritten
<1>34. CASE RollbackCommand
  BY <1>34 DEF RollbackCommand, TakeOver
<1>35. CASE FinalizeBootRollback
  <2> DEFINE j == [journal EXCEPT !.status = "rolled_back", !.committed = FALSE,
                                   !.gen = IF journal.committed THEN 0 ELSE journal.gen]
  <2>1. DiskInv /\ UNCHANGED <<rows, archive>> /\ journal' \in {journal, j}
    BY <1>35 DEF FinalizeBootRollback
  <2>2. Sound(journal) /\ Fitting(journal)
    BY <1>35 DEF FinalizeBootRollback, BootRolledBack
  <2>3. Sound(j) /\ Fitting(j)
    BY <1>35, <2>2 DEF FinalizeBootRollback, BootRolledBack
  <2> HIDE DEF DiskInv, Sound, Fitting, j
  <2> QED
    BY <2>1, <2>3, Rewritten
<1>36. CASE BootHandoff
  <2> DEFINE j == IF RunningManaged
                   THEN [journal EXCEPT !.phase = "failed",
                     !.status = "rollback_reboot_required"]
                   ELSE [journal EXCEPT !.phase = "failed", !.status = "rolled_back",
                     !.committed = FALSE, !.gen = 0]
  <2>1. DiskInv /\ UNCHANGED <<rows, archive>> /\ journal' \in {journal, j}
    BY <1>36 DEF BootHandoff
  <2>2. Sound(journal) /\ Fitting(journal) /\ journal.backup # "none"
    BY <1>36 DEF BootHandoff
  <2>3. Sound(j) /\ Fitting(j)
    BY <2>2
  <2> HIDE DEF DiskInv, Sound, Fitting, j
  <2> QED
    BY <2>1, <2>3, Rewritten
<1>37. CASE WatchdogRead
  BY <1>37 DEF WatchdogRead
<1>38. CASE WatchdogLock
  BY <1>38 DEF WatchdogLock, TakeOver
<1>39. CASE Expire
  BY <1>39 DEF Expire
<1>40. CASE CandidateExpires
  BY <1>40 DEF CandidateExpires
<1>41. CASE Crash
  BY <1>41 DEF Crash
<1>42. CASE Reboot
  BY <1>42 DEF Reboot
<1>43. CASE UNCHANGED vars
  BY <1>43 DEF vars
<1> QED
  BY <1>1, <1>2, <1>3, <1>4, <1>5, <1>6, <1>7, <1>8, <1>9, <1>10, <1>11, <1>12, <1>13,
     <1>14, <1>15, <1>16, <1>17, <1>18, <1>19, <1>20, <1>21, <1>22, <1>23, <1>24, <1>25,
     <1>26, <1>27, <1>28, <1>29, <1>30, <1>31, <1>32, <1>33, <1>34, <1>35, <1>36, <1>37,
     <1>38, <1>39, <1>40, <1>41, <1>42, <1>43 DEF Next, Proceed

\* Every step is reached under the phase and the status it belongs to.
LEMMA StageStep ==
  ASSUME SetupInv, [Next]_vars
  PROVE  StageInv'
<1> USE PhaseSets DEF Fault, Goto, Return, Written, Unwritten, Record, RecordLast, Runs,
            Succeeds, Fails, Start, Enable, Prepared, RunningManaged, procVars, hostVars,
            genVars, SetupInv, TypeOK, DiskInv, MemInv, StageInv, CountInv, GenInv, HostInv,
            Journals, Sound, Fitting, NoJournal, Terminal, BeforeProtectedMutation,
            NeedsRecovery, RebootRequired, MayHaveTunnel, Clean, Committed, Working,
            Deciding, Undoing, Redoing, Labels, Running, Closed, GivenUp, Ended
<1>1. CASE StartFirst
  BY <1>1 DEF StartFirst
<1>2. CASE StartAgain
  BY <1>2 DEF StartAgain, Retired, Restored, GenerationsRetired, Lineage, Terminal
<1>3. CASE StartResume
  BY <1>3 DEF StartResume, ResumeReady, RebootRequired
<1>4. CASE PublishInitial
  <2>1. mem' = NoJournal \/ (mem' = mem /\ pc' = "enter")
    BY <1>4 DEF PublishInitial
  <2>0. mem = Initial(journal.txn + 1)
    BY <1>4 DEF PublishInitial
  <2>2. mem.phase = "inspect" /\ mem.status = "running" /\ mem.gen = 0
    BY ONLY <2>0, InitialIs
  <2> QED
    BY <1>4, <2>1, <2>2 DEF PublishInitial
<1>5. CASE WaitBootHold
  BY <1>5 DEF WaitBootHold, ResumeReady, RebootRequired
<1>6. CASE Resume
  BY <1>6 DEF Resume
<1>7. CASE VerifyBootResume
  BY <1>7 DEF VerifyBootResume
<1>8. CASE Resumed
  BY <1>8 DEF Resumed
<1>9. CASE Enter
  <2> DEFINE q == Following(mem.phase)
  <2>1. mem.phase \in From("inspect") /\ mem.phase # "finalize"
    BY <1>9 DEF Enter, Phases
  <2>2. \/ pc' = "fail" /\ mem' \in {mem, [mem EXCEPT !.phase = q]}
        \/ pc' = "run" /\ mem' = [mem EXCEPT !.phase = q]
    BY <1>9 DEF Enter, Steps
  <2>3. /\ mem'.status = "running" /\ mem'.gen = mem.gen /\ mem'.backup = mem.backup
        /\ pc' = "run" => mem'.phase = q
    BY <1>9, <2>2 DEF Enter
  <2>4. UNCHANGED <<rows, policy, files>> /\ pc = "enter"
    BY <1>9 DEF Enter
  <2>5. q # "inspect" /\ q \notin Ended
    BY <2>1, Advance
  <2>6. q = "backup" => mem.backup = "none"
    BY <2>1, <2>4, Advance
  <2>7. q = "apply" => mem.gen = 0
    BY <2>1, <2>4, Advance
  <2>8. q \in From("docker") => files = "managed"
    BY <2>1, <2>4, Advance
  <2> HIDE DEF q
  <2> QED
    BY <2>2, <2>3, <2>4, <2>5, <2>6, <2>7, <2>8
<1>10. CASE Leave
  BY <1>10 DEF Leave
<1>11. CASE Complete
  BY <1>11 DEF Complete
<1>12. CASE Backup
  <2>1. Present = "prior"
    BY <1>12 DEF Backup, Present
  <2> QED
    BY <1>12, <2>1 DEF Backup
<1>13. CASE PrepareBoot
  <2>1. mem' = mem /\ pc' \in {"leave", "fail"} /\ UNCHANGED <<rows, policy, files>>
          /\ pc = "run" /\ mem.phase = "boot_prepare"
    BY <1>13 DEF PrepareBoot
  <2> QED
    BY <2>1
<1>14. CASE StartGuard
  BY <1>14 DEF StartGuard
<1>15. CASE Install
  BY <1>15 DEF Install
<1>16. CASE ConfigureDocker
  BY <1>16 DEF ConfigureDocker
<1>17. CASE StartRuntime
  BY <1>17 DEF StartRuntime
<1>18. CASE ApplySafe
  BY <1>18 DEF ApplySafe
<1>19. CASE StartTunnel
  BY <1>19 DEF StartTunnel, Up
<1>20. CASE Validate
  BY <1>20 DEF Validate
<1>21. CASE Commit
  BY <1>21 DEF Commit, CanCommit
<1>22. CASE AfterCommit
  BY <1>22 DEF AfterCommit, PublishFinalDependencies, EnableBoot, Finalize
<1>23. CASE Fail
  BY <1>23 DEF Fail
<1>24. CASE Inspect
  <2>1. UNCHANGED <<rows, policy, files>> /\ pc = "inspect" /\ pc' \in {"decide", "idle"}
    BY <1>24 DEF Inspect
  <2>2. pc' = "decide" => mem' = mem \/ \E c : mem' = [mem EXCEPT !.committed = c]
    BY <1>24 DEF Inspect
  <2>3. pc' = "decide" => mem'.status = mem.status
    BY <2>2
  <2> QED
    BY <2>1, <2>3
<1>25. CASE Decide
  BY <1>25 DEF Decide
<1>26. CASE RecoverCommitted
  BY <1>26 DEF RecoverCommitted, PublishFinalDependencies, EnableBoot, Finalize
<1>27. CASE Recovered
  BY <1>27 DEF Recovered
<1>28. CASE RollbackTunnel
  BY <1>28 DEF RollbackTunnel, Down, FailsOn
<1>29. CASE RollbackGeneration
  BY <1>29 DEF RollbackGeneration, FailsOn
<1>30. CASE RollbackStop
  BY <1>30 DEF RollbackStop
<1>31. CASE RollbackRestore
  BY <1>31 DEF RollbackRestore, RestoreBackup, FailsOn
<1>32. CASE RollbackGuard
  BY <1>32 DEF RollbackGuard, FailsOn
<1>33. CASE RolledBack
  BY <1>33 DEF RolledBack
<1>34. CASE RollbackCommand
  BY <1>34 DEF RollbackCommand, TakeOver
<1>35. CASE FinalizeBootRollback
  BY <1>35 DEF FinalizeBootRollback, BootRolledBack, Restored
<1>36. CASE BootHandoff
  BY <1>36 DEF BootHandoff
<1>37. CASE WatchdogRead
  BY <1>37 DEF WatchdogRead
<1>38. CASE WatchdogLock
  BY <1>38 DEF WatchdogLock, TakeOver
<1>39. CASE Expire
  BY <1>39 DEF Expire
<1>40. CASE CandidateExpires
  BY <1>40 DEF CandidateExpires
<1>41. CASE Crash
  BY <1>41 DEF Crash
<1>42. CASE Reboot
  BY <1>42 DEF Reboot
<1>43. CASE UNCHANGED vars
  BY <1>43 DEF vars
<1> QED
  BY <1>1, <1>2, <1>3, <1>4, <1>5, <1>6, <1>7, <1>8, <1>9, <1>10, <1>11, <1>12, <1>13,
     <1>14, <1>15, <1>16, <1>17, <1>18, <1>19, <1>20, <1>21, <1>22, <1>23, <1>24, <1>25,
     <1>26, <1>27, <1>28, <1>29, <1>30, <1>31, <1>32, <1>33, <1>34, <1>35, <1>36, <1>37,
     <1>38, <1>39, <1>40, <1>41, <1>42, <1>43 DEF Next, Proceed

\* What the process has in memory is never behind the journal on the disk.
LEMMA MemStep ==
  ASSUME SetupInv, [Next]_vars
  PROVE  MemInv'
<1> USE PhaseSets DEF Fault, Goto, Return, Written, Unwritten, Record, RecordLast, Runs,
            Succeeds, Fails, Start, Enable, Prepared, RunningManaged, procVars, hostVars,
            genVars, SetupInv, TypeOK, DiskInv, MemInv, StageInv, CountInv, GenInv, HostInv,
            Journals, Sound, Fitting, NoJournal, Terminal, BeforeProtectedMutation,
            NeedsRecovery, RebootRequired, MayHaveTunnel, Clean, Committed, Working,
            Deciding, Undoing, Redoing, Labels, Running, Closed, GivenUp, Ended
<1>1. CASE StartFirst
  <2>1. /\ mem' = Initial(1) /\ pc' = "publish" /\ journal = NoJournal /\ journal' = journal
        /\ UNCHANGED <<rows, files, boot, hold, guard, tunnel>>
    BY <1>1 DEF StartFirst
  <2>2. journal.txn = 0 /\ journal.txn + 1 = 1 /\ journal.backup = "none"
    BY <2>1
  <2>3. Clean /\ ~Committed
    BY <2>2
  <2>6. LET m == Initial(1) IN
        /\ m.txn = 1 /\ m.phase = "inspect" /\ m.status = "running"
        /\ m.gen = 0 /\ m.committed = FALSE /\ m.backup = "none"
    BY ONLY InitialIs
  <2>4. Sound(mem)' /\ Fitting(mem)'
    BY <2>1, <2>6
  <2> HIDE DEF Clean, Committed, Sound, Fitting
  <2>5. Clean' /\ ~Committed'
    BY <2>1, <2>3 DEF Clean, Committed
  <2> QED
    BY <2>1, <2>2, <2>4, <2>5, SetupConstants
<1>2. CASE StartAgain
  <2>1. /\ mem' = Initial(journal.txn + 1) /\ pc' = "publish" /\ Terminal(journal)
             /\ journal' = journal
        /\ journal.txn < MaxTxn /\ UNCHANGED <<rows, files, boot, hold, guard, tunnel>>
    BY <1>2 DEF StartAgain, Retired
  <2>0. {rows[g] : g \in DOMAIN rows} \subseteq {"rolled_back"}
    BY <1>2 DEF StartAgain, Retired, GenerationsRetired
  <2>2. ~Committed
    BY ONLY <2>0 DEF Committed
  <2>3. Clean
    BY <1>2, <2>2 DEF StartAgain, Retired
  <2>6. LET m == Initial(journal.txn + 1) IN
        /\ m.txn = journal.txn + 1 /\ m.phase = "inspect" /\ m.status = "running"
        /\ m.gen = 0 /\ m.committed = FALSE /\ m.backup = "none"
    BY ONLY InitialIs
  <2>7. journal.txn + 1 # 0
    OBVIOUS
  <2>4. Sound(mem)' /\ Fitting(mem)'
    BY <2>1, <2>6, <2>7
  <2> HIDE DEF Clean, Committed, Sound, Fitting, Terminal
  <2>5. Clean' /\ ~Committed' /\ Terminal(journal)'
    BY <2>1, <2>2, <2>3 DEF Clean, Committed, Terminal
  <2> QED
    BY <2>1, <2>4, <2>5
<1>3. CASE StartResume
  BY <1>3 DEF StartResume, ResumeReady, RebootRequired
<1>4. CASE PublishInitial
  <2>1. \/ pc' = "idle" /\ mem' = NoJournal
        \/ pc' = "enter" /\ mem' = mem /\ journal' = mem
    BY <1>4 DEF PublishInitial
  <2>2. pc = "publish" /\ UNCHANGED rows
    BY <1>4 DEF PublishInitial
  <2>4. mem = Initial(journal.txn + 1)
    BY <2>2
  <2>5. mem.status = "running"
    BY ONLY <2>4, InitialIs
  <2>3. Sound(mem) /\ Fitting(mem)
    BY <2>2
  <2> QED
    BY <2>1, <2>2, <2>3, <2>5
<1>5. CASE WaitBootHold
  BY <1>5 DEF WaitBootHold, ResumeReady, RebootRequired
<1>6. CASE Resume
  <2>1. \/ pc' = "idle" /\ mem' = NoJournal
        \/ pc' = "verify" /\ mem' = mem /\ journal' = mem
    BY <1>6 DEF Resume
  <2>2. pc = "resume" /\ UNCHANGED rows
    BY <1>6 DEF Resume
  <2>3. mem.status = "resume_ready" /\ Sound(mem) /\ Fitting(mem)
    BY <2>2
  <2> QED
    BY <2>1, <2>2, <2>3
<1>7. CASE VerifyBootResume
  BY <1>7 DEF VerifyBootResume
<1>8. CASE Resumed
  BY <1>8 DEF Resumed
<1>9. CASE Enter
  <2> DEFINE q == Following(mem.phase)
             j == [mem EXCEPT !.phase = q]
  <2>1. mem.phase \in From("inspect") /\ mem.phase # "finalize" /\ mem = journal
          /\ pc = "enter"
    BY <1>9 DEF Enter, Phases
  <2>2. \/ pc' = "fail" /\ mem' = mem /\ journal' = journal
        \/ pc' = "fail" /\ mem' = j /\ journal' \in {journal, j}
        \/ pc' = "run" /\ mem' = j /\ journal' = j
    BY <1>9 DEF Enter, Steps
  <2>3. /\ j.status = "running" /\ j.txn = mem.txn /\ j.gen = mem.gen
             /\ j.backup = mem.backup
        /\ j.committed = mem.committed /\ j.phase = q
    BY <2>1
  <2>4. UNCHANGED rows
    BY <1>9 DEF Enter
  <2>5. Sound(mem) /\ Fitting(mem) /\ mem.status = "running"
    BY <2>1
  <2>6. Sound(j) /\ Fitting(j)
    BY <2>1, <2>3, <2>5, Advance
  <2>7. /\ MayHaveTunnel(mem.phase) => MayHaveTunnel(q)
        /\ mem.phase \in From("apply") => q \in From("apply")
    BY <2>1, Advance
  <2>8. Sound(mem)' /\ Fitting(mem)'
    BY <2>2, <2>4, <2>5, <2>6
  <2> HIDE DEF q, j, Sound, Fitting, MayHaveTunnel
  <2> QED
    BY <2>1, <2>2, <2>3, <2>4, <2>5, <2>7, <2>8
<1>10. CASE Leave
  <2> DEFINE j == IF mem.phase = "boot_prepare"
                    THEN [mem EXCEPT !.status = "reboot_required"] ELSE mem
  <2>1. /\ pc = "leave" /\ UNCHANGED rows
        /\ \/ pc' = "idle" /\ mem' = NoJournal
           \/ pc' \in {"enter", "complete"} /\ mem' = mem /\ journal' = mem
                /\ mem.phase # "boot_prepare"
           \/ pc' = "fail" /\ mem' = j /\ journal' \in {journal, j}
    BY <1>10 DEF Leave
  <2>2. Sound(mem) /\ Fitting(mem) /\ mem.status = "running"
    BY <2>1
  <2>3. /\ j.txn = mem.txn /\ j.phase = mem.phase /\ j.gen = mem.gen
             /\ j.committed = mem.committed
        /\ j.backup = mem.backup /\ j.status \in {"running", "reboot_required"}
        /\ j.status = "reboot_required" => mem.phase = "boot_prepare"
    BY <2>1, <2>2
  <2>4. Sound(j) /\ Fitting(j)
    BY <2>2, <2>3
  <2>5. pc' # "idle" => Sound(mem)' /\ Fitting(mem)'
    BY <2>1, <2>2, <2>4
  <2> HIDE DEF j, Sound, Fitting
  <2> QED
    BY <2>1, <2>2, <2>3, <2>5
<1>11. CASE Complete
  BY <1>11 DEF Complete
<1>12. CASE Backup
  <2>1. Present = "prior" /\ mem = journal /\ mem.backup = "none" /\ pc = "run"
          /\ mem.status = "running"
        /\ mem.phase = "backup" /\ Sound(mem) /\ Fitting(mem)
    BY <1>12 DEF Backup, Present
  <2>2. /\ pc' \in {"leave", "fail"} /\ mem' \in {mem, [mem EXCEPT !.backup = "prior"]}
        /\ UNCHANGED <<journal, rows>>
    BY <1>12, <2>1 DEF Backup
  <2>3. Sound(mem)' /\ Fitting(mem)'
    BY <2>1, <2>2
  <2> QED
    BY <2>1, <2>2, <2>3
<1>13. CASE PrepareBoot
  <2>1. mem' = mem /\ pc' \in {"leave", "fail"} /\ UNCHANGED <<rows, journal>> /\ pc = "run"
    BY <1>13 DEF PrepareBoot
  <2> QED
    BY <2>1
<1>14. CASE StartGuard
  <2>1. mem' = mem /\ pc' \in {"leave", "fail"} /\ UNCHANGED <<rows, journal>> /\ pc = "run"
    BY <1>14 DEF StartGuard
  <2> QED
    BY <2>1
<1>15. CASE Install
  BY <1>15 DEF Install
<1>16. CASE ConfigureDocker
  BY <1>16 DEF ConfigureDocker
<1>17. CASE StartRuntime
  BY <1>17 DEF StartRuntime
<1>18. CASE ApplySafe
  BY <1>18 DEF ApplySafe
<1>19. CASE StartTunnel
  BY <1>19 DEF StartTunnel, Up
<1>20. CASE Validate
  BY <1>20 DEF Validate
<1>21. CASE Commit
  BY <1>21 DEF Commit, CanCommit
<1>22. CASE AfterCommit
  BY <1>22 DEF AfterCommit, PublishFinalDependencies, EnableBoot, Finalize
<1>23. CASE Fail
  BY <1>23 DEF Fail
<1>24. CASE Inspect
  <2>1. /\ UNCHANGED rows /\ pc = "inspect"
        /\ \/ pc' = "decide" /\ journal' = journal
           \/ pc' = "idle" /\ mem' = NoJournal
    BY <1>24 DEF Inspect
  <2>2. pc' = "decide" /\ mem' # mem =>
          /\ ~mem.committed /\ mem.gen # 0
               /\ \E c \in GenerationCommitted(mem.gen) :
                    mem' = [mem EXCEPT !.committed = c]
          /\ mem.status \notin {"rolling_back", "rollback_failed"}
    BY <1>24 DEF Inspect, Undecided
  <2>3. \A c \in GenerationCommitted(mem.gen) : c => rows[mem.gen] = "committed"
    BY DEF GenerationCommitted
  <2>4. pc' = "decide" =>
          /\ mem'.status = mem.status /\ mem'.txn = mem.txn /\ mem'.phase = mem.phase
               /\ mem'.gen = mem.gen
          /\ mem'.backup = mem.backup
          /\ mem'.committed /\ ~mem.committed => mem.gen # 0 /\ rows[mem.gen] = "committed"
          /\ mem.committed => mem'.committed
    BY <2>2, <2>3
  <2>5. Sound(mem) /\ Fitting(mem) /\ mem.status \notin Closed
    BY <2>1
  <2>6. mem.gen # 0 /\ rows[mem.gen] = "committed" => mem.phase \in From("commit")
    OBVIOUS
  <2> QED
    BY <2>1, <2>4, <2>5, <2>6
<1>25. CASE Decide
  BY <1>25 DEF Decide
<1>26. CASE RecoverCommitted
  BY <1>26 DEF RecoverCommitted, PublishFinalDependencies, EnableBoot, Finalize
<1>27. CASE Recovered
  BY <1>27 DEF Recovered
<1>28. CASE RollbackTunnel
  BY <1>28 DEF RollbackTunnel, Down, FailsOn
<1>29. CASE RollbackGeneration
  BY <1>29 DEF RollbackGeneration, FailsOn
<1>30. CASE RollbackStop
  BY <1>30 DEF RollbackStop
<1>31. CASE RollbackRestore
  BY <1>31 DEF RollbackRestore, RestoreBackup, FailsOn
<1>32. CASE RollbackGuard
  BY <1>32 DEF RollbackGuard, FailsOn
<1>33. CASE RolledBack
  BY <1>33 DEF RolledBack
<1>34. CASE RollbackCommand
  BY <1>34 DEF RollbackCommand, TakeOver
<1>35. CASE FinalizeBootRollback
  BY <1>35 DEF FinalizeBootRollback, BootRolledBack, Restored
<1>36. CASE BootHandoff
  BY <1>36 DEF BootHandoff
<1>37. CASE WatchdogRead
  BY <1>37 DEF WatchdogRead
<1>38. CASE WatchdogLock
  BY <1>38 DEF WatchdogLock, TakeOver
<1>39. CASE Expire
  BY <1>39 DEF Expire
<1>40. CASE CandidateExpires
  BY <1>40 DEF CandidateExpires
<1>41. CASE Crash
  BY <1>41 DEF Crash
<1>42. CASE Reboot
  BY <1>42 DEF Reboot
<1>43. CASE UNCHANGED vars
  BY <1>43 DEF vars
<1> QED
  BY <1>1, <1>2, <1>3, <1>4, <1>5, <1>6, <1>7, <1>8, <1>9, <1>10, <1>11, <1>12, <1>13,
     <1>14, <1>15, <1>16, <1>17, <1>18, <1>19, <1>20, <1>21, <1>22, <1>23, <1>24, <1>25,
     <1>26, <1>27, <1>28, <1>29, <1>30, <1>31, <1>32, <1>33, <1>34, <1>35, <1>36, <1>37,
     <1>38, <1>39, <1>40, <1>41, <1>42, <1>43 DEF Next, Proceed

\* A write that stays in its transaction, outside the application.
LEMMA Counted ==
  ASSUME CountInv, UNCHANGED rows, policy' <= Len(rows'), pc' # "run",
         NEW j, journal' \in {journal, j}, j.txn = journal.txn,
         \/ j.phase \in From("apply") \cup Ended
         \/ journal # NoJournal /\ journal.phase \notin From("apply") \cup Ended
  PROVE  CountInv'
BY DEF CountInv

\* A process past its first write works on the transaction in the journal.
LEMMA InTransaction ==
  ASSUME SetupInv, Running, pc # "publish"
  PROVE  /\ mem.txn = journal.txn /\ journal # NoJournal /\ Sound(journal)
              /\ Fitting(journal)
         /\ Sound(mem) /\ journal.phase \notin Ended /\ journal.status \notin Closed
         /\ journal.phase \in From("apply") => mem.phase \in From("apply")
<1>1. /\ mem.txn = journal.txn /\ Sound(mem) /\ journal.status \notin Closed
      /\ journal.phase \in From("apply") => mem.phase \in From("apply")
  BY DEF SetupInv, MemInv
<1>2. journal # NoJournal
  BY <1>1 DEF Sound, NoJournal
<1>3. Sound(journal) /\ Fitting(journal)
  BY <1>2 DEF SetupInv, DiskInv
<1> QED
  BY <1>1, <1>2, <1>3 DEF Sound, Ended, Closed, GivenUp

\* Only the application adds a generation, once in a transaction.
LEMMA CountStep ==
  ASSUME SetupInv, [Next]_vars, policy' <= Len(rows')
  PROVE  CountInv'
<1>0. Running /\ pc # "publish" =>
        /\ mem.txn = journal.txn /\ journal # NoJournal /\ journal.phase \notin Ended
        /\ journal.phase \in From("apply") => mem.phase \in From("apply")
  BY InTransaction
<1> USE PhaseSets, SetupConstants, LenProperties DEF Fault, Goto, Return, Written,
            Unwritten, Record, RecordLast, Runs, Succeeds, Fails, Start, Enable, Prepared,
            RunningManaged, procVars, hostVars, genVars, SetupInv, TypeOK, DiskInv, MemInv,
            StageInv, CountInv, Journals, Sound, Fitting, NoJournal, Terminal,
            BeforeProtectedMutation, NeedsRecovery, RebootRequired, MayHaveTunnel, Clean,
            Committed, Working, Deciding, Undoing, Redoing, Labels, Running, Closed,
            GivenUp, Ended
<1>1. CASE StartFirst
  BY <1>1 DEF StartFirst
<1>2. CASE StartAgain
  BY <1>2 DEF StartAgain, Retired, Restored, GenerationsRetired, Lineage, Terminal
<1>3. CASE StartResume
  BY <1>3 DEF StartResume, ResumeReady, RebootRequired
<1>4. CASE PublishInitial
  <2>1. /\ UNCHANGED rows /\ pc' # "run" /\ journal' \in {journal, mem}
        /\ pc = "publish" /\ mem = Initial(journal.txn + 1)
    BY <1>4 DEF PublishInitial
  <2>2. mem.txn = journal.txn + 1
    BY ONLY <2>1, InitialIs
  <2>3. /\ Len(rows) <= journal.txn /\ Len(rows) \in Nat /\ journal.txn \in Nat
             /\ mem.txn \in Nat /\ Len(rows) < mem.txn
        /\ journal # NoJournal /\ journal.phase \notin From("apply") \cup Ended
             => Len(rows) < journal.txn
    BY <2>2
  <2> QED
    BY ONLY <2>1, <2>3, policy' <= Len(rows') DEF CountInv
<1>5. CASE WaitBootHold
  BY <1>5 DEF WaitBootHold, ResumeReady, RebootRequired
<1>6. CASE Resume
  <2> DEFINE j == mem
  <2>1. CountInv /\ UNCHANGED rows /\ pc' # "run" /\ journal' \in {journal, j}
          /\ pc = "resume"
    BY <1>6 DEF Resume
  <2>3. mem \in Journals
    OBVIOUS
  <2>4. j.txn = mem.txn /\ j.phase = mem.phase
    BY ONLY <2>3 DEF Journals
  <2>5. /\ mem.txn = journal.txn
        /\ \/ mem.phase \in From("apply") \cup Ended
           \/ journal # NoJournal /\ journal.phase \notin From("apply") \cup Ended
    <3>1. Running /\ pc # "publish"
      BY <2>1
    <3> QED
      BY ONLY <1>0, <3>1
  <2> HIDE DEF j, CountInv
  <2> QED
    BY <2>1, <2>4, <2>5, Counted
<1>7. CASE VerifyBootResume
  BY <1>7 DEF VerifyBootResume
<1>8. CASE Resumed
  BY <1>8 DEF Resumed
<1>9. CASE Enter
  <2> DEFINE q == Following(mem.phase)
             j == [mem EXCEPT !.phase = q]
  <2>1. /\ mem.phase \in From("inspect") /\ mem.phase # "finalize" /\ mem = journal
             /\ pc = "enter"
        /\ UNCHANGED rows /\ journal.txn # 0
    BY <1>9 DEF Enter, Phases
  <2>2. \/ pc' # "run" /\ journal' \in {journal, j}
        \/ pc' = "run" /\ mem' = j /\ journal' = j
    BY <1>9, <2>1 DEF Enter, Steps
  <2>3. j.txn = journal.txn /\ j.phase = q
    BY <2>1
  <2>4. \/ q \in From("apply") \cup Ended
        \/ journal # NoJournal /\ journal.phase \notin From("apply") \cup Ended
    BY <2>1, Advance
  <2>5. q = "apply" => Len(rows) < journal.txn
    BY <2>1, Advance
  <2>6. q \notin From("apply") \cup Ended => Len(rows) < journal.txn
    BY <2>1, <2>4
  <2> QED
    BY ONLY <2>1, <2>2, <2>3, <2>5, <2>6, CountInv, policy' <= Len(rows') DEF CountInv, j
<1>10. CASE Leave
  <2> DEFINE j == IF mem.phase = "boot_prepare"
                    THEN [mem EXCEPT !.status = "reboot_required"] ELSE mem
  <2>1. CountInv /\ UNCHANGED rows /\ pc' # "run" /\ journal' \in {journal, j}
          /\ pc = "leave"
    BY <1>10 DEF Leave
  <2>3. mem \in Journals
    OBVIOUS
  <2>4. j.txn = mem.txn /\ j.phase = mem.phase
    BY ONLY <2>3 DEF Journals
  <2>5. /\ mem.txn = journal.txn
        /\ \/ mem.phase \in From("apply") \cup Ended
           \/ journal # NoJournal /\ journal.phase \notin From("apply") \cup Ended
    <3>1. Running /\ pc # "publish"
      BY <2>1
    <3> QED
      BY ONLY <1>0, <3>1
  <2> HIDE DEF j, CountInv
  <2> QED
    BY <2>1, <2>4, <2>5, Counted
<1>11. CASE Complete
  <2> DEFINE j == [mem EXCEPT !.phase = "complete", !.status = "complete"]
  <2>1. CountInv /\ UNCHANGED rows /\ pc' # "run" /\ journal' \in {journal, j}
          /\ pc = "complete"
    BY <1>11 DEF Complete
  <2>3. mem \in Journals
    OBVIOUS
  <2>4. j.txn = mem.txn /\ j.phase = "complete"
    BY ONLY <2>3 DEF Journals
  <2>5. /\ mem.txn = journal.txn
        /\ \/ "complete" \in From("apply") \cup Ended
           \/ journal # NoJournal /\ journal.phase \notin From("apply") \cup Ended
    <3>1. Running /\ pc # "publish"
      BY <2>1
    <3> QED
      BY ONLY <1>0, <3>1
  <2> HIDE DEF j, CountInv
  <2> QED
    BY <2>1, <2>4, <2>5, Counted
<1>12. CASE Backup
  BY <1>12 DEF Backup, Present
<1>13. CASE PrepareBoot
  BY <1>13 DEF PrepareBoot
<1>14. CASE StartGuard
  BY <1>14 DEF StartGuard
<1>15. CASE Install
  BY <1>15 DEF Install
<1>16. CASE ConfigureDocker
  BY <1>16 DEF ConfigureDocker
<1>17. CASE StartRuntime
  BY <1>17 DEF StartRuntime
<1>18. CASE ApplySafe
  BY <1>18 DEF ApplySafe
<1>19. CASE StartTunnel
  BY <1>19 DEF StartTunnel, Up
<1>20. CASE Validate
  BY <1>20 DEF Validate
<1>21. CASE Commit
  BY <1>21 DEF Commit, CanCommit
<1>22. CASE AfterCommit
  BY <1>22 DEF AfterCommit, PublishFinalDependencies, EnableBoot, Finalize
<1>23. CASE Fail
  <2> DEFINE j == [mem EXCEPT !.phase = "failed", !.status = "rolled_back"]
  <2>1. CountInv /\ UNCHANGED rows /\ pc' # "run" /\ journal' \in {journal, j}
          /\ pc = "fail"
    BY <1>23 DEF Fail
  <2>3. mem \in Journals
    OBVIOUS
  <2>4. j.txn = mem.txn /\ j.phase = "failed"
    BY ONLY <2>3 DEF Journals
  <2>5. /\ mem.txn = journal.txn
        /\ \/ "failed" \in From("apply") \cup Ended
           \/ journal # NoJournal /\ journal.phase \notin From("apply") \cup Ended
    <3>1. Running /\ pc # "publish"
      BY <2>1
    <3> QED
      BY ONLY <1>0, <3>1
  <2> HIDE DEF j, CountInv
  <2> QED
    BY <2>1, <2>4, <2>5, Counted
<1>24. CASE Inspect
  <2> DEFINE j == [mem EXCEPT !.status = "commit_state_unknown"]
  <2>1. CountInv /\ UNCHANGED rows /\ pc' # "run" /\ journal' \in {journal, j}
          /\ pc = "inspect"
    BY <1>24 DEF Inspect
  <2>3. mem \in Journals
    OBVIOUS
  <2>4. j.txn = mem.txn /\ j.phase = mem.phase
    BY ONLY <2>3 DEF Journals
  <2>5. /\ mem.txn = journal.txn
        /\ \/ mem.phase \in From("apply") \cup Ended
           \/ journal # NoJournal /\ journal.phase \notin From("apply") \cup Ended
    <3>1. Running /\ pc # "publish"
      BY <2>1
    <3> QED
      BY ONLY <1>0, <3>1
  <2> HIDE DEF j, CountInv
  <2> QED
    BY <2>1, <2>4, <2>5, Counted
<1>25. CASE Decide
  BY <1>25 DEF Decide
<1>26. CASE RecoverCommitted
  BY <1>26 DEF RecoverCommitted, PublishFinalDependencies, EnableBoot, Finalize
<1>27. CASE Recovered
  <2> DEFINE j == IF pc = "rec_done"
                    THEN [mem EXCEPT !.phase = "complete", !.status = "complete"]
                                     ELSE [mem EXCEPT !.status = "committed_recovery_failed"]
  <2>1. CountInv /\ UNCHANGED rows /\ pc' # "run" /\ journal' \in {journal, j}
          /\ mem = journal
    BY <1>27 DEF Recovered
  <2>0. mem.committed /\ Sound(mem) /\ mem.phase \in From("commit")
    BY <1>27 DEF Recovered
  <2>2. j.txn = journal.txn /\ j.phase \in From("apply") \cup Ended
    BY <2>1, <2>0
  <2> HIDE DEF j, CountInv
  <2> QED
    BY <2>1, <2>2, Counted
<1>28. CASE RollbackTunnel
  BY <1>28 DEF RollbackTunnel, Down, FailsOn
<1>29. CASE RollbackGeneration
  BY <1>29 DEF RollbackGeneration, FailsOn
<1>30. CASE RollbackStop
  BY <1>30 DEF RollbackStop
<1>31. CASE RollbackRestore
  BY <1>31 DEF RollbackRestore, RestoreBackup, FailsOn
<1>32. CASE RollbackGuard
  BY <1>32 DEF RollbackGuard, FailsOn
<1>33. CASE RolledBack
  <2> DEFINE j(s) == IF s = "rollback_failed" THEN [mem EXCEPT !.status = s]
                                              ELSE [mem EXCEPT !.phase = "failed",
                                                !.status = s]
  <2>1. CountInv /\ UNCHANGED rows /\ pc' # "run" /\ mem = journal /\ Sound(journal)
    BY <1>33 DEF RolledBack
  <2>2. PICK s \in {"rollback_failed", "rollback_reboot_required", "rolled_back"} :
          journal' \in {journal, j(s)}
    BY <1>33 DEF RolledBack
  <2>3. /\ j(s).txn = journal.txn
        /\ \/ j(s).phase \in From("apply") \cup Ended
           \/ journal # NoJournal /\ journal.phase \notin From("apply") \cup Ended
    BY <2>1
  <2> HIDE DEF j, CountInv
  <2> QED
    BY <2>1, <2>2, <2>3, Counted
<1>34. CASE RollbackCommand
  BY <1>34 DEF RollbackCommand, TakeOver
<1>35. CASE FinalizeBootRollback
  <2> DEFINE j == [journal EXCEPT !.status = "rolled_back", !.committed = FALSE,
                                   !.gen = IF journal.committed THEN 0 ELSE journal.gen]
  <2>1. CountInv /\ UNCHANGED rows /\ pc' # "run" /\ journal' \in {journal, j}
    BY <1>35 DEF FinalizeBootRollback
  <2>2. j.txn = journal.txn /\ j.phase \in From("apply") \cup Ended
    BY <1>35 DEF FinalizeBootRollback, BootRolledBack
  <2> HIDE DEF j, CountInv
  <2> QED
    BY <2>1, <2>2, Counted
<1>36. CASE BootHandoff
  <2> DEFINE j == IF RunningManaged
                   THEN [journal EXCEPT !.phase = "failed",
                     !.status = "rollback_reboot_required"]
                   ELSE [journal EXCEPT !.phase = "failed", !.status = "rolled_back",
                     !.committed = FALSE, !.gen = 0]
  <2>1. CountInv /\ UNCHANGED rows /\ pc' # "run" /\ journal' \in {journal, j}
    BY <1>36 DEF BootHandoff
  <2>2. j.txn = journal.txn /\ j.phase \in From("apply") \cup Ended
    OBVIOUS
  <2> HIDE DEF j, CountInv
  <2> QED
    BY <2>1, <2>2, Counted
<1>37. CASE WatchdogRead
  BY <1>37 DEF WatchdogRead
<1>38. CASE WatchdogLock
  BY <1>38 DEF WatchdogLock, TakeOver
<1>39. CASE Expire
  BY <1>39 DEF Expire
<1>40. CASE CandidateExpires
  BY <1>40 DEF CandidateExpires
<1>41. CASE Crash
  BY <1>41 DEF Crash
<1>42. CASE Reboot
  <2>1. UNCHANGED <<rows, journal>> /\ pc' # "run"
    BY <1>42 DEF Reboot
  <2> QED
    BY <2>1
<1>43. CASE UNCHANGED vars
  BY <1>43 DEF vars
<1> QED
  BY <1>1, <1>2, <1>3, <1>4, <1>5, <1>6, <1>7, <1>8, <1>9, <1>10, <1>11, <1>12, <1>13,
     <1>14, <1>15, <1>16, <1>17, <1>18, <1>19, <1>20, <1>21, <1>22, <1>23, <1>24, <1>25,
     <1>26, <1>27, <1>28, <1>29, <1>30, <1>31, <1>32, <1>33, <1>34, <1>35, <1>36, <1>37,
     <1>38, <1>39, <1>40, <1>41, <1>42, <1>43 DEF Next, Proceed

\* What a process that works on the transaction writes of the generation.
LEMMA Regenerated ==
  ASSUME SetupInv, Running, pc # "publish", UNCHANGED <<rows, policy, enabled, active>>,
         NEW j, journal' \in {journal, j}, j.backup = mem.backup, j.gen = mem.gen,
         j.committed = mem.committed, j.status \notin GivenUp
  PROVE  GenInv'
<1>1. /\ mem.backup = "none" => journal.backup = "none"
      /\ journal.committed => mem.committed
      /\ journal.gen # 0 => mem.gen = journal.gen
      /\ mem.backup \in {"none", "prior"}
      /\ journal.status # "rolled_back" /\ GenInv
  BY DEF SetupInv, MemInv, Closed, Sound
<1>2. Committed' = Committed
  BY DEF Committed
<1> QED
  BY <1>1, <1>2 DEF GenInv, GivenUp

\* The journal names the generation that was committed, or the one taken back.
LEMMA GenStep ==
  ASSUME SetupInv, [Next]_vars
  PROVE  GenInv'
<1> USE PhaseSets DEF Fault, Goto, Return, Written, Unwritten, Record, RecordLast, Runs,
            Succeeds, Fails, Start, Enable, Prepared, RunningManaged, procVars, hostVars,
            genVars, SetupInv, TypeOK, DiskInv, MemInv, StageInv, GenInv, Journals, Sound,
            Fitting, NoJournal, Terminal, BeforeProtectedMutation, NeedsRecovery,
            RebootRequired, MayHaveTunnel, Clean, Committed, Working, Deciding, Undoing,
            Redoing, Labels, Running, Closed, GivenUp, Ended
<1>1. CASE StartFirst
  BY <1>1 DEF StartFirst
<1>2. CASE StartAgain
  BY <1>2 DEF StartAgain, Retired, Restored, GenerationsRetired, Lineage, Terminal
<1>3. CASE StartResume
  BY <1>3 DEF StartResume, ResumeReady, RebootRequired
<1>4. CASE PublishInitial
  <2>1. /\ UNCHANGED <<rows, policy, enabled, active>> /\ journal' \in {journal, mem}
        /\ pc = "publish" /\ mem = Initial(journal.txn + 1)
    BY <1>4 DEF PublishInitial
  <2>2. mem.status = "running" /\ mem.gen = 0
    BY ONLY <2>1, InitialIs
  <2>3. ~Committed /\ ~journal.committed
    BY <2>1
  <2>4. ~Committed'
    BY <2>1, <2>3
  <2> HIDE DEF Committed
  <2> QED
    BY <2>1, <2>2, <2>3, <2>4
<1>5. CASE WaitBootHold
  BY <1>5 DEF WaitBootHold, ResumeReady, RebootRequired
<1>6. CASE Resume
  <2> DEFINE j == mem
  <2>1. /\ UNCHANGED <<rows, policy, enabled, active>> /\ journal' \in {journal, j}
             /\ pc = "resume"
    BY <1>6 DEF Resume
  <2>2. Running /\ pc # "publish" /\ mem \in Journals /\ mem.status \notin GivenUp
    BY <2>1
  <2>3. /\ j.backup = mem.backup /\ j.gen = mem.gen /\ j.committed = mem.committed
        /\ j.status \notin GivenUp
    BY ONLY <2>2 DEF Journals, GivenUp
  <2> HIDE DEF j, SetupInv, GenInv
  <2> QED
    BY <2>1, <2>2, <2>3, Regenerated
<1>7. CASE VerifyBootResume
  BY <1>7 DEF VerifyBootResume
<1>8. CASE Resumed
  <2> DEFINE j == mem
  <2>1. /\ UNCHANGED <<rows, policy, enabled, active>> /\ journal' \in {journal, j}
             /\ pc = "resumed"
    BY <1>8 DEF Resumed
  <2>2. Running /\ pc # "publish" /\ mem \in Journals /\ mem.status \notin GivenUp
    BY <2>1
  <2>3. /\ j.backup = mem.backup /\ j.gen = mem.gen /\ j.committed = mem.committed
        /\ j.status \notin GivenUp
    BY ONLY <2>2 DEF Journals, GivenUp
  <2> HIDE DEF j, SetupInv, GenInv
  <2> QED
    BY <2>1, <2>2, <2>3, Regenerated
<1>9. CASE Enter
  <2> DEFINE j == [mem EXCEPT !.phase = Following(mem.phase)]
  <2>1. /\ UNCHANGED <<rows, policy, enabled, active>> /\ journal' \in {journal, j}
             /\ pc = "enter"
    BY <1>9 DEF Enter, Steps
  <2>2. Running /\ pc # "publish" /\ mem \in Journals /\ mem.status \notin GivenUp
    BY <2>1
  <2>3. /\ j.backup = mem.backup /\ j.gen = mem.gen /\ j.committed = mem.committed
        /\ j.status \notin GivenUp
    BY ONLY <2>2 DEF Journals, GivenUp
  <2> HIDE DEF j, SetupInv, GenInv
  <2> QED
    BY <2>1, <2>2, <2>3, Regenerated
<1>10. CASE Leave
  <2> DEFINE j == IF mem.phase = "boot_prepare"
                    THEN [mem EXCEPT !.status = "reboot_required"] ELSE mem
  <2>1. /\ UNCHANGED <<rows, policy, enabled, active>> /\ journal' \in {journal, j}
             /\ pc = "leave"
    BY <1>10 DEF Leave
  <2>2. Running /\ pc # "publish" /\ mem \in Journals /\ mem.status \notin GivenUp
    BY <2>1
  <2>3. /\ j.backup = mem.backup /\ j.gen = mem.gen /\ j.committed = mem.committed
        /\ j.status \notin GivenUp
    BY ONLY <2>2 DEF Journals, GivenUp
  <2> HIDE DEF j, SetupInv, GenInv
  <2> QED
    BY <2>1, <2>2, <2>3, Regenerated
<1>11. CASE Complete
  <2> DEFINE j == [mem EXCEPT !.phase = "complete", !.status = "complete"]
  <2>1. /\ UNCHANGED <<rows, policy, enabled, active>> /\ journal' \in {journal, j}
             /\ pc = "complete"
    BY <1>11 DEF Complete
  <2>2. Running /\ pc # "publish" /\ mem \in Journals /\ mem.status \notin GivenUp
    BY <2>1
  <2>3. /\ j.backup = mem.backup /\ j.gen = mem.gen /\ j.committed = mem.committed
        /\ j.status \notin GivenUp
    BY ONLY <2>2 DEF Journals, GivenUp
  <2> HIDE DEF j, SetupInv, GenInv
  <2> QED
    BY <2>1, <2>2, <2>3, Regenerated
<1>12. CASE Backup
  BY <1>12 DEF Backup, Present
<1>13. CASE PrepareBoot
  BY <1>13 DEF PrepareBoot
<1>14. CASE StartGuard
  BY <1>14 DEF StartGuard
<1>15. CASE Install
  BY <1>15 DEF Install
<1>16. CASE ConfigureDocker
  BY <1>16 DEF ConfigureDocker
<1>17. CASE StartRuntime
  BY <1>17 DEF StartRuntime
<1>18. CASE ApplySafe
  <2>1. /\ UNCHANGED <<journal, enabled, active>> /\ pc = "run" /\ mem.phase = "apply"
        /\ rows' = rows \/ (\E r \in {"pending", "rolled_back"} : rows' = Append(rows, r))
    BY <1>18 DEF ApplySafe
  <2>2. mem.gen = 0 /\ mem = journal /\ journal.status = "running"
    BY <2>1
  <2>3. ~Committed /\ ~journal.committed
    BY <2>2
  <2>4. \A g \in DOMAIN rows' : rows'[g] # "committed"
    <3>1. rows \in Seq({"pending", "rolled_back", "committed"})
            /\ \A g \in DOMAIN rows : rows[g] # "committed"
      BY <2>3
    <3>2. ASSUME NEW r \in {"pending", "rolled_back"}, rows' = Append(rows, r)
          PROVE  \A g \in DOMAIN rows' : rows'[g] # "committed"
      <4>1. /\ DOMAIN rows = 1 .. Len(rows) /\ Len(rows) \in Nat
                 /\ Len(rows') = Len(rows) + 1
            /\ DOMAIN rows' = 1 .. Len(rows') /\ rows'[Len(rows) + 1] = r
            /\ \A g \in 1 .. Len(rows) : rows'[g] = rows[g]
        BY ONLY <3>1, <3>2, AppendProperties, LenProperties
      <4> QED
        BY ONLY <3>1, <4>1, r \in {"pending", "rolled_back"}
    <3> QED
      BY ONLY <2>1, <3>1, <3>2
  <2>5. ~Committed'
    BY <2>4
  <2> HIDE DEF Committed
  <2> QED
    BY <2>1, <2>2, <2>3, <2>5
<1>19. CASE StartTunnel
  BY <1>19 DEF StartTunnel, Up
<1>20. CASE Validate
  BY <1>20 DEF Validate
<1>21. CASE Commit
  BY <1>21 DEF Commit, CanCommit
<1>22. CASE AfterCommit
  BY <1>22 DEF AfterCommit, PublishFinalDependencies, EnableBoot, Finalize
<1>23. CASE Fail
  <2> DEFINE j == [mem EXCEPT !.phase = "failed", !.status = "rolled_back"]
  <2>1. /\ UNCHANGED <<rows, policy, enabled, active>> /\ pc = "fail"
        /\ journal' = journal \/ (journal' = j /\ BeforeProtectedMutation(mem))
    BY <1>23 DEF Fail
  <2>2. BeforeProtectedMutation(mem) => journal.backup = "none" /\ mem.gen = 0
    BY <2>1
  <2>3. BeforeProtectedMutation(mem) => ~Committed
    BY <2>2
  <2>4. Committed' = Committed
    BY <2>1
  <2>5. j.gen = mem.gen /\ j.status = "rolled_back"
    OBVIOUS
  <2>6. journal.committed => Committed
    <3>1. journal # NoJournal => Sound(journal)
      OBVIOUS
    <3>2. journal.gen \in 0 .. MaxTxn /\ Len(rows) \in Nat /\ DOMAIN rows = 1 .. Len(rows)
      BY LenProperties
    <3> QED
      BY <3>1, <3>2
  <2> HIDE DEF Committed, j, BeforeProtectedMutation
  <2> QED
    BY <2>1, <2>2, <2>3, <2>4, <2>5, <2>6
<1>24. CASE Inspect
  <2> DEFINE j == [mem EXCEPT !.status = "commit_state_unknown"]
  <2>1. /\ UNCHANGED <<rows, policy, enabled, active>> /\ journal' \in {journal, j}
             /\ pc = "inspect"
    BY <1>24 DEF Inspect
  <2>2. Running /\ pc # "publish" /\ mem \in Journals /\ mem.status \notin GivenUp
    BY <2>1
  <2>3. /\ j.backup = mem.backup /\ j.gen = mem.gen /\ j.committed = mem.committed
        /\ j.status \notin GivenUp
    BY ONLY <2>2 DEF Journals, GivenUp
  <2> HIDE DEF j, SetupInv, GenInv
  <2> QED
    BY <2>1, <2>2, <2>3, Regenerated
<1>25. CASE Decide
  <2> DEFINE j == [mem EXCEPT !.status = IF mem.committed THEN "recovering_committed"
                    ELSE "rolling_back"]
  <2>1. /\ UNCHANGED <<rows, policy, enabled, active>> /\ journal' \in {journal, j}
             /\ pc = "decide"
    BY <1>25 DEF Decide
  <2>2. Running /\ pc # "publish" /\ mem \in Journals /\ mem.status \notin GivenUp
    BY <2>1
  <2>3. /\ j.backup = mem.backup /\ j.gen = mem.gen /\ j.committed = mem.committed
        /\ j.status \notin GivenUp
    BY ONLY <2>2 DEF Journals, GivenUp
  <2> HIDE DEF j, SetupInv, GenInv
  <2> QED
    BY <2>1, <2>2, <2>3, Regenerated
<1>26. CASE RecoverCommitted
  BY <1>26 DEF RecoverCommitted, PublishFinalDependencies, EnableBoot, Finalize
<1>27. CASE Recovered
  <2> DEFINE j == IF pc = "rec_done"
                    THEN [mem EXCEPT !.phase = "complete", !.status = "complete"]
                                     ELSE [mem EXCEPT !.status = "committed_recovery_failed"]
  <2>1. /\ UNCHANGED <<rows, policy, enabled, active>> /\ journal' \in {journal, j}
             /\ pc \in Redoing
    BY <1>27 DEF Recovered
  <2>2. Running /\ pc # "publish" /\ mem \in Journals /\ mem.status \notin GivenUp
    BY <2>1
  <2>3. /\ j.backup = mem.backup /\ j.gen = mem.gen /\ j.committed = mem.committed
        /\ j.status \notin GivenUp
    BY ONLY <2>2 DEF Journals, GivenUp
  <2> HIDE DEF j, SetupInv, GenInv
  <2> QED
    BY <2>1, <2>2, <2>3, Regenerated
<1>28. CASE RollbackTunnel
  BY <1>28 DEF RollbackTunnel, Down, FailsOn
<1>29. CASE RollbackGeneration
  BY <1>29 DEF RollbackGeneration, FailsOn
<1>30. CASE RollbackStop
  BY <1>30 DEF RollbackStop
<1>31. CASE RollbackRestore
  BY <1>31 DEF RollbackRestore, RestoreBackup, FailsOn
<1>32. CASE RollbackGuard
  BY <1>32 DEF RollbackGuard, FailsOn
<1>33. CASE RolledBack
  <2> DEFINE j == [mem EXCEPT !.phase = "failed", !.status = "rollback_reboot_required"]
             k == [mem EXCEPT !.phase = "failed", !.status = "rolled_back"]
             l == [mem EXCEPT !.status = "rollback_failed"]
  <2>1. /\ pc = "rb_done" /\ mem = journal /\ journal.status = "rolling_back"
        /\ UNCHANGED <<rows, policy, enabled, active>>
    BY <1>33 DEF RolledBack
  <2>2. \/ journal' \in {journal, l}
        \/ ~broken /\ journal' \in {j, k}
    BY <1>33 DEF RolledBack
  <2>3. /\ j.status = "rollback_reboot_required" /\ k.status = "rolled_back"
        /\ l.status = "rollback_failed" /\ l.committed = journal.committed
        /\ j.gen = journal.gen /\ j.backup = journal.backup
        /\ k.gen = journal.gen /\ k.backup = journal.backup
        /\ l.gen = journal.gen /\ l.backup = journal.backup
    BY <2>1
  <2>4. ~broken /\ mem.gen # 0 => rows[mem.gen] = "rolled_back" /\ policy # mem.gen
    BY <2>1 DEF UndoneInv
  <2>5. ~broken => ~Committed
    BY <2>1, <2>4
  <2>6. Committed' = Committed
    BY <2>1
  <2>7. ~journal.committed
    BY <2>1
  <2> HIDE DEF Committed, j, k, l
  <2> QED
    BY <2>1, <2>2, <2>3, <2>4, <2>5, <2>6, <2>7
<1>34. CASE RollbackCommand
  BY <1>34 DEF RollbackCommand, TakeOver
<1>35. CASE FinalizeBootRollback
  <2> DEFINE j == [journal EXCEPT !.status = "rolled_back", !.committed = FALSE,
                                   !.gen = IF journal.committed THEN 0 ELSE journal.gen]
  <2>1. /\ UNCHANGED <<rows, policy, enabled, active>> /\ journal' \in {journal, j}
        /\ journal.status = "rollback_reboot_required"
    BY <1>35 DEF FinalizeBootRollback, BootRolledBack
  <2>2. /\ j.status = "rolled_back" /\ j.backup = journal.backup
        /\ j.gen # 0 => j.gen = journal.gen /\ ~journal.committed
    OBVIOUS
  <2>3. journal.committed => Committed
    BY <2>1
  <2>4. Committed' = Committed
    BY <2>1
  <2> HIDE DEF Committed, j
  <2> QED
    BY <2>1, <2>2, <2>3, <2>4
<1>36. CASE BootHandoff
  <2> DEFINE j == [journal EXCEPT !.phase = "failed", !.status = "rollback_reboot_required"]
             k == [journal EXCEPT !.phase = "failed", !.status = "rolled_back",
                                  !.committed = FALSE, !.gen = 0]
  <2>1. UNCHANGED <<rows, policy, enabled, active>> /\ journal' \in {journal, j, k}
    BY <1>36 DEF BootHandoff
  <2>2. \/ journal.txn # 0
             /\ journal.status \in {"complete", "reboot_required", "resume_ready"}
        \/ journal.status = "rollback_reboot_required"
    BY <1>36 DEF BootHandoff
  <2>3. /\ j.status = "rollback_reboot_required" /\ k.status = "rolled_back"
        /\ j.committed = journal.committed /\ j.gen = journal.gen
             /\ j.backup = journal.backup
        /\ k.gen = 0 /\ k.backup = journal.backup
    OBVIOUS
  <2>4. journal.status = "rollback_reboot_required" \/ journal.committed \/ journal.gen = 0
    BY <2>2
  <2>5. journal.committed => Committed
    BY <2>2
  <2>6. Committed' = Committed
    BY <2>1
  <2> HIDE DEF Committed, j, k
  <2> QED
    BY <2>1, <2>2, <2>3, <2>4, <2>5, <2>6
<1>37. CASE WatchdogRead
  BY <1>37 DEF WatchdogRead
<1>38. CASE WatchdogLock
  BY <1>38 DEF WatchdogLock, TakeOver
<1>39. CASE Expire
  BY <1>39 DEF Expire
<1>40. CASE CandidateExpires
  BY <1>40 DEF CandidateExpires
<1>41. CASE Crash
  BY <1>41 DEF Crash
<1>42. CASE Reboot
  <2>1. /\ UNCHANGED <<journal, enabled, rows>> /\ active' = enabled
    BY <1>42 DEF Reboot
  <2>2. policy' # 0 => policy' \in DOMAIN rows /\ rows[policy'] = "committed"
    <3> DEFINE P(g) == IF g = 0 THEN \A h \in DOMAIN rows : rows[h] # "committed"
                                ELSE rows[g] = "committed"
    <3>1. Len(rows) \in Nat /\ DOMAIN rows = 1 .. Len(rows)
      BY LenProperties
    <3>2. \E g \in 0 .. Len(rows) : P(g)
      <4>1. CASE \A h \in DOMAIN rows : rows[h] # "committed"
        BY ONLY <4>1, <3>1
      <4>2. CASE \E h \in DOMAIN rows : rows[h] = "committed"
        BY ONLY <4>2, <3>1
      <4> QED
        BY ONLY <4>1, <4>2
    <3>3. policy' = 0 \/ policy' = CHOOSE g \in 0 .. Len(rows) : P(g)
      BY <1>42 DEF Reboot
    <3> HIDE DEF P
    <3>4. policy' = 0 \/ (policy' \in 0 .. Len(rows) /\ P(policy'))
      BY ONLY <3>2, <3>3
    <3> QED
      BY ONLY <3>1, <3>4 DEF P
  <2>3. Committed' = Committed
    BY <2>1
  <2> HIDE DEF Committed
  <2> QED
    BY <2>1, <2>2, <2>3
<1>43. CASE UNCHANGED vars
  BY <1>43 DEF vars
<1> QED
  BY <1>1, <1>2, <1>3, <1>4, <1>5, <1>6, <1>7, <1>8, <1>9, <1>10, <1>11, <1>12, <1>13,
     <1>14, <1>15, <1>16, <1>17, <1>18, <1>19, <1>20, <1>21, <1>22, <1>23, <1>24, <1>25,
     <1>26, <1>27, <1>28, <1>29, <1>30, <1>31, <1>32, <1>33, <1>34, <1>35, <1>36, <1>37,
     <1>38, <1>39, <1>40, <1>41, <1>42, <1>43 DEF Next, Proceed

\* What the journal says of the host is true of it after every step.
LEMMA HostStep ==
  ASSUME SetupInv, [Next]_vars
  PROVE  HostInv'
<1> USE PhaseSets DEF Fault, Goto, Return, Written, Unwritten, Record, RecordLast, Runs,
            Succeeds, Fails, Start, Enable, Prepared, RunningManaged, procVars, hostVars,
            genVars, SetupInv, TypeOK, DiskInv, MemInv, StageInv, CountInv, GenInv, HostInv,
            Journals, Sound, Fitting, NoJournal, Terminal, BeforeProtectedMutation,
            NeedsRecovery, RebootRequired, MayHaveTunnel, Clean, Committed, Working,
            Deciding, Undoing, Redoing, Labels, Running, Closed, GivenUp, Ended
<1>1. CASE StartFirst
  BY <1>1 DEF StartFirst
<1>2. CASE StartAgain
  BY <1>2 DEF StartAgain, Retired, Restored, GenerationsRetired, Lineage, Terminal
<1>3. CASE StartResume
  BY <1>3 DEF StartResume, ResumeReady, RebootRequired
<1>4. CASE PublishInitial
  BY <1>4 DEF PublishInitial
<1>5. CASE WaitBootHold
  BY <1>5 DEF WaitBootHold, ResumeReady, RebootRequired
<1>6. CASE Resume
  <2>1. /\ pc = "resume" /\ journal' \in {journal, mem}
        /\ UNCHANGED <<rows, enabled, files, boot, hold, guard, tunnel>>
    BY <1>6 DEF Resume
  <2>2. /\ mem.status = "resume_ready" /\ mem.phase = journal.phase
             /\ mem.backup = journal.backup
        /\ journal.phase = "boot_prepare"
             /\ journal.status \in {"reboot_required", "resume_ready"}
    BY <2>1
  <2> QED
    BY <2>1, <2>2
<1>7. CASE VerifyBootResume
  BY <1>7 DEF VerifyBootResume
<1>8. CASE Resumed
  <2>1. /\ pc = "resumed" /\ journal' \in {journal, mem}
        /\ UNCHANGED <<rows, enabled, files, boot, hold, guard, tunnel>>
    BY <1>8 DEF Resumed
  <2>2. /\ mem.status = "running" /\ mem.phase = journal.phase
             /\ mem.backup = journal.backup
        /\ journal.phase = "boot_prepare"
             /\ journal.status \in {"reboot_required", "resume_ready"}
    BY <2>1
  <2> QED
    BY <2>1, <2>2
<1>9. CASE Enter
  <2> DEFINE q == Following(mem.phase)
             j == [mem EXCEPT !.phase = q]
  <2>1. mem.phase \in From("inspect") /\ mem.phase # "finalize" /\ mem = journal
          /\ mem.status = "running"
    BY <1>9 DEF Enter, Phases
  <2>2. /\ journal' \in {journal, j}
        /\ UNCHANGED <<rows, enabled, files, boot, hold, guard, tunnel>>
    BY <1>9, <2>1 DEF Enter, Steps
  <2>3. j.phase = q /\ j.status = "running" /\ j.backup = journal.backup
    BY <2>1
  <2>4. MayHaveTunnel(journal.phase) => MayHaveTunnel(q)
    BY <2>1, Advance
  <2>5. q \in {"inspect", "backup", "boot_prepare"}
          => journal.phase \in {"inspect", "backup", "boot_prepare"}
    BY <2>1, Advance
  <2> HIDE DEF q, j
  <2> QED
    BY <2>1, <2>2, <2>3, <2>4, <2>5
<1>10. CASE Leave
  <2> DEFINE j == IF mem.phase = "boot_prepare"
                    THEN [mem EXCEPT !.status = "reboot_required"] ELSE mem
  <2>1. /\ pc = "leave" /\ journal' \in {journal, j}
        /\ UNCHANGED <<rows, enabled, files, boot, hold, guard, tunnel>>
    BY <1>10 DEF Leave
  <2>2. /\ journal.status = "running" /\ journal.phase = mem.phase /\ mem.status = "running"
        /\ mem.backup = "none" => journal.backup = "none"
    BY <2>1
  <2>3. j.phase = mem.phase /\ j.backup = mem.backup
          /\ j.status \in {"running", "reboot_required"}
    BY <2>2
  <2> HIDE DEF j
  <2> QED
    BY <2>1, <2>2, <2>3
<1>11. CASE Complete
  <2> DEFINE j == [mem EXCEPT !.phase = "complete", !.status = "complete"]
  <2>1. /\ pc = "complete" /\ journal' \in {journal, j} /\ mem = journal
        /\ UNCHANGED <<rows, enabled, files, boot, hold, guard, tunnel>>
    BY <1>11 DEF Complete
  <2>2. j.phase = "complete" /\ j.status = "complete" /\ j.backup = journal.backup
    BY <2>1
  <2> HIDE DEF j
  <2> QED
    BY <2>1, <2>2
<1>12. CASE Backup
  BY <1>12 DEF Backup, Present
<1>13. CASE PrepareBoot
  BY <1>13 DEF PrepareBoot
<1>14. CASE StartGuard
  BY <1>14 DEF StartGuard
<1>15. CASE Install
  BY <1>15 DEF Install
<1>16. CASE ConfigureDocker
  BY <1>16 DEF ConfigureDocker
<1>17. CASE StartRuntime
  BY <1>17 DEF StartRuntime
<1>18. CASE ApplySafe
  BY <1>18 DEF ApplySafe
<1>19. CASE StartTunnel
  BY <1>19 DEF StartTunnel, Up
<1>20. CASE Validate
  BY <1>20 DEF Validate
<1>21. CASE Commit
  BY <1>21 DEF Commit, CanCommit
<1>22. CASE AfterCommit
  BY <1>22 DEF AfterCommit, PublishFinalDependencies, EnableBoot, Finalize
<1>23. CASE Fail
  BY <1>23 DEF Fail
<1>24. CASE Inspect
  <2> DEFINE j == [mem EXCEPT !.status = "commit_state_unknown"]
  <2>1. /\ pc = "inspect" /\ journal' \in {journal, j}
        /\ UNCHANGED <<rows, enabled, files, boot, hold, guard, tunnel>>
    BY <1>24 DEF Inspect
  <2>2. /\ j.phase = mem.phase /\ j.status = "commit_state_unknown" /\ j.backup = mem.backup
        /\ mem.backup = "none" => journal.backup = "none"
        /\ MayHaveTunnel(journal.phase) => MayHaveTunnel(mem.phase)
    BY <2>1
  <2> HIDE DEF j
  <2> QED
    BY <2>1, <2>2
<1>25. CASE Decide
  BY <1>25 DEF Decide
<1>26. CASE RecoverCommitted
  BY <1>26 DEF RecoverCommitted, PublishFinalDependencies, EnableBoot, Finalize
<1>27. CASE Recovered
  <2> DEFINE j == [mem EXCEPT !.phase = "complete", !.status = "complete"]
             k == [mem EXCEPT !.status = "committed_recovery_failed"]
  <2>1. /\ journal' \in {journal, j, k} /\ mem = journal
        /\ UNCHANGED <<rows, enabled, files, boot, hold, guard, tunnel>>
    BY <1>27 DEF Recovered
  <2>2. /\ j.phase = "complete" /\ j.status = "complete" /\ j.backup = journal.backup
        /\ k.phase = mem.phase /\ k.status = "committed_recovery_failed"
             /\ k.backup = mem.backup
    BY <2>1
  <2> HIDE DEF j, k
  <2> QED
    BY <2>1, <2>2
<1>28. CASE RollbackTunnel
  <2>1. /\ tunnel' \in {tunnel, FALSE}
        /\ UNCHANGED <<journal, rows, enabled, files, boot, hold, guard>>
    BY <1>28 DEF RollbackTunnel, Down
  <2>2. tunnel' => tunnel
    BY ONLY <2>1
  <2> QED
    BY <2>1, <2>2
<1>29. CASE RollbackGeneration
  BY <1>29 DEF RollbackGeneration, FailsOn
<1>30. CASE RollbackStop
  BY <1>30 DEF RollbackStop
<1>31. CASE RollbackRestore
  <2>1. /\ pc = "rb_restore" /\ mem = journal
        /\ UNCHANGED <<journal, rows, tunnel, guard>> /\ enabled' \subseteq enabled
    BY <1>31 DEF RollbackRestore, RestoreBackup
  <2>2. journal.backup # "none" /\ journal.status = "rolling_back"
    BY <2>1 DEF UndoneInv
  <2> QED
    BY <2>1, <2>2
<1>32. CASE RollbackGuard
  BY <1>32 DEF RollbackGuard, FailsOn
<1>33. CASE RolledBack
  <2> DEFINE j == [mem EXCEPT !.phase = "failed", !.status = "rollback_reboot_required"]
             k == [mem EXCEPT !.phase = "failed", !.status = "rolled_back"]
             l == [mem EXCEPT !.status = "rollback_failed"]
  <2>1. /\ pc = "rb_done" /\ mem = journal
        /\ UNCHANGED <<rows, enabled, files, boot, hold, guard, tunnel>>
    BY <1>33 DEF RolledBack
  <2>2. \/ journal' = journal
        \/ broken /\ journal' = l
        \/ ~broken /\ journal' \in {j, k}
    BY <1>33 DEF RolledBack
  <2>3. /\ j.phase = "failed" /\ j.status = "rollback_reboot_required"
             /\ j.backup = journal.backup
        /\ k.phase = "failed" /\ k.status = "rolled_back" /\ k.backup = journal.backup
        /\ l.phase = journal.phase /\ l.status = "rollback_failed"
             /\ l.backup = journal.backup
    BY <2>1
  <2>4. ~broken => Clean
    BY <2>1 DEF UndoneInv
  <2> HIDE DEF j, k, l
  <2> QED
    BY <2>1, <2>2, <2>3, <2>4
<1>34. CASE RollbackCommand
  BY <1>34 DEF RollbackCommand, TakeOver
<1>35. CASE FinalizeBootRollback
  <2>1. /\ UNCHANGED <<rows, enabled, files, boot, hold, guard, tunnel>>
        /\ journal' = journal \/ (journal'.status = "rolled_back"
             /\ journal'.phase = journal.phase
                                  /\ journal'.backup = journal.backup)
    BY <1>35 DEF FinalizeBootRollback
  <2>2. journal.status = "rollback_reboot_required" /\ boot = journal.backup /\ ~hold
    BY <1>35 DEF FinalizeBootRollback, BootRolledBack, Restored
  <2>3. journal.backup = "prior" /\ journal.phase = "failed"
    BY <2>2
  <2>4. Committed' = Committed
    BY <2>1
  <2> HIDE DEF Committed
  <2> QED
    BY <2>1, <2>2, <2>3, <2>4
<1>36. CASE BootHandoff
  <2> DEFINE j == [journal EXCEPT !.phase = "failed", !.status = "rollback_reboot_required"]
             k == [journal EXCEPT !.phase = "failed", !.status = "rolled_back",
                                  !.committed = FALSE, !.gen = 0]
  <2>0. /\ UNCHANGED <<rows, enabled, files, guard, tunnel>>
        /\ \/ UNCHANGED journal /\ hold' \in {hold, FALSE} /\ boot' \in {"prior", "mixed"}
           \/ boot' = "prior" /\ hold' = FALSE /\ journal' \in {j, k}
    BY <1>36 DEF BootHandoff
  <2>9. /\ j.phase = "failed" /\ j.status \in GivenUp /\ j.backup = journal.backup
        /\ k.phase = "failed" /\ k.status \in GivenUp /\ k.backup = journal.backup
    OBVIOUS
  <2> HIDE DEF j, k
  <2>1. /\ UNCHANGED <<rows, enabled, files, guard, tunnel>>
        /\ \/ UNCHANGED journal /\ hold' \in {hold, FALSE} /\ boot' \in {"prior", "mixed"}
           \/ /\ boot' = "prior" /\ hold' = FALSE /\ journal'.phase = "failed"
              /\ journal'.status \in GivenUp /\ journal'.backup = journal.backup
    BY <2>0, <2>9
  <2>2. \/ journal.txn # 0
             /\ journal.status \in {"complete", "reboot_required", "resume_ready"}
        \/ journal.status = "rollback_reboot_required"
    BY <1>36 DEF BootHandoff
  <2>3. journal.backup = "prior"
    BY <2>2
  <2>4. journal.status = "complete" => Committed
    BY <2>2
  <2>5. Committed' = Committed
    BY <2>1
  <2>6. ~Committed => files = "prior" /\ ~guard /\ ~tunnel
    BY <2>2, <2>4
  <2>7. journal.status # "rolled_back"
    BY <2>2
  <2>8. journal'.status \in {"running", "reboot_required", "resume_ready"}
          => UNCHANGED journal
    BY <2>1
  <2> HIDE DEF Committed, Sound, Fitting
  <2> QED
    BY <2>1, <2>3, <2>5, <2>6, <2>7, <2>8
<1>37. CASE WatchdogRead
  BY <1>37 DEF WatchdogRead
<1>38. CASE WatchdogLock
  BY <1>38 DEF WatchdogLock, TakeOver
<1>39. CASE Expire
  BY <1>39 DEF Expire
<1>40. CASE CandidateExpires
  BY <1>40 DEF CandidateExpires
<1>41. CASE Crash
  BY <1>41 DEF Crash
<1>42. CASE Reboot
  <2>1. /\ UNCHANGED <<journal, files, boot, hold, enabled, rows>>
        /\ guard' = FALSE /\ tunnel' = ("vpn" \in enabled)
    BY <1>42 DEF Reboot
  <2>2. tunnel' <=> "vpn" \in enabled
    BY <2>1
  <2>3. "vpn" \in enabled => journal.committed \/ (Committed
          /\ journal.status = "rolled_back")
    OBVIOUS
  <2>4. "vpn" \in enabled => Committed
    BY <2>3
  <2>5. Committed' = Committed
    BY <2>1
  <2> HIDE DEF Committed
  <2> QED
    BY <2>1, <2>2, <2>4, <2>5
<1>43. CASE UNCHANGED vars
  BY <1>43 DEF vars
<1> QED
  BY <1>1, <1>2, <1>3, <1>4, <1>5, <1>6, <1>7, <1>8, <1>9, <1>10, <1>11, <1>12, <1>13,
     <1>14, <1>15, <1>16, <1>17, <1>18, <1>19, <1>20, <1>21, <1>22, <1>23, <1>24, <1>25,
     <1>26, <1>27, <1>28, <1>29, <1>30, <1>31, <1>32, <1>33, <1>34, <1>35, <1>36, <1>37,
     <1>38, <1>39, <1>40, <1>41, <1>42, <1>43 DEF Next, Proceed

\* The steps of the rollback, each on what the ones before it have undone.
LEMMA UndoneStep ==
  ASSUME SetupInv, [Next]_vars
  PROVE  UndoneInv'
<1> USE PhaseSets DEF Fault, Goto, Return, Written, Unwritten, Record, RecordLast, Runs,
            Succeeds, Fails, Start, Enable, Prepared, RunningManaged, procVars, hostVars,
            genVars, SetupInv, TypeOK, DiskInv, MemInv, StageInv, UndoneInv, CountInv,
            GenInv, HostInv, Journals, Sound, Fitting, NoJournal, Terminal,
            BeforeProtectedMutation, NeedsRecovery, RebootRequired, MayHaveTunnel, Clean,
            Committed, Working, Deciding, Undoing, Redoing, Labels, Running, Closed,
            GivenUp, Ended
<1>1. CASE StartFirst
  BY <1>1 DEF StartFirst
<1>2. CASE StartAgain
  BY <1>2 DEF StartAgain, Retired, Restored, GenerationsRetired, Lineage, Terminal
<1>3. CASE StartResume
  BY <1>3 DEF StartResume, ResumeReady, RebootRequired
<1>4. CASE PublishInitial
  BY <1>4 DEF PublishInitial
<1>5. CASE WaitBootHold
  BY <1>5 DEF WaitBootHold, ResumeReady, RebootRequired
<1>6. CASE Resume
  BY <1>6 DEF Resume
<1>7. CASE VerifyBootResume
  BY <1>7 DEF VerifyBootResume
<1>8. CASE Resumed
  BY <1>8 DEF Resumed
<1>9. CASE Enter
  BY <1>9 DEF Enter, Steps
<1>10. CASE Leave
  BY <1>10 DEF Leave
<1>11. CASE Complete
  BY <1>11 DEF Complete
<1>12. CASE Backup
  BY <1>12 DEF Backup, Present
<1>13. CASE PrepareBoot
  BY <1>13 DEF PrepareBoot
<1>14. CASE StartGuard
  BY <1>14 DEF StartGuard
<1>15. CASE Install
  BY <1>15 DEF Install
<1>16. CASE ConfigureDocker
  BY <1>16 DEF ConfigureDocker
<1>17. CASE StartRuntime
  BY <1>17 DEF StartRuntime
<1>18. CASE ApplySafe
  BY <1>18 DEF ApplySafe
<1>19. CASE StartTunnel
  BY <1>19 DEF StartTunnel, Up
<1>20. CASE Validate
  BY <1>20 DEF Validate
<1>21. CASE Commit
  BY <1>21 DEF Commit, CanCommit
<1>22. CASE AfterCommit
  BY <1>22 DEF AfterCommit, PublishFinalDependencies, EnableBoot, Finalize
<1>23. CASE Fail
  BY <1>23 DEF Fail
<1>24. CASE Inspect
  BY <1>24 DEF Inspect, Undecided, GenerationCommitted, Snapshot
<1>25. CASE Decide
  BY <1>25 DEF Decide
<1>26. CASE RecoverCommitted
  BY <1>26 DEF RecoverCommitted, PublishFinalDependencies, EnableBoot, Finalize
<1>27. CASE Recovered
  BY <1>27 DEF Recovered
<1>28. CASE RollbackTunnel
  <2>1. /\ pc = "rb_tunnel" /\ mem' = mem /\ mem = journal
        /\ UNCHANGED <<journal, rows, policy, files, boot, hold, guard>>
        /\ pc' = IF BeforeProtectedMutation(mem) THEN "rb_done" ELSE "rb_generation"
    BY <1>28 DEF RollbackTunnel
  <2>2. ~broken' => \/ tunnel' = FALSE
                    \/ tunnel' = tunnel /\ (BeforeProtectedMutation(mem)
                         \/ ~MayHaveTunnel(mem.phase))
    BY <1>28 DEF RollbackTunnel, Down, FailsOn
  <2>3. BeforeProtectedMutation(mem) => Clean /\ mem.gen = 0
    BY <2>1
  <2>4. tunnel => MayHaveTunnel(mem.phase)
    BY <2>1
  <2>5. ~broken' => ~tunnel'
    BY <2>2, <2>3, <2>4
  <2> HIDE DEF BeforeProtectedMutation
  <2>6. BeforeProtectedMutation(mem)' = BeforeProtectedMutation(mem)
    BY <2>1 DEF BeforeProtectedMutation
  <2> QED
    BY <2>1, <2>3, <2>5, <2>6
<1>29. CASE RollbackGeneration
  BY <1>29 DEF RollbackGeneration, FailsOn
<1>30. CASE RollbackStop
  BY <1>30 DEF RollbackStop
<1>31. CASE RollbackRestore
  <2>1. /\ pc = "rb_restore" /\ mem' = mem /\ mem = journal
        /\ UNCHANGED <<journal, rows, policy, tunnel, guard>>
        /\ pc' \in {"rb_guard", "rb_done"}
    BY <1>31 DEF RollbackRestore
  <2>2. mem.backup = "prior"
    BY <2>1
  <2>3. ~broken' => /\ files' = "prior" /\ boot' = "prior" /\ ~hold' /\ pc' = "rb_guard"
                    /\ ~broken
    BY <1>31, <2>2 DEF RollbackRestore, RestoreBackup, FailsOn
  <2> QED
    BY <2>1, <2>3
<1>32. CASE RollbackGuard
  BY <1>32 DEF RollbackGuard, FailsOn
<1>33. CASE RolledBack
  BY <1>33 DEF RolledBack
<1>34. CASE RollbackCommand
  BY <1>34 DEF RollbackCommand, TakeOver
<1>35. CASE FinalizeBootRollback
  BY <1>35 DEF FinalizeBootRollback, BootRolledBack, Restored
<1>36. CASE BootHandoff
  BY <1>36 DEF BootHandoff
<1>37. CASE WatchdogRead
  BY <1>37 DEF WatchdogRead
<1>38. CASE WatchdogLock
  BY <1>38 DEF WatchdogLock, TakeOver
<1>39. CASE Expire
  BY <1>39 DEF Expire
<1>40. CASE CandidateExpires
  BY <1>40 DEF CandidateExpires
<1>41. CASE Crash
  BY <1>41 DEF Crash
<1>42. CASE Reboot
  BY <1>42 DEF Reboot
<1>43. CASE UNCHANGED vars
  BY <1>43 DEF vars
<1> QED
  BY <1>1, <1>2, <1>3, <1>4, <1>5, <1>6, <1>7, <1>8, <1>9, <1>10, <1>11, <1>12, <1>13,
     <1>14, <1>15, <1>16, <1>17, <1>18, <1>19, <1>20, <1>21, <1>22, <1>23, <1>24, <1>25,
     <1>26, <1>27, <1>28, <1>29, <1>30, <1>31, <1>32, <1>33, <1>34, <1>35, <1>36, <1>37,
     <1>38, <1>39, <1>40, <1>41, <1>42, <1>43 DEF Next, Proceed

\* A daemon that has looked at nftables answers for a commit the journal does
\* not know of, so nothing committed is undone.
LEMMA KeepStep ==
  ASSUME SetupInv, KeepInv, ~DegradedStatus, [Next]_vars
  PROVE  KeepInv'
<1> USE PhaseSets DEF Fault, Goto, Return, Written, Unwritten, Record, RecordLast, Runs,
            Succeeds, Fails, Start, Enable, Prepared, RunningManaged, procVars, hostVars,
            genVars, SetupInv, TypeOK, DiskInv, MemInv, StageInv, GenInv, Journals, Sound,
            Fitting, NoJournal, Terminal, BeforeProtectedMutation, NeedsRecovery,
            RebootRequired, MayHaveTunnel, Clean, Committed, Working, Deciding, Undoing,
            Redoing, Labels, Running, Closed, GivenUp, Ended, KeepInv
<1>1. CASE StartFirst
  BY <1>1 DEF StartFirst
<1>2. CASE StartAgain
  BY <1>2 DEF StartAgain, Retired, Restored, GenerationsRetired, Lineage, Terminal
<1>3. CASE StartResume
  BY <1>3 DEF StartResume, ResumeReady, RebootRequired
<1>4. CASE PublishInitial
  BY <1>4 DEF PublishInitial
<1>5. CASE WaitBootHold
  BY <1>5 DEF WaitBootHold, ResumeReady, RebootRequired
<1>6. CASE Resume
  BY <1>6 DEF Resume
<1>7. CASE VerifyBootResume
  BY <1>7 DEF VerifyBootResume
<1>8. CASE Resumed
  BY <1>8 DEF Resumed
<1>9. CASE Enter
  BY <1>9 DEF Enter, Steps
<1>10. CASE Leave
  BY <1>10 DEF Leave
<1>11. CASE Complete
  <2>1. /\ UNCHANGED <<rows, files>> /\ mem' = NoJournal /\ pc' = "idle"
        /\ journal' = journal \/ journal'.status = "complete"
    BY <1>11 DEF Complete
  <2> QED
    BY <2>1
<1>12. CASE Backup
  BY <1>12 DEF Backup, Present
<1>13. CASE PrepareBoot
  BY <1>13 DEF PrepareBoot
<1>14. CASE StartGuard
  BY <1>14 DEF StartGuard
<1>15. CASE Install
  BY <1>15 DEF Install
<1>16. CASE ConfigureDocker
  BY <1>16 DEF ConfigureDocker
<1>17. CASE StartRuntime
  BY <1>17 DEF StartRuntime
<1>18. CASE ApplySafe
  BY <1>18 DEF ApplySafe
<1>19. CASE StartTunnel
  BY <1>19 DEF StartTunnel, Up
<1>20. CASE Validate
  BY <1>20 DEF Validate
<1>21. CASE Commit
  BY <1>21 DEF Commit, CanCommit
<1>22. CASE AfterCommit
  BY <1>22 DEF AfterCommit, PublishFinalDependencies, EnableBoot, Finalize
<1>23. CASE Fail
  BY <1>23 DEF Fail
<1>24. CASE Inspect
  <2>1. /\ UNCHANGED <<rows, files>> /\ pc = "inspect" /\ pc' \in {"decide", "idle"}
        /\ pc' = "idle" => mem' = NoJournal
        /\ journal' = journal \/ journal'.status = "commit_state_unknown"
    BY <1>24 DEF Inspect
  <2>2. pc' = "decide" => \/ ~Undecided(mem) /\ mem' = mem
                          \/ /\ Undecided(mem) /\ "nftfwd" \in active
                             /\ \E c \in GenerationCommitted(mem.gen) :
                                  mem' = [mem EXCEPT !.committed = c]
    BY <1>24 DEF Inspect
  <2>3. Committed => journal.gen # 0 /\ rows[journal.gen] = "committed"
          /\ mem.gen = journal.gen
    BY <2>1
  <2>4. Committed /\ "nftfwd" \in active /\ ~mem.committed => policy = mem.gen
    BY <2>1, <2>3
  <2>5. \A c \in GenerationCommitted(mem.gen) : c = (rows[mem.gen] = "committed"
          /\ policy = mem.gen)
    BY DEF GenerationCommitted, Snapshot
  <2>6. pc' = "decide" /\ ~mem'.committed => ~Committed
    <3>1. CASE ~Undecided(mem) /\ mem' = mem
      BY <2>1, <2>3, <3>1 DEF Undecided
    <3>2. CASE Undecided(mem) /\ "nftfwd" \in active
                 /\ \E c \in GenerationCommitted(mem.gen) :
                      mem' = [mem EXCEPT !.committed = c]
      <4>1. PICK c \in GenerationCommitted(mem.gen) : mem' = [mem EXCEPT !.committed = c]
        BY <3>2
      <4>2. mem'.committed = c /\ ~mem.committed
        BY <4>1, <3>2 DEF Undecided
      <4> HIDE DEF Committed
      <4> QED
        BY <2>3, <2>4, <2>5, <3>2, <4>1, <4>2
    <3> QED
      BY <2>2, <3>1, <3>2
  <2>7. pc' = "decide" => mem'.status = mem.status
    BY <2>2
  <2>8. Committed' = Committed
    BY <2>1
  <2> HIDE DEF Committed
  <2> QED
    BY <2>1, <2>6, <2>7, <2>8
<1>25. CASE Decide
  BY <1>25 DEF Decide
<1>26. CASE RecoverCommitted
  BY <1>26 DEF RecoverCommitted, PublishFinalDependencies, EnableBoot, Finalize
<1>27. CASE Recovered
  <2> DEFINE j == [mem EXCEPT !.phase = "complete", !.status = "complete"]
             k == [mem EXCEPT !.status = "committed_recovery_failed"]
  <2>1. /\ UNCHANGED <<rows, files>> /\ mem' = NoJournal /\ pc' = "idle"
        /\ journal' \in {journal, j, k}
    BY <1>27 DEF Recovered
  <2>2. j.status = "complete" /\ k.status = "committed_recovery_failed"
    OBVIOUS
  <2> HIDE DEF j, k
  <2> QED
    BY <2>1, <2>2
<1>28. CASE RollbackTunnel
  BY <1>28 DEF RollbackTunnel, Down, FailsOn
<1>29. CASE RollbackGeneration
  BY <1>29 DEF RollbackGeneration, FailsOn
<1>30. CASE RollbackStop
  BY <1>30 DEF RollbackStop
<1>31. CASE RollbackRestore
  BY <1>31 DEF RollbackRestore, RestoreBackup, FailsOn
<1>32. CASE RollbackGuard
  BY <1>32 DEF RollbackGuard, FailsOn
<1>33. CASE RolledBack
  BY <1>33 DEF RolledBack
<1>34. CASE RollbackCommand
  BY <1>34 DEF RollbackCommand, TakeOver
<1>35. CASE FinalizeBootRollback
  BY <1>35 DEF FinalizeBootRollback, BootRolledBack, Restored
<1>36. CASE BootHandoff
  <2> DEFINE j == [journal EXCEPT !.phase = "failed", !.status = "rollback_reboot_required"]
             k == [journal EXCEPT !.phase = "failed", !.status = "rolled_back",
                                  !.committed = FALSE, !.gen = 0]
  <2>1. UNCHANGED <<rows, files, mem, pc>> /\ journal' \in {journal, j, k}
    BY <1>36 DEF BootHandoff
  <2>2. j.status \in GivenUp /\ k.status \in GivenUp
    OBVIOUS
  <2> HIDE DEF j, k
  <2> QED
    BY <2>1, <2>2
<1>37. CASE WatchdogRead
  BY <1>37 DEF WatchdogRead
<1>38. CASE WatchdogLock
  BY <1>38 DEF WatchdogLock, TakeOver
<1>39. CASE Expire
  BY <1>39 DEF Expire
<1>40. CASE CandidateExpires
  BY <1>40 DEF CandidateExpires
<1>41. CASE Crash
  BY <1>41 DEF Crash
<1>42. CASE Reboot
  BY <1>42 DEF Reboot
<1>43. CASE UNCHANGED vars
  BY <1>43 DEF vars
<1> QED
  BY <1>1, <1>2, <1>3, <1>4, <1>5, <1>6, <1>7, <1>8, <1>9, <1>10, <1>11, <1>12, <1>13,
     <1>14, <1>15, <1>16, <1>17, <1>18, <1>19, <1>20, <1>21, <1>22, <1>23, <1>24, <1>25,
     <1>26, <1>27, <1>28, <1>29, <1>30, <1>31, <1>32, <1>33, <1>34, <1>35, <1>36, <1>37,
     <1>38, <1>39, <1>40, <1>41, <1>42, <1>43 DEF Next, Proceed

-----------------------------------------------------------------------------
(* The theorems. *)

\* A host on which no setup has run.
LEMMA SetupInit ==
  ASSUME Init
  PROVE  SetupInv /\ KeepInv
<1>1. TypeOK
  <2>1. <<>> \in Seq({"pending", "rolled_back", "committed"}) /\ Len(<<>>) = 0
    OBVIOUS
  <2>2. 0 \in 0 .. MaxTxn /\ 0 \in 0 .. MaxFaults /\ 0 \in 0 .. MaxBoots /\ 0 <= MaxTxn
    BY SetupConstants
  <2>3. NoJournal \in Journals
    BY JournalTypes
  <2> QED
    BY <2>1, <2>2, <2>3 DEF Init, TypeOK, Contents, Units
<1>2. Len(rows) = 0 /\ ~Committed
  BY DEF Init, Committed
<1>3. /\ journal.status = "complete" /\ journal.gen = 0 /\ journal.txn = 0
           /\ journal.backup = "none"
      /\ journal.committed = FALSE
  BY DEF Init, NoJournal
<1>4. DiskInv /\ MemInv /\ StageInv /\ UndoneInv
  BY DEF Init, DiskInv, MemInv, StageInv, UndoneInv, Running, Working, Deciding, Undoing,
    Redoing,
         Labels
<1>5. CountInv
  BY <1>2, <1>3 DEF Init, CountInv
<1>6. GenInv /\ HostInv
  BY <1>2, <1>3 DEF Init, GenInv, HostInv, Clean, GivenUp
<1>7. KeepInv
  BY <1>2 DEF KeepInv
<1> QED
  BY <1>1, <1>4, <1>5, <1>6, <1>7 DEF SetupInv

\* Every step of a process, of the watchdog or of the host keeps it.
LEMMA SetupStep ==
  ASSUME SetupInv, [Next]_vars
  PROVE  SetupInv'
<1>0. TypeOK
  BY DEF SetupInv
<1>1. TypeOK'
  BY <1>0, CounterStep, SwitchStep, HostTypeStep, RowsStep, RecordStep DEF TypeOK
<1>2. policy' <= Len(rows')
  BY RowsStep
<1> QED
  BY <1>1, <1>2, DiskStep, MemStep, StageStep, CountStep, GenStep, HostStep,
    UndoneStep DEF SetupInv

\* The inductive invariant holds of every state.
THEOREM SetupInvariant == Spec => []SetupInv
<1>1. Init => SetupInv
  BY SetupInit
<1>2. SetupInv /\ [Next]_vars => SetupInv'
  BY SetupStep
<1> QED
  BY <1>1, <1>2, PTL DEF Spec

\* The variables keep their types, and the counters their bounds.
THEOREM SetupTypes == Spec => []TypeOK
<1>1. SetupInv => TypeOK
  BY DEF SetupInv
<1> QED
  BY <1>1, SetupInvariant, PTL

\* Whatever a setup, a recovery, a failed write or a death leaves in the
\* journal, validateSetupWatchdogJournal accepts it: no interleaving strands
\* the recovery commands.
THEOREM JournalsAreAccepted == Spec => []JournalAccepted
<1>1. SetupInv => JournalAccepted
  BY SoundAccepted DEF SetupInv, TypeOK, DiskInv, JournalAccepted
<1> QED
  BY <1>1, SetupInvariant, PTL

\* A journal that says rolled_back over no commit means the host of before the
\* setup: files, boot loader, hold marker, guard and tunnel.
THEOREM RollbackRestores == Spec => []RolledBackIsRestored
<1>1. SetupInv => RolledBackIsRestored
  BY DEF SetupInv, HostInv, RolledBackIsRestored, Terminal, GivenUp
<1> QED
  BY <1>1, SetupInvariant, PTL

\* However often a setup starts again, its backup holds the original host.
THEOREM BackupsHoldPrior == Spec => []BackupsArePrior
<1>1. SetupInv => BackupsArePrior
  <2> SUFFICES ASSUME SetupInv, NEW j \in archive \cup {journal, mem}
               PROVE  j.backup \in {"none", "prior"}
    BY DEF BackupsArePrior
  <2>1. NoJournal.backup = "none"
    BY DEF NoJournal
  <2>2. CASE j \in archive
    BY <2>2 DEF SetupInv, DiskInv
  <2>3. CASE j = journal
    BY <2>1, <2>3 DEF SetupInv, DiskInv, Sound
  <2>4. CASE j = mem
    BY <2>1, <2>4 DEF SetupInv, MemInv, Sound
  <2> QED
    BY <2>2, <2>3, <2>4
<1> QED
  BY <1>1, SetupInvariant, PTL

\* A setup closed as rolled back has no candidate in the kernel or pending.
THEOREM RollbackRemovesGeneration == Spec => []GenerationGone
<1>1. SetupInv => GenerationGone
  BY DEF SetupInv, GenInv, GenerationGone, Terminal, GivenUp
<1> QED
  BY <1>1, SetupInvariant, PTL

\* When the daemon's report has looked at nftables, no recovery, death, lost
\* answer or failed write undoes the files of a committed setup.  The
\* hypothesis is needed: a report that has not looked is believed, and the
\* committed setup is rolled back.
THEOREM CommitIsKept == ~DegradedStatus => (Spec => []CommittedStays)
<1> SUFFICES ASSUME ~DegradedStatus PROVE Spec => []CommittedStays
  OBVIOUS
<1>1. Init => SetupInv /\ KeepInv
  BY SetupInit
<1>2. SetupInv /\ KeepInv /\ [Next]_vars => SetupInv' /\ KeepInv'
  BY SetupStep, KeepStep
<1>3. KeepInv => CommittedStays
  BY DEF KeepInv, CommittedStays
<1> QED
  BY <1>1, <1>2, <1>3, PTL DEF Spec

=============================================================================
