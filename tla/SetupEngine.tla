---------------------------- MODULE SetupEngine ----------------------------
(***************************************************************************)
(* The managed setup: a sequence of changes of the host, recorded phase by *)
(* phase in one journal, interrupted by a reboot it asks for, and undone   *)
(* or finished by whoever finds it unfinished (internal/setup and the      *)
(* setup commands of cmd/nftfw).                                           *)
(*                                                                         *)
(* One process at a time holds the setup lock: the setup itself, `setup    *)
(* rollback' of the operator, the same command started by the watchdog     *)
(* timer, or the boot hold that keeps the network down until a setup can   *)
(* be resumed.  It may die before any of its steps and the host may        *)
(* reboot; the journal, the files, the enabled units and the daemon's rows *)
(* survive, the nftables rules and the active units do not.                *)
(***************************************************************************)
EXTENDS Naturals, Sequences, FiniteSets

CONSTANTS MaxTxn,     \* bound: setups started
          MaxFaults,  \* bound: failed operations and deaths
          MaxBoots,   \* bound: reboots
          DegradedStatus  \* whether the daemon may fail to look at nftables

ASSUME SetupConstants ==
    /\ MaxTxn \in Nat \ {0} /\ MaxFaults \in Nat /\ MaxBoots \in Nat
    /\ DegradedStatus \in BOOLEAN

VARIABLES
    journal,  \* setup/journal.json
    archive,  \* setup/history: the journals of the setups given up
    late,     \* whether the journal's deadline has passed
    pc,       \* the step of the process that holds the setup lock
    mem,      \* its journal in memory
    broken,   \* whether a step of its rollback has failed
    seen,     \* the transaction the watchdog read before it asks for the lock
    guard,    \* whether the temporary nftables guard is in place
    tunnel,   \* whether the managed tunnel is up
    files,    \* the managed files: as before, as setup wants them, or partly
    boot,     \* what the boot loader and the initramfs hold, likewise
    hold,     \* whether the marker of the boot hold is on the disk
    kernel,   \* what the running kernel was booted with
    enabled,  \* units that start at boot
    active,   \* units that run
    database, \* whether the daemon has created its database
    rows,     \* the generations in it, by identity
    policy,   \* the generation in the kernel, 0 for none
    faults, boots

procVars == <<pc, mem, broken>>
hostVars == <<guard, tunnel, files, boot, hold, kernel, enabled, active>>
genVars  == <<database, rows, policy>>
vars == <<journal, archive, late, procVars, seen, hostVars, genVars, faults, boots>>

(* The phases that change the host, in order; the first two end in the     *)
(* request to reboot, the others look at the deadline before they start.   *)
Order == <<"inspect", "backup", "boot_prepare", "guard", "install", "docker",
           "runtime", "apply", "tunnel", "validate", "commit", "handoff",
           "boot", "finalize">>
Index(p) == CHOOSE i \in DOMAIN Order : Order[i] = p
Following(p) == Order[Index(p) + 1]
From(p) == {Order[i] : i \in Index(p) .. Len(Order)}
Steps == From("guard")
Phases == From("inspect") \cup {"complete", "failed"}

Statuses == {"running", "reboot_required", "resume_ready", "rolling_back",
             "rollback_failed", "rollback_reboot_required", "rolled_back",
             "commit_state_unknown", "recovering_committed",
             "committed_recovery_failed", "complete"}
Units == {"watchdog", "gentimer", "nftfwd", "early", "vpn"}
Contents == {"prior", "mixed", "managed"}

NoJournal == [txn |-> 0, phase |-> "inspect", status |-> "complete", gen |-> 0,
              committed |-> FALSE, backup |-> "none"]

(* backup is "none" without a BackupDir, and else what the backup holds. *)
Journals == [txn : 0 .. MaxTxn, phase : Phases, status : Statuses,
             gen : 0 .. MaxTxn, committed : BOOLEAN,
             backup : Contents \cup {"none"}]

\* Mutant: a status the readers of the journal do not know.
InitialUnknown(t) == [NoJournal EXCEPT !.txn = t, !.status = "starting"]

\* The journal a new transaction begins with.
Initial(t) == [NoJournal EXCEPT !.txn = t, !.status = "running"]

NeedsRecovery(j) ==
    j.status \in {"running", "resume_ready", "rolling_back",
                  "recovering_committed", "rollback_failed",
                  "commit_state_unknown", "committed_recovery_failed"}

BeforeProtectedMutation(j) ==
    /\ ~j.committed /\ j.gen = 0 /\ j.backup = "none"
    /\ j.phase \in {"inspect", "backup"}

RebootRequired(j) ==
    /\ j.phase = "boot_prepare" /\ j.status \in {"reboot_required", "resume_ready"}
    /\ ~j.committed /\ j.gen = 0 /\ j.backup # "none"

MayHaveTunnel(p) == p \in From("tunnel") \cup {"complete", "failed"}

Terminal(j) == j.txn # 0 /\ j.status = "rolled_back" /\ j.phase = "failed" /\ ~j.committed

\* The combinations the recovery commands accept; they refuse to act on others.
\* (The error code, which must be empty in the statuses that wait for a reboot or
\* a resumption and which every write of them clears, is left out.)
Accepted(j) ==
    /\ j.txn # 0
    /\ j.committed => j.gen # 0
    /\ CASE j.status = "running" -> j.phase \in From("inspect")
         [] j.status = "complete" -> j.phase = "complete" /\ j.committed
         [] j.status = "rolled_back" -> j.phase = "failed" /\ ~j.committed
         [] j.status \in {"reboot_required", "resume_ready"} ->
                j.phase = "boot_prepare" /\ ~j.committed /\ j.gen = 0 /\ j.backup # "none"
         [] j.status = "rollback_reboot_required" ->
                j.phase = "failed" /\ j.backup # "none"
         [] j.status \in {"rolling_back", "rollback_failed"} ->
                /\ j.phase \in (From("inspect") \ From("handoff")) \cup {"failed"}
                /\ ~j.committed
         [] j.status \in {"recovering_committed", "committed_recovery_failed"} ->
                j.phase \in From("commit") /\ j.committed /\ j.gen # 0
         [] j.status = "commit_state_unknown" ->
                /\ j.phase \in From("apply") \ From("handoff")
                /\ ~j.committed /\ j.gen # 0
    /\ (NeedsRecovery(j) /\ j.phase \notin {"inspect", "backup"}) => j.backup # "none"

-----------------------------------------------------------------------------
(* Journal writes, failures and deaths. *)

Fault == faults < MaxFaults /\ faults' = faults + 1

Goto(l) == pc' = l /\ UNCHANGED broken

\* The process returns and releases the lock.
Return == pc' = "idle" /\ mem' = NoJournal /\ broken' = FALSE

\* A write of j.  A failed one may still have replaced the file.
Written(j) == journal' = j /\ UNCHANGED faults
Unwritten(j) == journal' \in {journal, j} /\ Fault

\* A write that goes on at l, or fails the transaction.
Record(j, l) ==
    /\ mem' = j
    /\ \/ Written(j) /\ Goto(l)
       \/ Unwritten(j) /\ Goto("fail")

\* The write of a result, which the process makes last.
RecordLast(j) == Return /\ (Written(j) \/ Unwritten(j))

\* The process dies, or the host does not schedule it any more.
Crash ==
    /\ pc # "idle" /\ Fault /\ Return
    /\ UNCHANGED <<journal, archive, late, seen, hostVars, genVars, boots>>

\* The deadline passes.
Expire ==
    /\ NeedsRecovery(journal) \/ journal.status = "reboot_required"
    /\ ~late /\ late' = TRUE
    /\ UNCHANGED <<journal, archive, procVars, seen, hostVars, genVars, faults, boots>>

-----------------------------------------------------------------------------
(* Looking at the host. *)

\* The boot loader and the initramfs hold the managed policy, or nothing of it.
Prepared(c) == boot = c

\* The kernel runs with the managed policy.
RunningManaged == kernel = "managed"

\* Every file and unit is as the backup of j has it.
Restored(j) == files = j.backup /\ Prepared(j.backup) /\ enabled = {} /\ active = {}

\* A setup that waits for its reboot, after that reboot.
ResumeReady == RebootRequired(journal) /\ Prepared("managed") /\ RunningManaged

-----------------------------------------------------------------------------
(* Starting and resuming a setup. *)

\* A clean host: Prepare finds nothing of an earlier setup.
StartFirst ==
    /\ pc = "idle" /\ journal = NoJournal
    /\ mem' = Initial(1) /\ Goto("publish")
    /\ UNCHANGED <<journal, archive, late, seen, hostVars, genVars, faults, boots>>

\* Mutant: the terminal journal is taken for the state of the host.
RetiredByJournal == Terminal(journal)

Lineage == archive \cup {journal}

\* The journals given up account for every generation, none of which was kept.
GenerationsRetired ==
    /\ {rows[g] : g \in DOMAIN rows} \subseteq {"rolled_back"}
    /\ {j.gen : j \in Lineage} \ {0} = DOMAIN rows
    /\ database => rows # <<>> /\ journal.gen = Len(rows)

\* What inspectRetiredFirstSetup demands of a host before it starts again.
Retired ==
    /\ Terminal(journal)
    /\ policy = 0 /\ ~guard /\ ~tunnel /\ ~hold /\ Prepared("prior") /\ ~RunningManaged
    /\ \A j \in Lineage : IF j.backup = "none" THEN j.gen = 0 ELSE Restored(j)
    /\ GenerationsRetired

\* The journal given up goes to the history first, then the new one replaces it.
StartAgain ==
    /\ pc = "idle" /\ Retired /\ journal.txn < MaxTxn
    /\ archive' = Lineage
    /\ mem' = Initial(journal.txn + 1) /\ Goto("publish")
    /\ UNCHANGED <<journal, late, seen, hostVars, genVars, faults, boots>>

PublishInitial ==
    /\ pc = "publish"
    /\ \/ Written(mem) /\ Goto("enter") /\ UNCHANGED mem
       \/ Unwritten(mem) /\ Return
    /\ late' = (late /\ journal' = journal)
    /\ UNCHANGED <<archive, seen, hostVars, genVars, boots>>

\* The boot hold, which has the lock since the boot, returns only over a setup
\* that can be resumed; over any other journal it waits without a limit.
WaitBootHold ==
    /\ pc = "hold" /\ ResumeReady /\ Return
    /\ UNCHANGED <<journal, archive, late, seen, hostVars, genVars, faults, boots>>

\* The setup command after the reboot it asked for; before it, nothing happens.
StartResume ==
    /\ pc = "idle" /\ ResumeReady
    /\ mem' = [journal EXCEPT !.status = "resume_ready"] /\ Goto("resume")
    /\ UNCHANGED <<journal, archive, late, seen, hostVars, genVars, faults, boots>>

\* resume_ready is written with a new deadline, then the boot is verified.
Resume ==
    /\ pc = "resume"
    /\ \/ Written(mem) /\ late' = FALSE /\ Goto("verify") /\ UNCHANGED mem
       \/ Unwritten(mem) /\ late' \in {late, FALSE} /\ Return
    /\ UNCHANGED <<archive, seen, hostVars, genVars, boots>>

\* Mutant: the resumed setup goes on under the status of the midpoint.
VerifyBootResumeKeepingStatus ==
    /\ pc = "verify"
    /\ \/ Prepared("managed") /\ RunningManaged /\ Goto("resumed") /\ UNCHANGED faults
       \/ Fault /\ Goto("fail")
    /\ UNCHANGED <<journal, archive, late, mem, seen, hostVars, genVars, boots>>

VerifyBootResume ==
    /\ pc = "verify"
    /\ \/ /\ Prepared("managed") /\ RunningManaged
          /\ mem' = [mem EXCEPT !.status = "running"] /\ Goto("resumed")
          /\ UNCHANGED faults
       \/ Fault /\ Goto("fail") /\ UNCHANGED mem
    /\ UNCHANGED <<journal, archive, late, seen, hostVars, genVars, boots>>

Resumed ==
    /\ pc = "resumed" /\ Record(mem, "enter")
    /\ UNCHANGED <<archive, late, seen, hostVars, genVars, boots>>

-----------------------------------------------------------------------------
(* A phase: its name is written, it runs, its result is written. *)

Enter ==
    /\ pc = "enter"
    /\ LET p == Following(mem.phase) IN
       IF p \in Steps /\ late
       THEN Goto("fail") /\ UNCHANGED <<journal, mem, faults>>
       ELSE Record([mem EXCEPT !.phase = p], "run")
    /\ UNCHANGED <<archive, late, seen, hostVars, genVars, boots>>

Leave ==
    /\ pc = "leave"
    /\ CASE mem.phase = "boot_prepare" ->
              LET j == [mem EXCEPT !.status = "reboot_required"] IN
              \/ Written(j) /\ Return
              \/ Unwritten(j) /\ Goto("fail") /\ mem' = j
         [] mem.phase = "finalize" -> Record(mem, "complete")
         [] OTHER -> Record(mem, "enter")
    /\ UNCHANGED <<archive, late, seen, hostVars, genVars, boots>>

Complete ==
    /\ pc = "complete"
    /\ RecordLast([mem EXCEPT !.phase = "complete", !.status = "complete"])
    /\ UNCHANGED <<archive, late, seen, hostVars, genVars, boots>>

\* The phase p runs and succeeds, or fails, maybe after some of its effect.
Runs(p) == pc = "run" /\ mem.phase = p
Succeeds == Goto("leave") /\ UNCHANGED faults
Fails == Goto("fail") /\ Fault /\ UNCHANGED mem

Start(us) == active' = active \cup us
Enable(us) == enabled' = enabled \cup us

\* What the host holds of what the backup would have to bring back.
Present == IF boot = files THEN files ELSE "mixed"

Backup ==
    /\ Runs("backup")
    /\ \/ mem' = [mem EXCEPT !.backup = Present] /\ Succeeds
       \/ Fails
    /\ UNCHANGED <<journal, archive, late, seen, hostVars, genVars, boots>>

PrepareBoot ==
    /\ Runs("boot_prepare")
    /\ \/ /\ Enable({"watchdog"}) /\ Start({"watchdog"})
          /\ boot' = "managed" /\ hold' = TRUE
          /\ Succeeds /\ UNCHANGED mem
       \/ /\ Fails
          /\ \/ UNCHANGED <<enabled, active, boot, hold>>
             \/ /\ Enable({"watchdog"}) /\ Start({"watchdog"})
                /\ \/ UNCHANGED <<boot, hold>>
                   \/ boot' = "mixed" /\ hold' \in {hold, TRUE}
                   \/ boot' = "managed" /\ hold' = TRUE
    /\ UNCHANGED <<journal, archive, late, seen, guard, tunnel, files, kernel,
                   genVars, boots>>

StartGuard ==
    /\ Runs("guard")
    /\ \/ /\ ~guard /\ guard' = TRUE
          /\ Enable({"watchdog"}) /\ Start({"watchdog"})
          /\ Succeeds /\ UNCHANGED mem
       \/ Fails /\ guard' \in {guard, TRUE} /\ UNCHANGED <<enabled, active>>
    /\ UNCHANGED <<journal, archive, late, seen, tunnel, files, boot, hold, kernel,
                   genVars, boots>>

Install ==
    /\ Runs("install")
    /\ \/ files' = "managed" /\ Succeeds /\ UNCHANGED mem
       \/ files' \in {files, "mixed", "managed"} /\ Fails
    /\ UNCHANGED <<journal, archive, late, seen, guard, tunnel, boot, hold, kernel,
                   enabled, active, genVars, boots>>

\* Docker's restart and the look at the tunnel, which change nothing else.
ConfigureDocker ==
    /\ Runs("docker") /\ ((Succeeds /\ UNCHANGED mem) \/ Fails)
    /\ UNCHANGED <<journal, archive, late, seen, hostVars, genVars, boots>>

Validate ==
    /\ Runs("validate") /\ ((Succeeds /\ UNCHANGED mem) \/ Fails)
    /\ UNCHANGED <<journal, archive, late, seen, hostVars, genVars, boots>>

StartRuntime ==
    /\ Runs("runtime")
    /\ \/ /\ Enable({"gentimer"}) /\ Start({"gentimer", "nftfwd"})
          /\ database' = TRUE /\ Succeeds /\ UNCHANGED mem
       \/ /\ Fails
          /\ \/ UNCHANGED <<enabled, active, database>>
             \/ Enable({"gentimer"}) /\ Start({"gentimer"}) /\ UNCHANGED database
             \/ Enable({"gentimer"}) /\ Start({"gentimer", "nftfwd"}) /\ database' = TRUE
    /\ UNCHANGED <<journal, archive, late, seen, guard, tunnel, files, boot,
                   hold, kernel, rows, policy, boots>>

\* The daemon takes the next identity.  An error can hide a candidate that is
\* in the kernel, or follow one that the daemon took back itself.
ApplySafe ==
    /\ Runs("apply")
    /\ LET g == Len(rows) + 1 IN
       \/ /\ "nftfwd" \in active
          /\ rows' = Append(rows, "pending") /\ policy' = g
          /\ mem' = [mem EXCEPT !.gen = g] /\ Succeeds
       \/ /\ Fails
          /\ \/ UNCHANGED <<rows, policy>>
             \/ "nftfwd" \in active /\ rows' = Append(rows, "pending") /\ policy' = g
             \/ "nftfwd" \in active /\ rows' = Append(rows, "rolled_back") /\ UNCHANGED policy
    /\ UNCHANGED <<journal, archive, late, seen, hostVars, database, boots>>

\* The tunnel comes up; after an error it is taken down again, which may fail.
Up ==
    \/ tunnel' = TRUE /\ Succeeds /\ UNCHANGED mem
    \/ tunnel' \in BOOLEAN /\ Fails

StartTunnel ==
    /\ Runs("tunnel") /\ Up
    /\ UNCHANGED <<journal, archive, late, seen, guard, files, boot, hold, kernel,
                   enabled, active, genVars, boots>>

\* The daemon refuses a candidate that is no longer pending.  The answer to a
\* commit that happened can be lost.
CanCommit(g) == rows[g] = "pending" /\ "nftfwd" \in active
Commit ==
    /\ Runs("commit")
    /\ \/ /\ CanCommit(mem.gen) /\ rows' = [rows EXCEPT ![mem.gen] = "committed"]
          /\ \/ mem' = [mem EXCEPT !.committed = TRUE] /\ Succeeds
             \/ Fails
       \/ /\ CanCommit(mem.gen) /\ UNCHANGED rows /\ Fails
       \/ /\ ~CanCommit(mem.gen)
          /\ Goto("fail") /\ UNCHANGED <<rows, mem, faults>>
    /\ UNCHANGED <<journal, archive, late, seen, hostVars, database, policy, boots>>

(* The three phases after the commit, which the recovery of a committed    *)
(* setup runs again; done is where they go on.                             *)
PublishFinalDependencies(done, fail) ==
    /\ \/ Start({"early"}) /\ hold' = FALSE /\ Goto(done) /\ UNCHANGED faults
       \/ /\ Goto(fail) /\ Fault
          /\ \/ UNCHANGED <<active, hold>>
             \/ Start({"early"}) /\ hold' \in {hold, FALSE}
    /\ UNCHANGED <<guard, enabled>>

EnableBoot(done, fail) ==
    /\ \/ /\ Enable({"early", "nftfwd", "gentimer", "vpn"}) /\ Start({"vpn", "nftfwd"})
          /\ Goto(done) /\ UNCHANGED faults
       \/ /\ Goto(fail) /\ Fault
          /\ \/ UNCHANGED <<enabled, active>>
             \/ /\ Enable({"early", "nftfwd", "gentimer", "vpn"})
                /\ \E us \in SUBSET {"vpn", "nftfwd"} : Start(us)
    /\ UNCHANGED <<guard, hold>>

Finalize(done, fail) ==
    /\ \/ /\ guard' = FALSE /\ Goto(done) /\ UNCHANGED faults
          /\ enabled' = enabled \ {"watchdog"} /\ active' = active \ {"watchdog"}
       \/ /\ Goto(fail) /\ Fault
          /\ \/ UNCHANGED <<guard, enabled, active>>
             \/ guard' = FALSE /\ UNCHANGED <<enabled, active>>
             \/ /\ guard' = FALSE
                /\ enabled' = enabled \ {"watchdog"} /\ active' = active \ {"watchdog"}
    /\ UNCHANGED hold

AfterCommit ==
    /\ \/ Runs("handoff") /\ PublishFinalDependencies("leave", "fail")
       \/ Runs("boot") /\ EnableBoot("leave", "fail")
       \/ Runs("finalize") /\ Finalize("leave", "fail")
    /\ UNCHANGED <<journal, archive, late, mem, seen, tunnel, files, boot, kernel,
                   genVars, boots>>

-----------------------------------------------------------------------------
(* Failure and recovery: what has been decided is found out, written, and  *)
(* carried out.                                                            *)

\* A failure before anything protected was touched only closes the journal.
Fail ==
    /\ pc = "fail"
    /\ \/ /\ BeforeProtectedMutation(mem)
          /\ RecordLast([mem EXCEPT !.phase = "failed", !.status = "rolled_back"])
       \/ /\ ~BeforeProtectedMutation(mem) /\ Goto("inspect")
          /\ UNCHANGED <<journal, mem, faults>>
    /\ UNCHANGED <<archive, late, seen, hostVars, genVars, boots>>

\* Mutant: a running journal is believed when it says nothing of a commit.
UndecidedIfUnknown(j) ==
    ~j.committed /\ j.gen # 0 /\ j.status = "commit_state_unknown"

\* Whether a generation is there whose commit the journal does not know of.
Undecided(j) ==
    ~j.committed /\ j.gen # 0 /\ j.status \notin {"rolling_back", "rollback_failed"}

\* Whether the daemon's health report has seen the tables.  One that has not is
\* a report all the same, in which nothing is active.
Snapshot == IF DegradedStatus THEN BOOLEAN ELSE {TRUE}

\* What the report says of g.
GenerationCommitted(g) ==
    {looked /\ rows[g] = "committed" /\ policy = g : looked \in Snapshot}

\* The answer decides; without one the state is unknown and nothing is undone.
Inspect ==
    /\ pc = "inspect"
    /\ \/ /\ ~Undecided(mem) /\ Goto("decide") /\ UNCHANGED <<journal, mem, faults>>
       \/ /\ Undecided(mem) /\ "nftfwd" \in active
          /\ \E c \in GenerationCommitted(mem.gen) :
                mem' = [mem EXCEPT !.committed = c]
          /\ Goto("decide") /\ UNCHANGED <<journal, faults>>
       \/ /\ Undecided(mem) /\ "nftfwd" \in active /\ Fault /\ Return
          /\ journal' = [mem EXCEPT !.status = "commit_state_unknown"]
       \/ /\ Undecided(mem) /\ "nftfwd" \notin active
          /\ RecordLast([mem EXCEPT !.status = "commit_state_unknown"])
    /\ UNCHANGED <<archive, late, seen, hostVars, genVars, boots>>

Decide ==
    /\ pc = "decide"
    /\ LET j == [mem EXCEPT !.status = IF mem.committed THEN "recovering_committed"
                                                        ELSE "rolling_back"]
       IN \/ /\ Written(j) /\ mem' = j
             /\ Goto(IF mem.committed THEN "rec_handoff" ELSE "rb_tunnel")
          \/ Unwritten(j) /\ Return
    /\ UNCHANGED <<archive, late, seen, hostVars, genVars, boots>>

\* RecoverCommitted: forward, through the phases after the commit.
RecoverCommitted ==
    /\ \/ pc = "rec_handoff" /\ PublishFinalDependencies("rec_boot", "rec_failed")
       \/ pc = "rec_boot" /\ EnableBoot("rec_finalize", "rec_failed")
       \/ pc = "rec_finalize" /\ Finalize("rec_done", "rec_failed")
    /\ UNCHANGED <<journal, archive, late, mem, seen, tunnel, files, boot, kernel,
                   genVars, boots>>

Recovered ==
    /\ \/ /\ pc = "rec_done"
          /\ RecordLast([mem EXCEPT !.phase = "complete", !.status = "complete"])
       \/ /\ pc = "rec_failed"
          /\ RecordLast([mem EXCEPT !.status = "committed_recovery_failed"])
    /\ UNCHANGED <<archive, late, seen, hostVars, genVars, boots>>

(* Rollback: it goes on after a step that failed, and remembers it. *)

FailsOn == broken' = TRUE

\* The tunnel goes down as far as it can; any error is one of the whole.
Down ==
    \/ tunnel' = FALSE /\ UNCHANGED <<broken, faults>>
    \/ tunnel' \in {tunnel, FALSE} /\ FailsOn /\ Fault

RollbackTunnel ==
    /\ pc = "rb_tunnel"
    /\ pc' = IF BeforeProtectedMutation(mem) THEN "rb_done" ELSE "rb_generation"
    /\ \/ /\ ~BeforeProtectedMutation(mem) /\ MayHaveTunnel(mem.phase)
          /\ Down
       \/ /\ BeforeProtectedMutation(mem) \/ ~MayHaveTunnel(mem.phase)
          /\ UNCHANGED <<tunnel, broken, faults>>
    /\ UNCHANGED <<journal, archive, late, mem, seen, guard, files, boot, hold, kernel,
                   enabled, active, genVars, boots>>

\* Mutant: a daemon that does not answer is passed over, like a unit that does
\* not stop.
RollbackGenerationIfUp ==
    /\ pc = "rb_generation" /\ pc' = "rb_stop"
    /\ \/ /\ mem.gen # 0 /\ "nftfwd" \in active /\ rows[mem.gen] # "committed"
          /\ rows' = [rows EXCEPT ![mem.gen] = "rolled_back"]
          /\ policy' = IF policy = mem.gen THEN 0 ELSE policy
       \/ UNCHANGED <<rows, policy>>
    /\ UNCHANGED <<journal, archive, late, mem, broken, seen, hostVars, database, faults, boots>>

\* The daemon is asked to roll the recorded generation back; a second request
\* finds that done.
RollbackGeneration ==
    /\ pc = "rb_generation" /\ pc' = "rb_stop"
    /\ \/ mem.gen = 0 /\ UNCHANGED <<broken, rows, policy, faults>>
       \/ /\ mem.gen # 0 /\ "nftfwd" \in active /\ rows[mem.gen] # "committed"
          /\ rows' = [rows EXCEPT ![mem.gen] = "rolled_back"]
          /\ policy' = IF policy = mem.gen THEN 0 ELSE policy
          /\ \/ UNCHANGED <<broken, faults>>
             \/ FailsOn /\ Fault
       \/ /\ mem.gen # 0 /\ FailsOn /\ UNCHANGED <<rows, policy>>
          /\ IF "nftfwd" \in active /\ rows[mem.gen] # "committed"
             THEN Fault ELSE UNCHANGED faults
    /\ UNCHANGED <<journal, archive, late, mem, seen, hostVars, database, boots>>

\* The units stop, the watchdog's timer with them; nobody looks at the errors.
RollbackStop ==
    /\ pc = "rb_stop" /\ Goto("rb_restore")
    /\ \/ active' = {} /\ UNCHANGED faults
       \/ active' \in SUBSET active /\ Fault
    /\ UNCHANGED <<journal, archive, late, mem, seen, guard, tunnel, files, boot,
                   hold, kernel, enabled, genVars, boots>>

\* The managed files, the boot files among them, and the states of the units,
\* where a unit that does not stop is an error; the first error ends it.
RestoreBackup ==
    \/ /\ files' = mem.backup /\ boot' = mem.backup /\ hold' = FALSE
       /\ enabled' = {} /\ active' = {} /\ UNCHANGED <<broken, faults>>
    \/ /\ files' \in {files, "mixed", mem.backup}
       /\ boot' \in {boot, "mixed", mem.backup}
       /\ hold' \in {hold, FALSE}
       /\ enabled' \in {enabled, {}} /\ active' \in {active, {}} /\ FailsOn /\ Fault

\* A Docker hold that cannot be released ends the rollback before the files.
RollbackRestore ==
    /\ pc = "rb_restore"
    /\ \/ pc' = "rb_guard" /\ RestoreBackup
       \/ /\ pc' = "rb_done" /\ FailsOn /\ Fault
          /\ UNCHANGED <<files, boot, hold, enabled, active>>
    /\ UNCHANGED <<journal, archive, late, mem, seen, guard, tunnel, kernel,
                   genVars, boots>>

RollbackGuard ==
    /\ pc = "rb_guard" /\ pc' = "rb_done"
    /\ \/ guard' = FALSE /\ UNCHANGED <<broken, faults>>
       \/ UNCHANGED guard /\ FailsOn /\ Fault
    /\ UNCHANGED <<journal, archive, late, mem, seen, tunnel, files, boot, hold, kernel,
                   enabled, active, genVars, boots>>

\* Mutant: the failed steps are forgotten when the result is written.
RolledBackRegardless ==
    /\ pc = "rb_done"
    /\ RecordLast([mem EXCEPT !.phase = "failed", !.status =
         IF RunningManaged /\ ~BeforeProtectedMutation(mem)
         THEN "rollback_reboot_required" ELSE "rolled_back"])
    /\ UNCHANGED <<archive, late, seen, hostVars, genVars, boots>>

\* A kernel booted with the managed command line asks for one more reboot.
RolledBack ==
    /\ pc = "rb_done"
    /\ RecordLast(
         CASE broken -> [mem EXCEPT !.status = "rollback_failed"]
           [] ~broken /\ RunningManaged /\ ~BeforeProtectedMutation(mem) ->
                [mem EXCEPT !.phase = "failed", !.status = "rollback_reboot_required"]
           [] OTHER -> [mem EXCEPT !.phase = "failed", !.status = "rolled_back"])
    /\ UNCHANGED <<archive, late, seen, hostVars, genVars, boots>>

-----------------------------------------------------------------------------
(* The commands that recover. *)

\* The lock is free and the journal, read again, is one to recover.
TakeOver ==
    /\ NeedsRecovery(journal) \/ journal.status = "reboot_required"
    /\ mem' = journal /\ pc' = "inspect" /\ broken' = FALSE

\* `setup rollback' of the operator, who does not wait for the deadline.
RollbackCommand ==
    /\ pc = "idle" /\ Accepted(journal) /\ TakeOver
    /\ UNCHANGED <<journal, archive, late, seen, hostVars, genVars, faults, boots>>

\* The host was booted without the managed policy and is as the backup says.
BootRolledBack ==
    /\ journal.status = "rollback_reboot_required" /\ journal.phase = "failed"
    /\ ~RunningManaged /\ Restored(journal) /\ ~hold

\* The same command after the reboot a rollback asked for.
FinalizeBootRollback ==
    /\ pc = "idle" /\ Accepted(journal) /\ BootRolledBack
    /\ LET j == [journal EXCEPT !.status = "rolled_back", !.committed = FALSE,
                                !.gen = IF journal.committed THEN 0 ELSE @]
       IN Written(j) \/ Unwritten(j)
    /\ UNCHANGED <<archive, late, procVars, seen, hostVars, genVars, boots>>

\* The watchdog reads the journal before it asks for the lock.
WatchdogRead ==
    /\ "watchdog" \in active /\ seen = 0
    /\ Accepted(journal) /\ NeedsRecovery(journal) /\ late
    /\ seen' = journal.txn
    /\ UNCHANGED <<journal, archive, late, procVars, hostVars, genVars, faults, boots>>

\* Mutant: with the lock, only a setup that still runs is recovered.
WatchdogLockRunning ==
    /\ seen # 0 /\ seen' = 0
    /\ \/ /\ pc = "idle" /\ Accepted(journal) /\ journal.txn = seen /\ late
          /\ journal.status = "running" /\ TakeOver
       \/ (pc # "idle" \/ journal.status # "running") /\ UNCHANGED procVars
    /\ UNCHANGED <<journal, archive, late, hostVars, genVars, faults, boots>>

\* It gives up if the lock is taken, and checks again what it read if not.
WatchdogLock ==
    /\ seen # 0 /\ seen' = 0
    /\ \/ pc = "idle" /\ Accepted(journal) /\ journal.txn = seen /\ late /\ TakeOver
       \/ pc # "idle" /\ UNCHANGED procVars
       \/ /\ pc = "idle" /\ UNCHANGED procVars
          /\ \/ journal.txn # seen \/ ~late
             \/ ~NeedsRecovery(journal) /\ journal.status # "reboot_required"
    /\ UNCHANGED <<journal, archive, late, hostVars, genVars, faults, boots>>

\* `setup boot-handoff' of a package removal gives up the boot policy only.
BootHandoff ==
    /\ pc = "idle"
    /\ \/ /\ journal.txn # 0
          /\ journal.status \in {"complete", "reboot_required", "resume_ready"}
          /\ Prepared("managed")
       \/ journal.status = "rollback_reboot_required" /\ Prepared(journal.backup)
    /\ LET j == IF RunningManaged
                THEN [journal EXCEPT !.phase = "failed",
                                     !.status = "rollback_reboot_required"]
                ELSE [journal EXCEPT !.phase = "failed", !.status = "rolled_back",
                                     !.committed = FALSE, !.gen = 0]
       IN \/ boot' = "prior" /\ hold' = FALSE /\ (Written(j) \/ Unwritten(j))
          \/ boot' = "mixed" /\ hold' \in {hold, FALSE} /\ Fault /\ UNCHANGED journal
    /\ UNCHANGED <<archive, late, procVars, seen, guard, tunnel, files, kernel,
                   enabled, active, genVars, boots>>

-----------------------------------------------------------------------------
(* The environment. *)

\* The rollback timer of safe apply takes the candidate back at its deadline.
CandidateExpires ==
    /\ "gentimer" \in active
    /\ \E g \in DOMAIN rows :
         /\ rows[g] = "pending"
         /\ rows' = [rows EXCEPT ![g] = "rolled_back"]
         /\ policy' = IF policy = g THEN 0 ELSE policy
    /\ UNCHANGED <<journal, archive, late, procVars, seen, hostVars, database, faults, boots>>

\* Rules and running units go; a boot loader half written boots either way.
\* nftfw-early, once enabled, restores the committed generation.
Reboot ==
    /\ boots < MaxBoots /\ boots' = boots + 1
    /\ pc' = (IF hold THEN "hold" ELSE "idle") /\ mem' = NoJournal /\ broken' = FALSE
    /\ seen' = 0 /\ guard' = FALSE
    /\ kernel' \in IF boot = "mixed" THEN {"prior", "managed"} ELSE {boot}
    /\ active' = enabled /\ tunnel' = ("vpn" \in enabled)
    /\ policy' = IF "early" \in enabled
                 THEN CHOOSE g \in 0 .. Len(rows) :
                        IF g = 0 THEN \A h \in DOMAIN rows : rows[h] # "committed"
                                 ELSE rows[g] = "committed"
                 ELSE 0
    /\ UNCHANGED <<journal, archive, late, files, boot, hold, enabled, database, rows,
                   faults>>

Init ==
    /\ journal = NoJournal /\ archive = {} /\ late = FALSE
    /\ pc = "idle" /\ mem = NoJournal /\ broken = FALSE /\ seen = 0
    /\ guard = FALSE /\ tunnel = FALSE /\ hold = FALSE
    /\ files = "prior" /\ boot = "prior" /\ kernel = "prior"
    /\ enabled = {} /\ active = {}
    /\ database = FALSE /\ rows = <<>> /\ policy = 0 /\ faults = 0 /\ boots = 0

\* The steps of the process that holds the lock.
Proceed ==
    \/ PublishInitial \/ WaitBootHold \/ Resume \/ VerifyBootResume \/ Resumed
    \/ Enter \/ Leave \/ Complete
    \/ Backup \/ PrepareBoot \/ StartGuard \/ Install \/ ConfigureDocker
    \/ StartRuntime \/ ApplySafe \/ StartTunnel \/ Validate \/ Commit \/ AfterCommit
    \/ Fail \/ Inspect \/ Decide \/ RecoverCommitted \/ Recovered
    \/ RollbackTunnel \/ RollbackGeneration \/ RollbackStop \/ RollbackRestore
    \/ RollbackGuard \/ RolledBack

Next ==
    \/ StartFirst \/ StartAgain \/ StartResume \/ Proceed
    \/ RollbackCommand \/ FinalizeBootRollback \/ BootHandoff
    \/ WatchdogRead \/ WatchdogLock
    \/ Expire \/ CandidateExpires \/ Crash \/ Reboot

Spec == Init /\ [][Next]_vars

(* A process that does not die goes on, since every call it makes has a    *)
(* time limit, and systemd starts the watchdog every 15 seconds.           *)
LiveSpec == Spec /\ WF_vars(Proceed) /\ WF_vars(WatchdogRead) /\ WF_vars(WatchdogLock)

-----------------------------------------------------------------------------
(* Properties. *)

TypeOK ==
    /\ journal \in Journals /\ archive \subseteq Journals /\ late \in BOOLEAN
    /\ mem \in Journals /\ broken \in BOOLEAN /\ seen \in 0 .. MaxTxn
    /\ guard \in BOOLEAN /\ tunnel \in BOOLEAN /\ hold \in BOOLEAN
    /\ files \in Contents /\ boot \in Contents /\ kernel \in {"prior", "managed"}
    /\ enabled \subseteq Units /\ active \subseteq Units
    /\ database \in BOOLEAN
    /\ rows \in Seq({"pending", "rolled_back", "committed"}) /\ Len(rows) <= MaxTxn
    /\ policy \in 0 .. MaxTxn /\ faults \in 0 .. MaxFaults /\ boots \in 0 .. MaxBoots

Committed == \E g \in DOMAIN rows : rows[g] = "committed"

\* Whatever a setup, a recovery or a death leaves in the journal, the recovery
\* commands accept it; validateSetupWatchdogJournal refuses the rest.
JournalAccepted == journal # NoJournal => Accepted(journal)

\* No recovery undoes a setup whose generation was committed, although the
\* journal may not know of the commit.
CommittedStays == Committed => files = "managed"

\* A journal closed as rolled back means a host as it was before the setup,
\* unless a package removal closed it over a committed generation.
RolledBackIsRestored ==
    (Terminal(journal) /\ ~Committed) =>
        files = "prior" /\ boot = "prior" /\ ~hold /\ ~guard /\ ~tunnel

\* A setup that starts again never takes for the original state what an
\* earlier attempt left behind.
BackupsArePrior ==
    \A j \in archive \cup {journal, mem} : j.backup \in {"none", "prior"}

\* With the generation recorded, a setup is closed as rolled back only when
\* the generation is out of the kernel and of the running candidates.
GenerationGone ==
    (Terminal(journal) /\ journal.gen # 0) =>
        rows[journal.gen] = "rolled_back" /\ policy # journal.gen

\* The watchdog ends an expired transaction: it is closed, or left for a reboot
\* or an operator in a state that needs no recovery, unless something fails or
\* the host reboots once more, the boot hold has the lock, or the daemon, which
\* decides whether to go forward and takes the generation back, is down.  That
\* the rollback has stopped the watchdog itself is not an end.
ExpiredEnds ==
    \A n \in 0 .. MaxFaults + MaxBoots :
        (late /\ NeedsRecovery(journal) /\ "watchdog" \in active /\ faults + boots = n)
            ~> (\/ ~NeedsRecovery(journal) \/ faults + boots > n
                \/ pc = "hold"
                \/ /\ journal.status \in {"commit_state_unknown", "rollback_failed"}
                   /\ journal.gen # 0 /\ "nftfwd" \notin active)

=============================================================================
