---------------------------- MODULE ManagedChange ----------------------------
(***************************************************************************)
(* The managed change of nftfw (cmd/nftfw): one command replaces the       *)
(* operator's intent file and the configuration rendered from it, lets the *)
(* daemon try the generation compiled from them, and confirms it; a        *)
(* journal and two backups let any later run, started by a timer or by the *)
(* next command, finish the change or take it back.                        *)
(*                                                                         *)
(* All commands hold the setup lock, which the kernel releases when they   *)
(* die, so at most one runs: pc is its next step, "free" means nobody      *)
(* holds the lock.  The daemon is seen through its control socket as the   *)
(* register that SafeApply implements.                                     *)
(***************************************************************************)
EXTENDS Integers

CONSTANTS Policies,        \* what the intent and the configuration can say
          NoPolicy,        \* a file that does not exist, or no wish
          MaxGen,          \* bound: generations are numbered 1 .. MaxGen
          MaxFaults        \* bound: failed calls, failed writes and deaths

ASSUME ConstantsAssumption ==
    /\ NoPolicy \notin Policies
    /\ MaxGen \in Nat \ {0}
    /\ MaxFaults \in Nat

VARIABLES
    intent, config,          \* intent.toml and nftfw.toml
    oldIntent, oldConfig,    \* their backups in the managed-change directory
    journal,                 \* journal.json
    expired,                 \* the journal's deadline has passed
    pc, want, rec, failed,   \* the command that holds the setup lock: next
                             \*   step, the change it is asked for, its copy of
                             \*   the journal, a failed request for a rollback
    current, candidate, used,  \* the daemon's generations: EnforcementRegister
    content,                 \* what each of them was compiled from
    finalized,               \* the row of the current one says "committed"
    lateApply, lateCommit,   \* requests whose client is gone and which the
                             \*   daemon may still execute
    lost,                    \* history: a commit was or may be accepted although
                             \*   its client saw an error or is gone
    faults                   \* failures that may still happen

filesVars == <<intent, config>>
backups == <<oldIntent, oldConfig>>
session == <<pc, want, rec, failed>>
daemon == <<current, candidate, used, content, finalized>>
late == <<lateApply, lateCommit, lost>>
vars == <<filesVars, backups, journal, expired, session, daemon, late, faults>>

Daemon == INSTANCE EnforcementRegister

Gens == 1 .. MaxGen
None == 0

\* A journal record: the generation it knows of, the digests of the two old
\* files and of the new ones, which are rendered from one intent.
Full == [status : {"running", "complete", "rolled_back"}, gen : Gens \cup {None},
         oldI : Policies, oldC : Policies, new : Policies]

\* No journal.
NoRecord == [status |-> "absent", gen |-> None,
             oldI |-> NoPolicy, oldC |-> NoPolicy, new |-> NoPolicy]

Records == Full \cup {NoRecord}

Labels == {"free", "begin", "backup_config", "prepared", "put_intent", "put_config",
           "published", "apply", "applied", "health", "commit", "finish",
           "recheck", "status", "forward", "rollback", "restore_intent", "restore_config",
           "rolled_back", "clean_intent", "clean_config", "clean_journal"}

-----------------------------------------------------------------------------
(* Building blocks. *)

Fault == faults > 0 /\ faults' = faults - 1

\* The command returns: the lock is released, its memory is gone.
Return == pc' = "free" /\ want' = NoPolicy /\ rec' = NoRecord /\ failed' = FALSE

\* Go on with step l of the same command.
Goto(l) == pc' = l /\ UNCHANGED <<want, rec, failed>>

OnError(l) == IF l = "free" THEN Return ELSE Goto(l)

\* WriteAtomicFile: temporary file, rename, synchronisation of the directory.
\* The last of these can fail with the new content in place.
Write(file, value, onOk, onError) ==
    \/ file' = value /\ Goto(onOk) /\ UNCHANGED faults
    \/ file' \in {file, value} /\ OnError(onError) /\ Fault

-----------------------------------------------------------------------------
(* The daemon's side of the control socket. *)

\* Store.Generation: what a client can be told of generation g.
Status(g) ==
    CASE g = candidate -> "applied"
      [] g = current /\ ~finalized -> "commit_prepared"
      [] g = current /\ finalized -> "committed"
      [] OTHER -> "rolled_back"

\* Apply is refused while a generation is pending (or numbers have run out).
Acceptable(g) == finalized /\ candidate = None /\ g \notin used /\ g - 1 \in used

\* A safe apply compiles what the configuration file says at that moment.
Propose(g) ==
    /\ Acceptable(g)
    /\ Daemon!Propose(g)
    /\ content' = [content EXCEPT ![g] = config]
    /\ UNCHANGED finalized

\* The pointer is renamed; the final status follows or is left to recovery.
Accept(g) ==
    /\ g = candidate
    /\ Daemon!Accept
    /\ finalized' \in BOOLEAN
    /\ UNCHANGED content

Reject(g) ==
    /\ g = candidate
    /\ Daemon!Reject
    /\ UNCHANGED <<content, finalized>>

\* A rollback of g succeeds if g is undecided or was rolled back already.
RollbackDone(g) ==
    \/ Reject(g)
    \/ Status(g) = "rolled_back" /\ UNCHANGED daemon

\* It is refused once g is in force, and then only completes a commit whose
\* pointer was already published; or it fails before or after its effect.
RollbackError(g) ==
    \/ g = current /\ finalized' = TRUE /\ UNCHANGED <<current, candidate, used, content, faults>>
    \/ Fault /\ UNCHANGED daemon
    \/ Fault /\ Reject(g)

-----------------------------------------------------------------------------
(* recoverManagedChange: run by the timer (only expired changes), by the   *)
(* operator, before every new change, and after a failed finish.           *)

\* Recovery had nothing to do or is done: a command that was asked for a change
\* goes on with it.
AfterRecovery(wish) == IF wish = NoPolicy THEN "free" ELSE "begin"

\* Mutant: a journal with a final status is left alone.
RecoverRunningOnly(expiredOnly) ==
    /\ failed' = FALSE
    /\ IF journal.status = "running" /\ (expired \/ ~expiredOnly)
       THEN /\ rec' = journal
            /\ pc' = IF journal.gen = None THEN "rollback" ELSE "status"
       ELSE rec' = NoRecord /\ pc' = AfterRecovery(want')

\* The journal decides: nothing to do, clean up after a final status, wait for
\* the deadline, roll back, or ask the daemon first.
Recover(expiredOnly) ==
    /\ failed' = FALSE
    /\ CASE journal.status = "absent" ->
              rec' = NoRecord /\ pc' = AfterRecovery(want')
         [] journal.status \in {"complete", "rolled_back"} ->
              rec' = NoRecord /\ pc' = "clean_intent"
         [] journal.status = "running" /\ expiredOnly /\ ~expired ->
              rec' = NoRecord /\ pc' = AfterRecovery(want')
         [] OTHER ->
              /\ rec' = journal
              /\ pc' = IF journal.gen = None THEN "rollback" ELSE "status"

\* managed-recover, with or without --expired.
StartRecovery(expiredOnly) ==
    /\ pc = "free"
    /\ journal.status # "absent"
    /\ want' = NoPolicy
    /\ Recover(expiredOnly)
    /\ UNCHANGED <<filesVars, backups, journal, expired, daemon, late, faults>>

\* Mutant: a committed generation is treated like one that is still undecided.
QueryStatusAlwaysBack ==
    /\ pc = "status"
    /\ Goto("rollback")
    /\ UNCHANGED <<filesVars, backups, journal, expired, daemon, late, faults>>

\* Recovery asks for the journalled generation.  A committed one must have the
\* new files; anything else is rolled back.
QueryStatus ==
    /\ pc = "status"
    /\ \/ /\ Status(rec.gen) = "committed"
          /\ intent = rec.new /\ config = rec.new
          /\ Goto("forward") /\ UNCHANGED faults
       \/ /\ Status(rec.gen) = "committed"
          /\ ~(intent = rec.new /\ config = rec.new)
          /\ Return /\ UNCHANGED faults
       \/ Status(rec.gen) # "committed" /\ Goto("rollback") /\ UNCHANGED faults
       \/ Return /\ Fault
    /\ UNCHANGED <<filesVars, backups, journal, expired, daemon, late>>

\* The journal gets its final status, and nothing else is left but cleaning up.
Close(status) ==
    \/ /\ journal' = [rec EXCEPT !.status = status]
       /\ pc' = "clean_intent" /\ rec' = NoRecord /\ UNCHANGED <<want, failed, faults>>
    \/ journal' \in {journal, [rec EXCEPT !.status = status]} /\ Return /\ Fault

\* Recovery of a committed change finishes it forward.
FinishForward ==
    /\ pc = "forward"
    /\ Close("complete")
    /\ UNCHANGED <<filesVars, backups, expired, daemon, late>>

-----------------------------------------------------------------------------
(* rollbackKnownManagedChange. *)

\* The generation first, if one is known; its failure is remembered, but the
\* files are restored all the same.
RollBack ==
    /\ pc = "rollback"
    /\ \/ rec.gen = None /\ Goto("restore_intent") /\ UNCHANGED <<daemon, faults>>
       \/ /\ rec.gen # None
          /\ RollbackDone(rec.gen)
          /\ Goto("restore_intent") /\ UNCHANGED faults
       \/ /\ rec.gen # None
          /\ RollbackError(rec.gen)
          /\ pc' = "restore_intent" /\ failed' = TRUE /\ UNCHANGED <<want, rec>>
    /\ UNCHANGED <<filesVars, backups, journal, expired, late>>

\* Both backups are checked against the journal before a file is touched.
RestoreIntent ==
    /\ pc = "restore_intent"
    /\ IF oldIntent = rec.oldI /\ oldConfig = rec.oldC
       THEN Write(intent, oldIntent, "restore_config", "free")
       ELSE Return /\ UNCHANGED <<intent, faults>>
    /\ UNCHANGED <<config, backups, journal, expired, daemon, late>>

\* Mutant: only the intent is restored.
RestoreIntentOnly ==
    /\ pc = "restore_config"
    /\ IF failed THEN Return ELSE Goto("rolled_back")
    /\ UNCHANGED <<filesVars, backups, journal, expired, daemon, late, faults>>

\* After a failed rollback the journal stays as it is.
RestoreConfig ==
    /\ pc = "restore_config"
    /\ \/ config' = oldConfig /\ Goto("rolled_back") /\ ~failed /\ UNCHANGED faults
       \/ config' = oldConfig /\ Return /\ failed /\ UNCHANGED faults
       \/ config' \in {config, oldConfig} /\ Return /\ Fault
    /\ UNCHANGED <<intent, backups, journal, expired, daemon, late>>

MarkRolledBack ==
    /\ pc = "rolled_back"
    /\ Close("rolled_back")
    /\ UNCHANGED <<filesVars, backups, expired, daemon, late>>

-----------------------------------------------------------------------------
(* cleanupManagedChange: the backups first, the journal last. *)

\* Only a command that finishes its own change (and still has its record) tries
\* again at once.
AfterCleanError == IF rec.status = "absent" THEN "free" ELSE "recheck"

CleanIntent ==
    /\ pc = "clean_intent"
    /\ \/ oldIntent' = NoPolicy /\ Goto("clean_config") /\ UNCHANGED faults
       \/ UNCHANGED oldIntent /\ OnError(AfterCleanError) /\ Fault
    /\ UNCHANGED <<filesVars, oldConfig, journal, expired, daemon, late>>

CleanConfig ==
    /\ pc = "clean_config"
    /\ \/ oldConfig' = NoPolicy /\ Goto("clean_journal") /\ UNCHANGED faults
       \/ UNCHANGED oldConfig /\ OnError(AfterCleanError) /\ Fault
    /\ UNCHANGED <<filesVars, oldIntent, journal, expired, daemon, late>>

\* The directory itself may refuse to go: it can hold a temporary file of a
\* command that died.
CleanJournal ==
    /\ pc = "clean_journal"
    /\ \/ /\ journal' = NoRecord
          /\ pc' = AfterRecovery(want)
          /\ rec' = NoRecord /\ failed' = FALSE /\ UNCHANGED <<want, faults>>
       \/ journal' \in {journal, NoRecord} /\ OnError(AfterCleanError) /\ Fault
    /\ UNCHANGED <<filesVars, backups, expired, daemon, late>>

-----------------------------------------------------------------------------
(* changeManagedIntent. *)

StartChange(p) ==
    /\ pc = "free"
    /\ want' = p
    /\ Recover(TRUE)
    /\ UNCHANGED <<filesVars, backups, journal, expired, daemon, late, faults>>

\* An unfinished change keeps new ones out.  Otherwise the files are read, and
\* unless they already say what is asked for the first backup is written.
BeginChange ==
    /\ pc = "begin"
    /\ IF journal.status # "absent" \/ (intent = want /\ config = want)
       THEN Return /\ UNCHANGED <<oldIntent, faults>>
       ELSE \/ /\ oldIntent' = intent
               /\ pc' = "backup_config"
               /\ rec' = [status |-> "running", gen |-> None,
                          oldI |-> intent, oldC |-> config, new |-> want]
               /\ want' = NoPolicy
               /\ UNCHANGED <<failed, faults>>
            \/ oldIntent' \in {oldIntent, intent} /\ Return /\ Fault
    /\ UNCHANGED <<filesVars, oldConfig, journal, expired, daemon, late>>

BackupConfig ==
    /\ pc = "backup_config"
    /\ Write(oldConfig, rec.oldC, "prepared", "free")
    /\ UNCHANGED <<filesVars, oldIntent, journal, expired, daemon, late>>

\* The journal, with a deadline in two minutes.
WritePrepared ==
    /\ pc = "prepared"
    /\ Write(journal, rec, "put_intent", "free")
    /\ expired' = FALSE
    /\ UNCHANGED <<filesVars, backups, daemon, late>>

\* From here on every error goes through rollbackKnownManagedChange.
PutIntent ==
    /\ pc = "put_intent"
    /\ Write(intent, rec.new, "put_config", "rollback")
    /\ UNCHANGED <<config, backups, journal, expired, daemon, late>>

PutConfig ==
    /\ pc = "put_config"
    /\ Write(config, rec.new, "published", "rollback")
    /\ UNCHANGED <<intent, backups, journal, expired, daemon, late>>

\* The files are verified and the journal says so.
WritePublished ==
    /\ pc = "published"
    /\ IF intent = rec.new /\ config = rec.new
       THEN Write(journal, rec, "apply", "rollback")
       ELSE Goto("rollback") /\ UNCHANGED <<journal, faults>>
    /\ UNCHANGED <<filesVars, backups, expired, daemon, late>>

\* The generation is known to this command once the answer has arrived; an
\* error says nothing about whether the daemon applies one, now or later.
Apply ==
    /\ pc = "apply"
    /\ \/ \E g \in Gens :
            /\ Propose(g)
            /\ rec' = [rec EXCEPT !.gen = g]
            /\ pc' = "applied"
            /\ UNCHANGED <<want, failed, lateApply, faults>>
       \/ ~(\E g \in Gens : Acceptable(g)) /\ Goto("rollback") /\ UNCHANGED <<daemon, lateApply, faults>>
       \/ (\E g \in Gens : Propose(g)) /\ Goto("rollback") /\ Fault /\ UNCHANGED lateApply
       \/ lateApply' \in {lateApply, TRUE} /\ Goto("rollback") /\ Fault /\ UNCHANGED daemon
    /\ UNCHANGED <<filesVars, backups, journal, expired, lateCommit, lost>>

WriteApplied ==
    /\ pc = "applied"
    /\ Write(journal, rec, "health", "rollback")
    /\ UNCHANGED <<filesVars, backups, expired, daemon, late>>

\* The tunnel must be healthy under the candidate.
Health ==
    /\ pc = "health"
    /\ \/ Goto("commit")
       \/ Goto("rollback")
    /\ UNCHANGED <<filesVars, backups, journal, expired, daemon, late, faults>>

\* The daemon accepts the generation, or says that it expired, or fails.  It
\* can also fail after it has accepted: the final status or the refresh of the
\* sets failed, or the answer was lost or late.
Commit ==
    /\ pc = "commit"
    /\ \/ Accept(rec.gen) /\ finalized' /\ Goto("finish") /\ UNCHANGED <<lateCommit, lost, faults>>
       \/ /\ Status(rec.gen) = "rolled_back"
          /\ Goto("rollback") /\ UNCHANGED <<daemon, lateCommit, lost, faults>>
       \/ Fault /\ Goto("rollback") /\ UNCHANGED <<daemon, lateCommit, lost>>
       \/ Fault /\ Goto("rollback") /\ Reject(rec.gen) /\ UNCHANGED <<lateCommit, lost>>
       \/ /\ Fault /\ Goto("rollback") /\ lost' = TRUE
          /\ \/ Accept(rec.gen) /\ UNCHANGED lateCommit
             \/ lateCommit' = rec.gen /\ UNCHANGED daemon
    /\ UNCHANGED <<filesVars, backups, journal, expired, lateApply>>

\* Mutant: the files of the change are removed before the journal says that it
\* is complete.
FinishUnmarked ==
    /\ pc = "finish"
    /\ Goto("clean_intent")
    /\ UNCHANGED <<filesVars, backups, journal, expired, daemon, late, faults>>

\* Mutant: a final status that validManagedChangeState does not know.
FinishCommitted ==
    /\ pc = "finish"
    /\ Write(journal, [rec EXCEPT !.status = "committed"], "clean_intent", "recheck")
    /\ UNCHANGED <<filesVars, backups, expired, daemon, late>>

Finish ==
    /\ pc = "finish"
    /\ Write(journal, [rec EXCEPT !.status = "complete"], "clean_intent", "recheck")
    /\ UNCHANGED <<filesVars, backups, expired, daemon, late>>

\* A change that could not be finished is recovered at once, deadline or not.
Recheck ==
    /\ pc = "recheck"
    /\ UNCHANGED want
    /\ Recover(FALSE)
    /\ UNCHANGED <<filesVars, backups, journal, expired, daemon, late, faults>>

-----------------------------------------------------------------------------
(* What happens meanwhile. *)

\* The command dies, or the host reboots.  A request that it had sent is still
\* with the daemon.
Die ==
    /\ pc # "free"
    /\ Return /\ Fault
    /\ lateApply' \in {lateApply, lateApply \/ pc = "apply"}
    /\ \/ UNCHANGED <<lateCommit, lost>>
       \/ pc = "commit" /\ lateCommit' = rec.gen /\ lost' = TRUE
    /\ UNCHANGED <<filesVars, backups, journal, expired, daemon>>

\* The journal's deadline passes.
Deadline ==
    /\ journal.status = "running" /\ ~expired
    /\ expired' = TRUE
    /\ UNCHANGED <<filesVars, backups, journal, session, daemon, late, faults>>

\* The daemon executes a request nobody waits for any more.
ExecuteLate ==
    /\ \/ lateApply /\ lateApply' = FALSE /\ (\E g \in Gens : Propose(g)) /\ UNCHANGED lateCommit
       \/ /\ lateCommit # None /\ Accept(lateCommit)
          /\ lateCommit' = None /\ UNCHANGED lateApply
    /\ UNCHANGED <<filesVars, backups, journal, expired, session, lost, faults>>

\* The daemon decides by itself: the candidate expires, a half-finished commit
\* is finalized.
Decide ==
    /\ \/ Reject(candidate)
       \/ ~finalized /\ finalized' = TRUE /\ UNCHANGED <<current, candidate, used, content>>
    /\ UNCHANGED <<filesVars, backups, journal, expired, session, late, faults>>

-----------------------------------------------------------------------------
\* A managed host: the files say what the generation in force was compiled from.
Init ==
    /\ intent \in Policies /\ config = intent
    /\ oldIntent = NoPolicy /\ oldConfig = NoPolicy
    /\ journal = NoRecord /\ expired = FALSE
    /\ pc = "free" /\ want = NoPolicy /\ rec = NoRecord /\ failed = FALSE
    /\ current = 1 /\ candidate = None /\ used = {1}
    /\ content = [g \in Gens |-> intent]
    /\ finalized = TRUE
    /\ lateApply = FALSE /\ lateCommit = None /\ lost = FALSE
    /\ faults = MaxFaults

Step ==
    \/ BeginChange \/ BackupConfig \/ WritePrepared \/ PutIntent \/ PutConfig
    \/ WritePublished \/ Apply \/ WriteApplied \/ Health \/ Commit \/ Finish
    \/ Recheck \/ QueryStatus \/ FinishForward
    \/ RollBack \/ RestoreIntent \/ RestoreConfig \/ MarkRolledBack
    \/ CleanIntent \/ CleanConfig \/ CleanJournal

Next ==
    \/ Step
    \/ \E p \in Policies : StartChange(p)
    \/ \E e \in BOOLEAN : StartRecovery(e)
    \/ Die \/ Deadline \/ ExecuteLate \/ Decide

Spec == Init /\ [][Next]_vars

\* A command runs on (requests have a timeout of 85 s), deadlines pass, the
\* daemon decides what expired, and the timer starts managed-recover --expired
\* every 15 s: it fails when the lock is taken and finds it free in between.
Fairness ==
    /\ WF_vars(Step)
    /\ WF_vars(Deadline)
    /\ WF_vars(Decide)
    /\ SF_vars(StartRecovery(TRUE))

LiveSpec == Spec /\ Fairness

-----------------------------------------------------------------------------
(* Properties. *)

\* Every file, record and register holds a value the code can write.
TypeOK ==
    /\ intent \in Policies /\ config \in Policies
    /\ oldIntent \in Policies \cup {NoPolicy}
    /\ oldConfig \in Policies \cup {NoPolicy}
    /\ journal \in Records /\ expired \in BOOLEAN
    /\ pc \in Labels /\ want \in Policies \cup {NoPolicy}
    /\ rec \in Records /\ failed \in BOOLEAN
    /\ current \in Gens /\ candidate \in Gens \cup {None} /\ used \in SUBSET Gens
    /\ content \in [Gens -> Policies] /\ finalized \in BOOLEAN
    /\ lateApply \in BOOLEAN /\ lateCommit \in Gens \cup {None} /\ lost \in BOOLEAN
    /\ faults \in Nat

\* Whatever dies or fails, and whatever the daemon does late, a file that
\* differs from the policy in force is the business of a running journal: once
\* there is none, or it has a final status, both files say what the generation
\* in force was compiled from.
NoUnjournaledChange ==
    journal.status # "running" => intent = content[current] /\ config = content[current]

\* As long as a change is unfinished it can be taken back: both backups are the
\* ones whose digests the journal holds.
BackupsIntact ==
    journal.status = "running" => oldIntent = journal.oldI /\ oldConfig = journal.oldC

\* docs/RECOVERY.md: a change whose generation is committed is finished forward,
\* so between commands recovery finds the new files, which it insists on.
CommittedHasFiles ==
    pc = "free" /\ journal.status = "running" /\ journal.gen = current
        => intent = journal.new /\ config = journal.new

\* That is so unless a commit was accepted behind its client's back: a change
\* whose generation is committed keeps the new files recovery insists on.
CommittedKeepsFiles == lost \/ CommittedHasFiles

\* Recovery ends: an expired change is finished or taken back and its journal
\* removed, without an operator, unless such a commit went astray.
ExpiredResolved ==
    (journal.status # "absent" /\ expired) ~> (journal.status = "absent" \/ lost)
=============================================================================
