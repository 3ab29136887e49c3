---------------------------- MODULE BootSequence ----------------------------
(***************************************************************************)
(* The hand-over of the host's protection from one table to the next, from *)
(* the initramfs to the committed ruleset, and the start of the network    *)
(* behind it: the deny-all guard of the initramfs, the boot hold with its  *)
(* resume guard, the setup that goes on behind it, nftfw-early, which      *)
(* restores the committed ruleset, nftfw-enforcement-ready, which verifies *)
(* it and hands the initramfs guard off, and the units that bring the      *)
(* network up (netgate), gated first by the hold and then by readiness.    *)
(*                                                                         *)
(* SetupEngine models the journal and the phases of the setup in full.     *)
(* Here they appear as far as they touch tables, gates and units.          *)
(***************************************************************************)
EXTENDS Naturals, FiniteSets

CONSTANTS Producers,    \* the units that bring the network up
          MaxBoots, MaxFaults, MaxRestarts

ASSUME BootAssumption ==
  /\ IsFiniteSet(Producers) /\ Producers # {}
  /\ MaxBoots \in Nat /\ MaxFaults \in Nat /\ MaxRestarts \in Nat

VARIABLES
  journal,    \* the setup journal, as far as boot and recovery look at it
  host,       \* boot files, units and markers; tables in the kernel; see Host
  boot,       \* how the running system was booted
  hold,       \* nftfw-setup-boot-hold.service
  early,      \* nftfw-early.service
  ready,      \* nftfw-enforcement-ready.service
  net,        \* each producer's unit
  need,       \* what each producer's start job still waits for
  pc,         \* the next step of the setup or rollback that holds the lock
  mode,       \* what that command does, and whether its rollback failed
  boots, faults, restarts,
  calm        \* since the boot nothing failed and nobody began a command

vars == <<journal, host, boot, hold, early, ready, net, need, pc, mode, boots, faults, restarts, calm>>
units == <<hold, early, ready, net, need>>

\* What PrepareBoot puts on the disk, in this order: the guard in the
\* initramfs, the two markers in /etc/nftfw, the kernel argument in GRUB.
AllPieces == {"initramfs", "producers", "hold", "grub"}
Tables == {"initramfs", "resume", "setup", "rules"}
Journals == {"none", "preparing", "prepared", "running", "committed", "complete", "rolling_back", "rolled_back"}

\* prepared, gates, enabled, pointer are on the disk: the pieces above, the
\* producers with a readiness drop-in, whether the units are enabled and
\* whether enforcement-enabled exists. The others go with the boot: the
\* tables, the hold's ready file, and the dependencies systemd has loaded,
\* those its generator makes of the hold marker and the drop-ins.
Host == [prepared : SUBSET AllPieces, gates : SUBSET Producers, enabled : BOOLEAN, pointer : BOOLEAN,
         tables : SUBSET Tables, holdReady : BOOLEAN, held : SUBSET {"hold"}, gated : SUBSET Producers]

Steps == {"idle", "prepare", "verify", "guard", "apply", "commit", "record", "early", "early_wait", "ready",
          "ready_wait", "gates", "reload", "hold_marker", "producer_marker", "resume", "release", "enable",
          "finalize", "complete", "generation", "stop", "initramfs", "files", "undo_reload", "undo_setup",
          "undo_resume", "undo_release"}

TypeOK ==
  /\ journal \in Journals
  /\ host \in Host
  /\ boot \in {"plain", "managed", "blocked"}
  /\ hold \in {"off", "queued", "waiting", "publish"}
  /\ early \in {"off", "queued", "done", "failed"}
  /\ ready \in {"off", "queued", "verified", "done", "failed"}
  /\ net \in [Producers -> {"down", "waiting", "up", "refused"}]
  /\ need \in [Producers -> SUBSET {"hold", "ready"}]
  /\ pc \in Steps
  /\ mode \in {"run", "recover", "undo", "undo_failed"}
  /\ boots \in 0..MaxBoots
  /\ faults \in 0..MaxFaults
  /\ restarts \in 0..MaxRestarts
  /\ calm \in BOOLEAN

---------------------------------------------------------------------------
(* The host: files, tables, and systemd.                                   *)

With(ts) == [host EXCEPT !.tables = @ \cup ts]
Without(ts) == [host EXCEPT !.tables = @ \ ts]

\* systemctl daemon-reload: the generator runs on the hold marker alone.
Reloaded(h) == [h EXCEPT !.held = h.prepared \cap {"hold"}, !.gated = h.gates]

Fault == faults < MaxFaults /\ faults' = faults + 1 /\ calm' = FALSE
Calm == UNCHANGED <<faults, calm>>

\* flock(LOCK_NB) on the setup lock succeeds.
LockFree == pc = "idle" /\ hold \in {"off", "queued"}

\* What a start job of p waits for, and the units it pulls in. The hold is a
\* oneshot without RemainAfterExit and runs again for each such job.
Needs(p, h, r) == (IF h.held # {} THEN {"hold"} ELSE {}) \cup (IF p \in h.gated /\ r # "done" THEN {"ready"} ELSE {})
Start(P, h, r) ==
  /\ net' = [p \in Producers |-> IF p \in P THEN "waiting" ELSE net[p]]
  /\ need' = [p \in Producers |-> IF p \in P THEN Needs(p, h, r) ELSE need[p]]

\* The unit u has succeeded, or has failed: Requires= and After=.
Release(u) == need' = [p \in Producers |-> need[p] \ {u}] /\ UNCHANGED net
Refuse(u) ==
  /\ net' = [p \in Producers |-> IF u \in need[p] THEN "refused" ELSE net[p]]
  /\ need' = [p \in Producers |-> IF u \in need[p] THEN {} ELSE need[p]]

\* A producer whose dependencies are satisfied starts.
StartProducer(p) ==
  /\ net[p] = "waiting" /\ need[p] = {}
  /\ net' = [net EXCEPT ![p] = "up"]
  /\ UNCHANGED <<journal, host, boot, hold, early, ready, need, pc, mode, boots, faults, restarts, calm>>

\* Hotplug, a package or an operator restarts a producer.
RestartProducer(p) ==
  /\ restarts < MaxRestarts /\ net[p] \in {"up", "refused"}
  /\ restarts' = restarts + 1
  /\ Start({p}, host, ready)
  /\ hold' = IF host.held # {} /\ hold = "off" THEN "queued" ELSE hold
  /\ ready' = IF p \in host.gated /\ ready \in {"off", "failed"} THEN "queued" ELSE ready
  /\ UNCHANGED <<journal, host, boot, early, pc, mode, boots, faults, calm>>

\* Somebody else reloads systemd, a package installation for instance.
ReloadSystemd ==
  /\ boot # "blocked" /\ host' = Reloaded(host) /\ host' # host
  /\ UNCHANGED <<journal, boot, units, pc, mode, boots, faults, restarts, calm>>

\* The initramfs loads the guard, and stays in a loop if the kernel argument
\* that belongs to it is missing (block_boot).
BootKind ==
  IF "initramfs" \notin host.prepared THEN "plain"
  ELSE IF "grub" \in host.prepared THEN "managed" ELSE "blocked"

Reboot ==
  /\ boots < MaxBoots /\ boots' = boots + 1
  /\ boot' = BootKind
  /\ host' = Reloaded([host EXCEPT !.tables = IF BootKind = "managed" THEN {"initramfs"} ELSE {},
                                   !.holdReady = FALSE])
  /\ pc' = "idle" /\ mode' = "run" /\ calm' = TRUE
  /\ IF BootKind = "blocked"
     THEN /\ hold' = "off" /\ early' = "off" /\ ready' = "off"
          /\ net' = [p \in Producers |-> "down"] /\ need' = [p \in Producers |-> {}]
     ELSE /\ hold' = (IF host'.held # {} THEN "queued" ELSE "off")
          /\ early' = (IF host.enabled THEN "queued" ELSE "off")
          /\ ready' = (IF host.enabled \/ host.gates # {} THEN "queued" ELSE "off")
          /\ Start(Producers, host', "off")
  /\ UNCHANGED <<journal, faults, restarts>>

---------------------------------------------------------------------------
(* The boot hold.                                                          *)

HoldFails == hold' = "off" /\ Refuse("hold")

\* ValidateBootMarker, ValidateHoldDropIns.
Marked == "producers" \in host.prepared /\ host.held # {}

\* verifyResumeNetworkState.
ResumeProtected == host.holdReady /\ journal = "prepared" /\ Marked /\ host.tables = {"resume"}

\* PendingBootStatus is resume_ready: the journal waits for this boot, and
\* markers, generated drop-ins, GRUB, kernel and initramfs are as prepared.
ResumeReady == journal = "prepared" /\ Marked /\ host.prepared = AllPieces /\ boot = "managed"

\* setup boot-hold takes the lock or fails. With the ready file it only
\* checks what is there; without it, it begins to wait, without a limit.
HoldBegins ==
  /\ hold = "queued"
  /\ IF ~LockFree THEN HoldFails
     ELSE IF ~host.holdReady THEN hold' = "waiting" /\ UNCHANGED <<net, need>>
     ELSE IF ResumeProtected THEN hold' = "off" /\ Release("hold")
     ELSE HoldFails
  /\ UNCHANGED <<journal, host, boot, early, ready, pc, mode, boots, faults, restarts, calm>>

\* Mutant: the guard of the initramfs is deleted before the resume guard is
\* added, and a failure in between leaves neither.
ActivateResumeGuardTwice ==
  /\ hold = "waiting" /\ ResumeReady
  /\ \/ host' = [host EXCEPT !.tables = {"resume"}] /\ hold' = "publish" /\ Calm /\ UNCHANGED <<net, need>>
     \/ host' = [host EXCEPT !.tables = @ \ {"initramfs"}] /\ HoldFails /\ Fault
  /\ UNCHANGED <<journal, boot, early, ready, pc, mode, boots, restarts>>

\* activateResumeGuard: one nft batch deletes the guard of the initramfs and
\* adds the resume guard, or finds that an earlier process has done it.
ActivateResumeGuard ==
  /\ hold = "waiting" /\ ResumeReady
  /\ \/ /\ host.tables = {"initramfs"}
        /\ host' = [host EXCEPT !.tables = {"resume"}]
        /\ hold' = "publish" /\ Calm /\ UNCHANGED <<net, need>>
     \/ /\ host.tables = {"resume"}
        /\ hold' = "publish" /\ Calm /\ UNCHANGED <<host, net, need>>
     \/ host.tables \notin {{"initramfs"}, {"resume"}} /\ HoldFails /\ Calm /\ UNCHANGED host
     \/ /\ Fault /\ HoldFails
        /\ host' \in {host, [host EXCEPT !.tables = IF @ = {"initramfs"} THEN {"resume"} ELSE @]}
  /\ UNCHANGED <<journal, boot, early, ready, pc, mode, boots, restarts>>

\* The ready file is published and the hold returns.
HoldPublishes ==
  /\ hold = "publish"
  /\ \/ host' = [host EXCEPT !.holdReady = TRUE] /\ hold' = "off" /\ Release("hold") /\ Calm
     \/ Fault /\ HoldFails /\ host' \in {host, [host EXCEPT !.holdReady = TRUE]}
  /\ UNCHANGED <<journal, boot, early, ready, pc, mode, boots, restarts>>

\* The hold is killed.
HoldDies ==
  /\ hold \in {"waiting", "publish"} /\ Fault /\ HoldFails
  /\ UNCHANGED <<journal, host, boot, early, ready, pc, mode, boots, restarts>>

---------------------------------------------------------------------------
(* The units of the committed ruleset.                                     *)

\* nftfwd --restore-active, skipped as long as there is no pointer.
RestoreActive ==
  /\ early = "queued"
  /\ \/ host.pointer /\ host' = With({"rules"}) /\ early' = "done" /\ Calm
     \/ ~host.pointer /\ early' = "off" /\ Calm /\ UNCHANGED host
     \/ host.pointer /\ Fault /\ early' = "failed" /\ host' \in {host, With({"rules"})}
  /\ UNCHANGED <<journal, boot, hold, ready, net, need, pc, mode, boots, restarts>>

\* nftfwd --verify-enforcement, after nftfw-early has ended either way.
VerifyEnforcement ==
  /\ ready = "queued" /\ early # "queued"
  /\ \/ host.pointer /\ "rules" \in host.tables /\ ready' = "verified" /\ Calm /\ UNCHANGED <<net, need>>
     \/ ~(host.pointer /\ "rules" \in host.tables) /\ ready' = "failed" /\ Refuse("ready") /\ Calm
     \/ Fault /\ ready' = "failed" /\ Refuse("ready")
  /\ UNCHANGED <<journal, host, boot, hold, early, pc, mode, boots, restarts>>

\* nftfwd --handoff-initramfs-guard, which removes the exact guard only.
Handoff ==
  /\ ready = "verified"
  /\ \/ host' = Without({"initramfs"}) /\ ready' = "done" /\ Release("ready") /\ Calm
     \/ Fault /\ ready' = "failed" /\ Refuse("ready") /\ host' \in {host, Without({"initramfs"})}
  /\ UNCHANGED <<journal, boot, hold, early, pc, mode, boots, restarts>>

---------------------------------------------------------------------------
(* The setup, as far as it touches tables, gates and units. A step that    *)
(* fails, with or without its effect, ends in Engine.fail: a committed     *)
(* generation is completed (RecoverCommitted), anything else rolled back.  *)

Failed ==
  IF mode = "recover" THEN pc' = "idle" /\ UNCHANGED <<journal, mode>>
  ELSE IF host'.pointer THEN pc' = "early" /\ mode' = "recover" /\ journal' = "committed"
  ELSE pc' = "generation" /\ mode' = "undo" /\ journal' = "rolling_back"

Attempt(from, to, h) ==
  /\ pc = from
  /\ \/ host' = h /\ pc' = to /\ Calm /\ UNCHANGED <<journal, mode>>
     \/ Fault /\ host' \in {host, h} /\ Failed
  /\ UNCHANGED <<boot, units, boots, restarts>>

\* The first setup, or a retry, on a host that has nothing of nftfw left.
StartSetup ==
  /\ LockFree /\ journal \in {"none", "rolled_back"}
  /\ boot = "plain" /\ host.tables = {} /\ host.prepared = {}
  /\ journal' = "preparing" /\ pc' = "prepare" /\ mode' = "run" /\ calm' = FALSE
  /\ UNCHANGED <<host, boot, units, boots, faults, restarts>>

NextPiece ==
  IF "initramfs" \notin host.prepared THEN "initramfs"
  ELSE IF "producers" \notin host.prepared THEN "producers"
  ELSE IF "hold" \notin host.prepared THEN "hold" ELSE "grub"

PrepareBoot ==
  \/ host.prepared # AllPieces /\ Attempt("prepare", "prepare", [host EXCEPT !.prepared = @ \cup {NextPiece}])
  \/ /\ pc = "prepare" /\ host.prepared = AllPieces
     /\ journal' = "prepared" /\ pc' = "idle"
     /\ UNCHANGED <<host, boot, units, mode, boots, faults, restarts, calm>>

\* setup again, after the reboot: Prepare with a journal to resume.
ResumeSetup ==
  /\ LockFree /\ ResumeReady /\ ResumeProtected
  /\ journal' = "running" /\ pc' = "verify" /\ mode' = "run" /\ calm' = FALSE
  /\ UNCHANGED <<host, boot, units, boots, faults, restarts>>

VerifyBootResume == Attempt("verify", "guard", host)
StartGuard == Attempt("guard", "apply", With({"setup"}))
ApplySafe == Attempt("apply", "commit", With({"rules"}))

\* The daemon takes the candidate back when its deadline passes.
CandidateExpires ==
  /\ journal = "running" /\ "rules" \in host.tables /\ ~host.pointer
  /\ host' = Without({"rules"})
  /\ UNCHANGED <<journal, boot, units, pc, mode, boots, faults, restarts, calm>>

\* The daemon commits what is in force, or refuses an expired candidate.
Commit ==
  \/ "rules" \in host.tables /\ Attempt("commit", "record", [host EXCEPT !.pointer = TRUE])
  \/ /\ pc = "commit" /\ "rules" \notin host.tables
     /\ UNCHANGED host /\ Failed
     /\ UNCHANGED <<boot, units, boots, faults, restarts, calm>>

\* The journal records the commit; a failed write goes on as a recovery.
RecordCommit ==
  /\ pc = "record" /\ journal' = "committed" /\ pc' = "early" /\ mode' \in {"run", "recover"}
  /\ UNCHANGED <<host, boot, units, boots, faults, restarts, calm>>

\* PublishFinalDependencies: systemctl start of the two units, each waited
\* for, then the drop-ins of the producers, a reload and its verification,
\* and only then the markers, the resume guard and the ready file.
StartEarly ==
  /\ pc = "early"
  /\ \/ /\ early' = (IF early = "done" THEN "done" ELSE "queued") /\ pc' = "early_wait"
        /\ Calm /\ UNCHANGED <<journal, mode, host>>
     \/ Fault /\ UNCHANGED <<host, early>> /\ Failed
  /\ UNCHANGED <<boot, hold, ready, net, need, boots, restarts>>

EarlyStarted ==
  /\ pc = "early_wait" /\ early # "queued" /\ UNCHANGED host
  /\ IF early = "failed" THEN Failed ELSE pc' = "ready" /\ UNCHANGED <<journal, mode>>
  /\ UNCHANGED <<boot, units, boots, faults, restarts, calm>>

StartReady ==
  /\ pc = "ready" /\ pc' = "ready_wait"
  /\ ready' = IF ready \in {"off", "failed"} THEN "queued" ELSE ready
  /\ UNCHANGED <<journal, host, boot, hold, early, net, need, mode, boots, faults, restarts, calm>>

ReadyStarted ==
  /\ pc = "ready_wait" /\ ready \notin {"queued", "verified"} /\ UNCHANGED host
  /\ IF ready # "done" THEN Failed ELSE pc' = "gates" /\ UNCHANGED <<journal, mode>>
  /\ UNCHANGED <<boot, units, boots, faults, restarts, calm>>

PublishGates ==
  \/ \E p \in Producers \ host.gates : Attempt("gates", "gates", [host EXCEPT !.gates = @ \cup {p}])
  \/ host.gates = Producers /\ Attempt("gates", "reload", host)

\* daemon-reload and VerifyEffective.
ReloadGates == Attempt("reload", "hold_marker", Reloaded(host))

\* Mutant: the markers stay.
RemoveMarkersNot == Attempt("hold_marker", "resume", host)

RemoveMarkers ==
  \/ Attempt("hold_marker", "producer_marker", [host EXCEPT !.prepared = @ \ {"hold"}])
  \/ Attempt("producer_marker", "resume", [host EXCEPT !.prepared = @ \ {"producers"}])

RemoveResumeGuard == Attempt("resume", "release", Without({"resume"}))
ReleaseBootHold == Attempt("release", "enable", [host EXCEPT !.holdReady = FALSE])

\* systemctl enable reloads systemd as well.
EnableBoot == Attempt("enable", "finalize", Reloaded([host EXCEPT !.enabled = TRUE]))

Finalize == Attempt("finalize", "complete", Without({"setup", "resume"}))

CompleteSetup ==
  /\ pc = "complete" /\ journal' = "complete" /\ pc' = "idle"
  /\ UNCHANGED <<host, boot, units, mode, boots, faults, restarts, calm>>

\* The command that holds the setup lock dies, or gives up because the
\* daemon cannot say whether the generation is committed.
CommandDies ==
  /\ pc # "idle" /\ Fault /\ pc' = "idle"
  /\ UNCHANGED <<journal, host, boot, units, mode, boots, restarts>>

---------------------------------------------------------------------------
(* setup rollback, of the operator or the watchdog.                        *)

StartRollback ==
  /\ LockFree /\ boot # "blocked"
  /\ journal \in {"preparing", "prepared", "running", "committed", "rolling_back"}
  /\ calm' = FALSE
  /\ IF journal = "committed" \/ (journal = "running" /\ host.pointer)
     THEN pc' = "early" /\ mode' = "recover" /\ journal' = "committed"
     ELSE pc' = "generation" /\ mode' = "undo" /\ journal' = "rolling_back"
  /\ UNCHANGED <<host, boot, units, boots, faults, restarts>>

\* A step of System.Rollback: a failure is remembered and the rest goes on.
Undo(from, to, h) ==
  /\ pc = from /\ pc' = to
  /\ \/ host' = h /\ Calm /\ UNCHANGED mode
     \/ Fault /\ host' \in {host, h} /\ mode' = "undo_failed"
  /\ UNCHANGED <<journal, boot, units, boots, restarts>>

\* The daemon takes the candidate back, if the journal has its number.
RollbackGeneration == \E ts \in {{}, {"rules"}} : Undo("generation", "stop", Without(ts))

\* The units are stopped, and with them the producers bound to readiness. The
\* results are ignored.
StopUnits ==
  /\ pc = "stop" /\ pc' = "initramfs"
  /\ \/ /\ early' = "off" /\ ready' = "off" /\ Calm
        /\ net' = [p \in Producers |-> IF p \in host.gated THEN "refused" ELSE net[p]]
        /\ need' = [p \in Producers |-> IF p \in host.gated THEN {} ELSE need[p]]
     \/ Fault /\ UNCHANGED <<early, ready, net, need>>
  /\ UNCHANGED <<journal, host, boot, hold, mode, boots, restarts>>

DisableInitramfs == Undo("initramfs", "files", [host EXCEPT !.prepared = @ \ {"initramfs"}])

\* restoreBackupDeferring puts the files back in the order of touchedFiles,
\* ends at the first that fails, and disables the units after the last.
Restored ==
  IF host.gates # {} THEN [host EXCEPT !.gates = {}]
  ELSE IF "grub" \in host.prepared THEN [host EXCEPT !.prepared = @ \ {"grub"}]
  ELSE IF "hold" \in host.prepared THEN [host EXCEPT !.prepared = @ \ {"hold"}]
  ELSE [host EXCEPT !.prepared = @ \ {"producers"}, !.enabled = FALSE]

RestoreFiles ==
  /\ pc = "files"
  /\ \/ /\ host' = Restored /\ Calm /\ UNCHANGED mode
        /\ pc' = IF Restored.prepared \subseteq {"initramfs"} /\ Restored.gates = {} THEN "undo_reload" ELSE "files"
     \/ Fault /\ host' \in {host, Restored} /\ mode' = "undo_failed" /\ pc' = "undo_reload"
  /\ UNCHANGED <<journal, boot, units, boots, restarts>>

\* The result of this reload is ignored.
UndoReload ==
  /\ pc = "undo_reload" /\ pc' = "undo_setup"
  /\ \/ host' = Reloaded(host) /\ Calm
     \/ Fault /\ UNCHANGED host
  /\ UNCHANGED <<journal, boot, units, mode, boots, restarts>>

UndoGuards ==
  \/ Undo("undo_setup", "undo_resume", Without({"setup"}))
  \/ Undo("undo_resume", "undo_release", Without({"resume"}))

\* Mutant: a failed rollback writes a status that no reader knows.
EndRollbackUnknown ==
  /\ pc = "undo_release" /\ pc' = "idle"
  /\ IF mode = "undo"
     THEN host' = [host EXCEPT !.holdReady = FALSE] /\ journal' = "rolled_back"
     ELSE journal' = "failed" /\ UNCHANGED host
  /\ Calm /\ UNCHANGED <<boot, units, mode, boots, restarts>>

\* The ready file goes, and the journal is closed, only if nothing failed.
EndRollback ==
  /\ pc = "undo_release" /\ pc' = "idle"
  /\ \/ mode = "undo" /\ host' = [host EXCEPT !.holdReady = FALSE] /\ journal' = "rolled_back" /\ Calm
     \/ mode = "undo" /\ Fault /\ host' \in {host, [host EXCEPT !.holdReady = FALSE]} /\ UNCHANGED journal
     \/ mode = "undo_failed" /\ Calm /\ UNCHANGED <<host, journal>>
  /\ UNCHANGED <<boot, units, mode, boots, restarts>>

---------------------------------------------------------------------------
Init ==
  /\ journal = "none"
  /\ host = [prepared |-> {}, gates |-> {}, enabled |-> FALSE, pointer |-> FALSE,
             tables |-> {}, holdReady |-> FALSE, held |-> {}, gated |-> {}]
  /\ boot = "plain" /\ hold = "off" /\ early = "off" /\ ready = "off"
  /\ net = [p \in Producers |-> "up"] /\ need = [p \in Producers |-> {}]
  /\ pc = "idle" /\ mode = "run"
  /\ boots = 0 /\ faults = 0 /\ restarts = 0 /\ calm = TRUE

HoldUnit == HoldBegins \/ ActivateResumeGuard \/ HoldPublishes \/ HoldDies
EnforcementUnits == RestoreActive \/ VerifyEnforcement \/ Handoff
Environment ==
  \/ \E p \in Producers : StartProducer(p) \/ RestartProducer(p)
  \/ ReloadSystemd \/ Reboot \/ CandidateExpires
Setup ==
  \/ StartSetup \/ PrepareBoot \/ ResumeSetup \/ VerifyBootResume \/ StartGuard \/ ApplySafe \/ Commit
  \/ RecordCommit \/ StartEarly \/ EarlyStarted \/ StartReady \/ ReadyStarted \/ PublishGates \/ ReloadGates
  \/ RemoveMarkers \/ RemoveResumeGuard \/ ReleaseBootHold \/ EnableBoot \/ Finalize \/ CompleteSetup
  \/ CommandDies
Rollback ==
  \/ StartRollback \/ RollbackGeneration \/ StopUnits \/ DisableInitramfs \/ RestoreFiles \/ UndoReload
  \/ UndoGuards \/ EndRollback

Next == HoldUnit \/ EnforcementUnits \/ Environment \/ Setup \/ Rollback

\* systemd runs the jobs of a boot; nothing is assumed of commands.
Fairness ==
  /\ WF_vars(HoldBegins) /\ WF_vars(ActivateResumeGuard) /\ WF_vars(HoldPublishes)
  /\ WF_vars(RestoreActive) /\ WF_vars(VerifyEnforcement) /\ WF_vars(Handoff)
  /\ \A p \in Producers : WF_vars(StartProducer(p))

Spec == Init /\ [][Next]_vars /\ Fairness

---------------------------------------------------------------------------
\* From the guard of the initramfs to the committed ruleset there is no moment
\* without a table of nftfw in the kernel, whatever fails, dies or reboots in
\* between (the swap of activateResumeGuard, the order of
\* PublishFinalDependencies, the handoff behind the verification), and the
\* network is up only behind a table that lets the policy's traffic through:
\* never behind the deny-all guard, and in a completed setup only behind the
\* committed ruleset.
NetworkGuarded ==
  boot = "managed" /\ journal \in {"prepared", "running", "committed", "complete"} =>
    /\ host.tables # {}
    /\ (\E p \in Producers : net[p] = "up") =>
         /\ "initramfs" \notin host.tables
         /\ journal = "complete" => "rules" \in host.tables

\* A host that waits for its resumption, is completed or is rolled back gets
\* its network at every boot in which nothing fails: the hold finds what it
\* waits for, readiness is reached, and no marker is left behind that makes a
\* unit wait without end.
NetworkReturns ==
  \A p \in Producers :
    (calm /\ net[p] = "waiting" /\ journal \in {"prepared", "complete", "rolled_back"})
      ~> (net[p] = "up" \/ ~calm)
=============================================================================
