------------------------ MODULE BootSequenceProofs ------------------------
(***************************************************************************)
(* Type correctness of BootSequence, and that no order of boots, failures, *)
(* deaths, restarts and commands leaves the host unprotected between the   *)
(* guard of the initramfs and the committed ruleset, for any number of     *)
(* producers, boots, faults and restarts.                                  *)
(***************************************************************************)
EXTENDS BootSequence, TLAPS

Running == {"verify", "guard", "apply", "commit", "record"}
Gated == {"reload", "hold_marker", "producer_marker", "resume", "release", "enable", "finalize", "complete"}
Publishing == {"early", "early_wait", "ready", "ready_wait", "gates"} \cup Gated
Undoing == {"generation", "stop", "initramfs", "files", "undo_reload", "undo_setup", "undo_resume", "undo_release"}

\* What the journal says of the disk.
DiskInv ==
  /\ journal \in {"prepared", "running"} => host.prepared = AllPieces
  /\ journal = "committed" => "hold" \in host.prepared \/ host.gates = Producers
  /\ journal = "complete" => host.gates = Producers
  /\ journal \notin {"running", "committed", "complete"} => ~host.pointer

\* What each step of a command knows of the journal and of the units.
StepInv ==
  /\ pc = "prepare" => journal = "preparing" /\ boot = "plain"
  /\ pc \in Running => journal = "running"
  /\ pc \in Publishing => journal = "committed"
  /\ pc \in Undoing => journal = "rolling_back"
  /\ pc \in Gated \cup {"gates"} => ready = "done"
  /\ pc \in Gated => host.gates = Producers
  /\ hold \in {"waiting", "publish"} => pc = "idle"
  /\ hold = "publish" => journal = "prepared"

\* A producer that is up, or that nothing holds back any more.
Released(p) == net[p] = "up" \/ (net[p] = "waiting" /\ need[p] = {})

Managed == boot = "managed" /\ journal \in {"prepared", "running", "committed", "complete"}

\* What protects a managed boot, and what stands before the network.
GuardInv ==
  Managed =>
    /\ host.tables # {}
    /\ host.held # {} \/ host.gated = Producers
    /\ journal = "running" /\ ~host.pointer => "initramfs" \in host.tables \/ "resume" \in host.tables
    /\ ready \in {"verified", "done"} => host.pointer /\ "rules" \in host.tables
    /\ ready = "done" => "initramfs" \notin host.tables
    /\ hold = "publish" => "initramfs" \notin host.tables
    /\ \A p \in Producers : Released(p) =>
         "initramfs" \notin host.tables /\ (journal = "complete" => "rules" \in host.tables)

BootInv == TypeOK /\ DiskInv /\ StepInv /\ GuardInv

---------------------------------------------------------------------------
(* Type correctness. *)

\* What the helpers on the host return.
LEMMA HostTypes ==
  ASSUME TypeOK
  PROVE  /\ \A ts \in SUBSET Tables : With(ts) \in Host /\ Without(ts) \in Host
         /\ \A h \in Host : Reloaded(h) \in Host
<1>1. ASSUME NEW ts \in SUBSET Tables PROVE With(ts) \in Host /\ Without(ts) \in Host
  BY DEF TypeOK, Host, With, Without
<1>2. ASSUME NEW h \in Host PROVE Reloaded(h) \in Host
  BY DEF Host, Reloaded
<1> QED
  BY <1>1, <1>2

LEMMA CounterTypes ==
  ASSUME TypeOK, Fault \/ Calm
  PROVE  faults' \in 0..MaxFaults /\ calm' \in BOOLEAN
<1>1. CASE Fault
  <2>1. faults' \in 0..MaxFaults
    BY <1>1, BootAssumption DEF TypeOK, Fault
  <2>2. calm' \in BOOLEAN
    BY <1>1 DEF Fault
  <2> QED
    BY <2>1, <2>2
<1>2. CASE Calm
  BY <1>2 DEF TypeOK, Calm
<1> QED
  BY <1>1, <1>2

\* Attempt, Undo and Failed keep the types when their arguments have them.
LEMMA AttemptTypes ==
  ASSUME TypeOK, NEW from, NEW to \in Steps, NEW h \in Host, Attempt(from, to, h)
  PROVE  TypeOK'
BY CounterTypes DEF TypeOK, Attempt, Failed, Steps, Journals, units

LEMMA UndoTypes ==
  ASSUME TypeOK, NEW from, NEW to \in Steps, NEW h \in Host, Undo(from, to, h)
  PROVE  TypeOK'
BY CounterTypes DEF TypeOK, Undo, units

\* The units and the environment.
LEMMA UnitTypes ==
  ASSUME TypeOK, HoldUnit \/ EnforcementUnits
  PROVE  TypeOK'
<1> USE BootAssumption, CounterTypes DEF TypeOK, HoldFails, Refuse, Release
<1>1. CASE HoldBegins
  BY <1>1 DEF HoldBegins
<1>2. CASE ActivateResumeGuard
  BY <1>2 DEF ActivateResumeGuard, Host, Tables
<1>3. CASE HoldPublishes
  <2> DEFINE published == [host EXCEPT !.holdReady = TRUE]
  <2>1. published \in Host
    BY DEF Host
  <2>2. \/ host' = published /\ hold' = "off" /\ Release("hold") /\ Calm
        \/ Fault /\ HoldFails /\ host' \in {host, published}
    BY <1>3 DEF HoldPublishes
  <2> HIDE DEF published
  <2>3. UNCHANGED <<journal, boot, early, ready, pc, mode, boots, restarts>>
    BY <1>3 DEF HoldPublishes
  <2> QED
    BY <2>1, <2>2, <2>3
<1>4. CASE HoldDies
  BY <1>4 DEF HoldDies
<1>5. CASE RestoreActive
  BY <1>5, HostTypes DEF RestoreActive, Tables
<1>6. CASE VerifyEnforcement
  BY <1>6 DEF VerifyEnforcement
<1>7. CASE Handoff
  BY <1>7, HostTypes DEF Handoff, Tables
<1> QED
  BY <1>1, <1>2, <1>3, <1>4, <1>5, <1>6, <1>7 DEF HoldUnit, EnforcementUnits

LEMMA EnvironmentTypes ==
  ASSUME TypeOK, Environment
  PROVE  TypeOK'
<1> USE BootAssumption, CounterTypes DEF TypeOK, units
<1>1. ASSUME NEW p \in Producers, StartProducer(p) PROVE TypeOK'
  BY <1>1 DEF StartProducer
<1>2. ASSUME NEW p \in Producers, RestartProducer(p) PROVE TypeOK'
  BY <1>2 DEF RestartProducer, Start, Needs
<1>3. CASE ReloadSystemd
  BY <1>3, HostTypes DEF ReloadSystemd
<1>4. CASE Reboot
  <2>1. [host EXCEPT !.tables = IF BootKind = "managed" THEN {"initramfs"} ELSE {}, !.holdReady = FALSE] \in Host
    BY DEF Host, Tables
  <2>2. host' \in Host
    BY <1>4, <2>1, HostTypes DEF Reboot
  <2>3. net' \in [Producers -> {"down", "waiting", "up", "refused"}] /\ need' \in [Producers -> SUBSET {"hold", "ready"}]
    BY <1>4 DEF Reboot, Start, Needs
  <2> QED
    BY <1>4, <2>2, <2>3 DEF Reboot, BootKind, Steps
<1>5. CASE CandidateExpires
  BY <1>5, HostTypes DEF CandidateExpires, Tables
<1> QED
  BY <1>1, <1>2, <1>3, <1>4, <1>5 DEF Environment

\* The setup.
LEMMA SetupTypes ==
  ASSUME TypeOK, Setup
  PROVE  TypeOK'
<1> USE BootAssumption, CounterTypes
<1>0. CASE StartSetup \/ ResumeSetup
  <2>1. calm' \in BOOLEAN
    BY <1>0 DEF StartSetup, ResumeSetup
  <2> QED
    BY <1>0, <2>1 DEF TypeOK, StartSetup, ResumeSetup, Steps, Journals, units
<1>1. CASE RecordCommit \/ CompleteSetup \/ CommandDies
  BY <1>1 DEF TypeOK, RecordCommit, CompleteSetup, CommandDies, Steps, Journals, units
<1>2. CASE PrepareBoot
  <2>1. [host EXCEPT !.prepared = @ \cup {NextPiece}] \in Host
    BY DEF TypeOK, Host, NextPiece, AllPieces
  <2>2. CASE Attempt("prepare", "prepare", [host EXCEPT !.prepared = @ \cup {NextPiece}])
    BY <2>1, <2>2, AttemptTypes DEF Steps
  <2> QED
    BY <1>2, <2>2 DEF TypeOK, PrepareBoot, Steps, Journals, units
<1>3. CASE VerifyBootResume
  BY <1>3, AttemptTypes DEF VerifyBootResume, TypeOK, Steps
<1>4. CASE StartGuard \/ ApplySafe \/ RemoveResumeGuard \/ Finalize
  BY <1>4, AttemptTypes, HostTypes DEF StartGuard, ApplySafe, RemoveResumeGuard, Finalize, Steps, Tables
<1>5. CASE Commit
  <2>1. [host EXCEPT !.pointer = TRUE] \in Host
    BY DEF TypeOK, Host
  <2>2. CASE Attempt("commit", "record", [host EXCEPT !.pointer = TRUE])
    BY <2>1, <2>2, AttemptTypes DEF Steps
  <2> QED
    BY <1>5, <2>2 DEF Commit, TypeOK, Failed, Steps, Journals, units
<1>6. CASE StartEarly \/ EarlyStarted \/ StartReady \/ ReadyStarted
  BY <1>6 DEF StartEarly, EarlyStarted, StartReady, ReadyStarted, TypeOK, Failed, Steps, Journals, units
<1>7. CASE PublishGates
  <2>1. host \in Host /\ \A p \in Producers : [host EXCEPT !.gates = @ \cup {p}] \in Host
    BY DEF TypeOK, Host
  <2> QED
    BY <1>7, <2>1, AttemptTypes DEF PublishGates, Steps
<1>8. CASE ReloadGates \/ EnableBoot
  <2>1. host \in Host /\ [host EXCEPT !.enabled = TRUE] \in Host
    BY DEF TypeOK, Host
  <2> QED
    BY <1>8, <2>1, AttemptTypes, HostTypes DEF ReloadGates, EnableBoot, Steps
<1>9. CASE RemoveMarkers \/ ReleaseBootHold
  <2>1. /\ \A x : [host EXCEPT !.prepared = @ \ {x}] \in Host
        /\ [host EXCEPT !.holdReady = FALSE] \in Host
    BY DEF TypeOK, Host
  <2> QED
    BY <1>9, <2>1, AttemptTypes DEF RemoveMarkers, ReleaseBootHold, Steps
<1> QED
  BY <1>0, <1>1, <1>2, <1>3, <1>4, <1>5, <1>6, <1>7, <1>8, <1>9 DEF Setup

\* The rollback.
LEMMA RollbackTypes ==
  ASSUME TypeOK, Rollback
  PROVE  TypeOK'
<1> USE BootAssumption, CounterTypes
<1>0. CASE StartRollback
  <2>1. calm' \in BOOLEAN
    BY <1>0 DEF StartRollback
  <2> QED
    BY <1>0, <2>1 DEF TypeOK, StartRollback, Steps, Journals, units
<1>1. CASE StopUnits
  BY <1>1 DEF TypeOK, StopUnits, Steps, units
<1>2. CASE RollbackGeneration \/ UndoGuards
  BY <1>2, UndoTypes, HostTypes DEF RollbackGeneration, UndoGuards, Steps, Tables
<1>3. CASE DisableInitramfs
  <2>1. [host EXCEPT !.prepared = @ \ {"initramfs"}] \in Host
    BY DEF TypeOK, Host
  <2> QED
    BY <1>3, <2>1, UndoTypes DEF DisableInitramfs, Steps
<1>4. CASE RestoreFiles
  <2>1. Restored \in Host
    BY DEF TypeOK, Host, Restored
  <2> QED
    BY <1>4, <2>1 DEF TypeOK, RestoreFiles, Steps, units
<1>5. CASE UndoReload
  BY <1>5, HostTypes DEF TypeOK, UndoReload, Steps, units
<1>6. CASE EndRollback
  <2> DEFINE released == [host EXCEPT !.holdReady = FALSE]
  <2>1. released \in Host
    BY DEF TypeOK, Host
  <2>2. \/ host' = released /\ journal' = "rolled_back" /\ Calm
        \/ Fault /\ host' \in {host, released} /\ UNCHANGED journal
        \/ Calm /\ UNCHANGED <<host, journal>>
    BY <1>6 DEF EndRollback
  <2>3. pc' = "idle" /\ UNCHANGED <<boot, units, mode, boots, restarts>>
    BY <1>6 DEF EndRollback
  <2> HIDE DEF released
  <2> QED
    BY <2>1, <2>2, <2>3 DEF TypeOK, Steps, Journals, units
<1> QED
  BY <1>0, <1>1, <1>2, <1>3, <1>4, <1>5, <1>6 DEF Rollback

LEMMA TypeStep == TypeOK /\ [Next]_vars => TypeOK'
<1>1. ASSUME TypeOK, UNCHANGED vars PROVE TypeOK'
  BY <1>1 DEF TypeOK, vars
<1> QED
  BY <1>1, UnitTypes, EnvironmentTypes, SetupTypes, RollbackTypes DEF Next

LEMMA TypeInit == Init => TypeOK
BY BootAssumption DEF Init, TypeOK, Host, Journals, Steps

\* No boot, unit, command or failure leaves the types.
THEOREM BootTypes == Spec => []TypeOK
BY TypeInit, TypeStep, PTL DEF Spec

---------------------------------------------------------------------------
(* The protection. *)

\* A reload changes nothing but the dependencies systemd has loaded.
LEMMA ReloadedFields ==
  ASSUME NEW h \in Host
  PROVE  LET r == Reloaded(h)
         IN  /\ r.prepared = h.prepared /\ r.gates = h.gates /\ r.enabled = h.enabled /\ r.pointer = h.pointer
             /\ r.tables = h.tables /\ r.holdReady = h.holdReady
             /\ r.held = h.prepared \cap {"hold"} /\ r.gated = h.gates
BY DEF Host, Reloaded

\* The hold and the two enforcement units keep the protection.
LEMMA UnitsGuarded ==
  ASSUME BootInv, TypeOK', HoldUnit \/ EnforcementUnits
  PROVE  BootInv'
<1> USE DEF BootInv, DiskInv, StepInv, GuardInv, Managed, Released, Running, Gated, Publishing, Undoing, AllPieces, Host,
            TypeOK, units, Fault, Calm
<1>1. CASE HoldBegins
  <2>1. DiskInv'
    BY <1>1 DEF HoldBegins, LockFree, Marked, ResumeProtected, Release, Refuse, HoldFails
  <2>2. StepInv'
    BY <1>1 DEF HoldBegins, LockFree, Marked, ResumeProtected, Release, Refuse, HoldFails
  <2>3. GuardInv'
    BY <1>1 DEF HoldBegins, LockFree, Marked, ResumeProtected, Release, Refuse, HoldFails
  <2> QED
    BY <2>1, <2>2, <2>3
<1>2. CASE ActivateResumeGuard
  <2>1. DiskInv'
    BY <1>2 DEF ActivateResumeGuard, ResumeReady, Marked, Release, Refuse, HoldFails
  <2>2. StepInv'
    BY <1>2 DEF ActivateResumeGuard, ResumeReady, Marked, Release, Refuse, HoldFails
  <2>3. GuardInv'
    BY <1>2 DEF ActivateResumeGuard, ResumeReady, Marked, Release, Refuse, HoldFails
  <2> QED
    BY <2>1, <2>2, <2>3
<1>3. CASE HoldPublishes
  <2>1. DiskInv'
    BY <1>3 DEF HoldPublishes, Release, Refuse, HoldFails
  <2>2. StepInv'
    BY <1>3 DEF HoldPublishes, Release, Refuse, HoldFails
  <2>3. GuardInv'
    BY <1>3 DEF HoldPublishes, Release, Refuse, HoldFails
  <2> QED
    BY <2>1, <2>2, <2>3
<1>4. CASE HoldDies
  <2>1. DiskInv'
    BY <1>4 DEF HoldDies, Release, Refuse, HoldFails
  <2>2. StepInv'
    BY <1>4 DEF HoldDies, Release, Refuse, HoldFails
  <2>3. GuardInv'
    BY <1>4 DEF HoldDies, Release, Refuse, HoldFails
  <2> QED
    BY <2>1, <2>2, <2>3
<1>5. CASE RestoreActive
  <2>1. DiskInv'
    BY <1>5 DEF RestoreActive, With
  <2>2. StepInv'
    BY <1>5 DEF RestoreActive, With
  <2>3. GuardInv'
    BY <1>5 DEF RestoreActive, With
  <2> QED
    BY <2>1, <2>2, <2>3
<1>6. CASE VerifyEnforcement
  <2>1. DiskInv'
    BY <1>6 DEF VerifyEnforcement, Release, Refuse, HoldFails
  <2>2. StepInv'
    BY <1>6 DEF VerifyEnforcement, Release, Refuse, HoldFails
  <2>3. GuardInv'
    BY <1>6 DEF VerifyEnforcement, Release, Refuse, HoldFails
  <2> QED
    BY <2>1, <2>2, <2>3
<1>7. CASE Handoff
  <2>1. DiskInv'
    BY <1>7 DEF Handoff, Without, Release, Refuse, HoldFails
  <2>2. StepInv'
    BY <1>7 DEF Handoff, Without, Release, Refuse, HoldFails
  <2>3. GuardInv'
    BY <1>7 DEF Handoff, Without, Release, Refuse, HoldFails
  <2> QED
    BY <2>1, <2>2, <2>3
<1> QED
  BY <1>1, <1>2, <1>3, <1>4, <1>5, <1>6, <1>7 DEF HoldUnit, EnforcementUnits

\* So do restarts, reloads, reboots and an expired candidate.
LEMMA EnvironmentGuarded ==
  ASSUME BootInv, TypeOK', Environment
  PROVE  BootInv'
<1> USE DEF BootInv, DiskInv, StepInv, GuardInv, Managed, Released, Running, Gated, Publishing, Undoing, AllPieces, Host,
            TypeOK, units, Fault, Calm
<1>1. ASSUME NEW p \in Producers, StartProducer(p) PROVE BootInv'
  <2>1. DiskInv'
    BY <1>1 DEF StartProducer
  <2>2. StepInv'
    BY <1>1 DEF StartProducer
  <2>3. GuardInv'
    BY <1>1 DEF StartProducer
  <2> QED
    BY <2>1, <2>2, <2>3
<1>2. ASSUME NEW p \in Producers, RestartProducer(p) PROVE BootInv'
  <2>1. DiskInv'
    BY <1>2 DEF RestartProducer, Start, Needs
  <2>2. StepInv'
    BY <1>2 DEF RestartProducer, Start, Needs
  <2>3. GuardInv'
    BY <1>2 DEF RestartProducer, Start, Needs
  <2> QED
    BY <2>1, <2>2, <2>3
<1>3. CASE ReloadSystemd
  <2>1. DiskInv'
    BY <1>3 DEF ReloadSystemd, Reloaded
  <2>2. StepInv'
    BY <1>3 DEF ReloadSystemd, Reloaded
  <2>3. GuardInv'
    BY <1>3 DEF ReloadSystemd, Reloaded
  <2> QED
    BY <2>1, <2>2, <2>3
<1>4. CASE Reboot
  <2> DEFINE cold == [host EXCEPT !.tables = IF BootKind = "managed" THEN {"initramfs"} ELSE {}, !.holdReady = FALSE]
  <2>1. /\ cold \in Host /\ cold.prepared = host.prepared /\ cold.gates = host.gates /\ cold.pointer = host.pointer
        /\ BootKind = "managed" => cold.tables = {"initramfs"}
    BY DEF Tables
  <2> HIDE DEF cold
  <2>2. host' = Reloaded(cold) /\ boot' = BootKind /\ pc' = "idle" /\ UNCHANGED journal
    BY <1>4 DEF Reboot, cold
  <2>3. /\ host'.prepared = host.prepared /\ host'.gates = host.gates /\ host'.pointer = host.pointer
        /\ BootKind = "managed" => host'.tables = {"initramfs"}
        /\ host'.held = host.prepared \cap {"hold"} /\ host'.gated = host.gates
    BY <2>1, <2>2, ReloadedFields
  <2>4. /\ hold' \in {"off", "queued"} /\ ready' \in {"off", "queued"}
        /\ BootKind = "managed" => Start(Producers, host', "off")
    BY <1>4 DEF Reboot
  <2> HIDE DEF Host
  <2>5. DiskInv'
    BY <2>2, <2>3
  <2>6. StepInv'
    BY <2>2, <2>3, <2>4
  <2>7. ASSUME Managed' PROVE host'.held # {} \/ host'.gated = Producers
    BY <2>2, <2>3, <2>7
  <2>8. ASSUME Managed', NEW p \in Producers PROVE ~Released(p)'
    BY <2>2, <2>4, <2>7, <2>8 DEF Start, Needs
  <2>9. GuardInv'
    BY <2>2, <2>3, <2>4, <2>7, <2>8
  <2> QED
    BY <2>5, <2>6, <2>9
<1>5. CASE CandidateExpires
  <2>1. DiskInv'
    BY <1>5 DEF CandidateExpires, Without
  <2>2. StepInv'
    BY <1>5 DEF CandidateExpires, Without
  <2>3. GuardInv'
    BY <1>5 DEF CandidateExpires, Without
  <2> QED
    BY <2>1, <2>2, <2>3
<1> QED
  BY <1>1, <1>2, <1>3, <1>4, <1>5 DEF Environment

\* So does every step of the setup and of its recovery, failed or not.
LEMMA SetupGuarded ==
  ASSUME BootInv, TypeOK', Setup
  PROVE  BootInv'
<1> USE DEF BootInv, DiskInv, StepInv, GuardInv, Managed, Released, Running, Gated, Publishing, Undoing, AllPieces, Host,
            TypeOK, units, Fault, Calm
<1>1. CASE StartSetup
  <2>1. DiskInv'
    BY <1>1 DEF StartSetup, LockFree
  <2>2. StepInv'
    BY <1>1 DEF StartSetup, LockFree
  <2>3. GuardInv'
    BY <1>1 DEF StartSetup, LockFree
  <2> QED
    BY <2>1, <2>2, <2>3
<1>2. CASE PrepareBoot
  <2>1. DiskInv'
    BY <1>2 DEF PrepareBoot, Attempt, Failed
  <2>2. StepInv'
    BY <1>2 DEF PrepareBoot, Attempt, Failed
  <2>3. GuardInv'
    BY <1>2 DEF PrepareBoot, Attempt, Failed
  <2> QED
    BY <2>1, <2>2, <2>3
<1>3. CASE ResumeSetup
  <2>1. DiskInv'
    BY <1>3 DEF ResumeSetup, ResumeReady, ResumeProtected, Marked, LockFree
  <2>2. StepInv'
    BY <1>3 DEF ResumeSetup, ResumeReady, ResumeProtected, Marked, LockFree
  <2>3. GuardInv'
    BY <1>3 DEF ResumeSetup, ResumeReady, ResumeProtected, Marked, LockFree
  <2> QED
    BY <2>1, <2>2, <2>3
<1>4. CASE VerifyBootResume
  <2>1. DiskInv'
    BY <1>4 DEF VerifyBootResume, Attempt, Failed
  <2>2. StepInv'
    BY <1>4 DEF VerifyBootResume, Attempt, Failed
  <2>3. GuardInv'
    BY <1>4 DEF VerifyBootResume, Attempt, Failed
  <2> QED
    BY <2>1, <2>2, <2>3
<1>5. CASE StartGuard
  <2>1. DiskInv'
    BY <1>5 DEF StartGuard, With, Attempt, Failed
  <2>2. StepInv'
    BY <1>5 DEF StartGuard, With, Attempt, Failed
  <2>3. GuardInv'
    BY <1>5 DEF StartGuard, With, Attempt, Failed
  <2> QED
    BY <2>1, <2>2, <2>3
<1>6. CASE ApplySafe
  <2>1. DiskInv'
    BY <1>6 DEF ApplySafe, With, Attempt, Failed
  <2>2. StepInv'
    BY <1>6 DEF ApplySafe, With, Attempt, Failed
  <2>3. GuardInv'
    BY <1>6 DEF ApplySafe, With, Attempt, Failed
  <2> QED
    BY <2>1, <2>2, <2>3
<1>7. CASE Commit
  <2>1. DiskInv'
    BY <1>7 DEF Commit, Attempt, Failed
  <2>2. StepInv'
    BY <1>7 DEF Commit, Attempt, Failed
  <2>3. GuardInv'
    BY <1>7 DEF Commit, Attempt, Failed
  <2> QED
    BY <2>1, <2>2, <2>3
<1>8. CASE RecordCommit
  <2>1. DiskInv'
    BY <1>8 DEF RecordCommit
  <2>2. StepInv'
    BY <1>8 DEF RecordCommit
  <2>3. GuardInv'
    BY <1>8 DEF RecordCommit
  <2> QED
    BY <2>1, <2>2, <2>3
<1>9. CASE StartEarly
  <2>1. DiskInv'
    BY <1>9 DEF StartEarly, Failed
  <2>2. StepInv'
    BY <1>9 DEF StartEarly, Failed
  <2>3. GuardInv'
    BY <1>9 DEF StartEarly, Failed
  <2> QED
    BY <2>1, <2>2, <2>3
<1>10. CASE EarlyStarted
  <2>1. DiskInv'
    BY <1>10 DEF EarlyStarted, Failed
  <2>2. StepInv'
    BY <1>10 DEF EarlyStarted, Failed
  <2>3. GuardInv'
    BY <1>10 DEF EarlyStarted, Failed
  <2> QED
    BY <2>1, <2>2, <2>3
<1>11. CASE StartReady
  <2>1. DiskInv'
    BY <1>11 DEF StartReady
  <2>2. StepInv'
    BY <1>11 DEF StartReady
  <2>3. GuardInv'
    BY <1>11 DEF StartReady
  <2> QED
    BY <2>1, <2>2, <2>3
<1>12. CASE ReadyStarted
  <2>1. DiskInv'
    BY <1>12 DEF ReadyStarted, Failed
  <2>2. StepInv'
    BY <1>12 DEF ReadyStarted, Failed
  <2>3. GuardInv'
    BY <1>12 DEF ReadyStarted, Failed
  <2> QED
    BY <2>1, <2>2, <2>3
<1>13. CASE PublishGates
  <2>1. DiskInv'
    BY <1>13 DEF PublishGates, Attempt, Failed
  <2>2. StepInv'
    BY <1>13 DEF PublishGates, Attempt, Failed
  <2>3. GuardInv'
    BY <1>13 DEF PublishGates, Attempt, Failed
  <2> QED
    BY <2>1, <2>2, <2>3
<1>14. CASE ReloadGates
  <2>1. /\ pc = "reload" /\ UNCHANGED <<boot, hold, early, ready, net, need, boots, restarts>>
        /\ \/ host' = Reloaded(host) /\ pc' = "hold_marker" /\ UNCHANGED <<journal, mode>>
           \/ host' \in {host, Reloaded(host)} /\ Failed
    BY <1>14 DEF ReloadGates, Attempt
  <2>2. /\ host'.prepared = host.prepared /\ host'.gates = host.gates /\ host'.pointer = host.pointer
        /\ host'.tables = host.tables
        /\ \/ host'.held = host.held /\ host'.gated = host.gated
           \/ host'.held = host.prepared \cap {"hold"} /\ host'.gated = host.gates
    BY <2>1, ReloadedFields
  <2>3. journal = "committed" /\ ready = "done" /\ host.gates = Producers
    BY <2>1
  <2> HIDE DEF Host
  <2>4. \/ pc' = "hold_marker" /\ UNCHANGED <<journal, mode>>
        \/ pc' = "idle" /\ UNCHANGED <<journal, mode>>
        \/ host'.pointer /\ pc' = "early" /\ journal' = "committed"
        \/ ~host'.pointer /\ pc' = "generation" /\ journal' = "rolling_back"
    BY <2>1 DEF Failed
  <2>5. DiskInv'
    BY <2>1, <2>2, <2>3, <2>4
  <2>6. StepInv'
    BY <2>1, <2>2, <2>3, <2>4
  <2>7. GuardInv'
    BY <2>1, <2>2, <2>3, <2>4
  <2> QED
    BY <2>5, <2>6, <2>7
<1>15. CASE RemoveMarkers
  <2>1. DiskInv'
    BY <1>15 DEF RemoveMarkers, Attempt, Failed
  <2>2. StepInv'
    BY <1>15 DEF RemoveMarkers, Attempt, Failed
  <2>3. GuardInv'
    BY <1>15 DEF RemoveMarkers, Attempt, Failed
  <2> QED
    BY <2>1, <2>2, <2>3
<1>16. CASE RemoveResumeGuard
  <2>1. DiskInv'
    BY <1>16 DEF RemoveResumeGuard, Without, Attempt, Failed
  <2>2. StepInv'
    BY <1>16 DEF RemoveResumeGuard, Without, Attempt, Failed
  <2>3. GuardInv'
    BY <1>16 DEF RemoveResumeGuard, Without, Attempt, Failed
  <2> QED
    BY <2>1, <2>2, <2>3
<1>17. CASE ReleaseBootHold
  <2>1. DiskInv'
    BY <1>17 DEF ReleaseBootHold, Attempt, Failed
  <2>2. StepInv'
    BY <1>17 DEF ReleaseBootHold, Attempt, Failed
  <2>3. GuardInv'
    BY <1>17 DEF ReleaseBootHold, Attempt, Failed
  <2> QED
    BY <2>1, <2>2, <2>3
<1>18. CASE EnableBoot
  <2> DEFINE enabled == [host EXCEPT !.enabled = TRUE]
  <2>0. /\ enabled \in Host /\ enabled.prepared = host.prepared /\ enabled.gates = host.gates
        /\ enabled.pointer = host.pointer /\ enabled.tables = host.tables
    OBVIOUS
  <2> HIDE DEF enabled
  <2>1. /\ pc = "enable" /\ UNCHANGED <<boot, hold, early, ready, net, need, boots, restarts>>
        /\ \/ host' = Reloaded(enabled) /\ pc' = "finalize" /\ UNCHANGED <<journal, mode>>
           \/ host' \in {host, Reloaded(enabled)} /\ Failed
    BY <1>18 DEF EnableBoot, Attempt, enabled
  <2>2. /\ host'.prepared = host.prepared /\ host'.gates = host.gates /\ host'.pointer = host.pointer
        /\ host'.tables = host.tables
        /\ \/ host'.held = host.held /\ host'.gated = host.gated
           \/ host'.held = host.prepared \cap {"hold"} /\ host'.gated = host.gates
    BY <2>0, <2>1, ReloadedFields
  <2>3. journal = "committed" /\ ready = "done" /\ host.gates = Producers
    BY <2>1
  <2> HIDE DEF Host
  <2>4. \/ pc' = "finalize" /\ UNCHANGED <<journal, mode>>
        \/ pc' = "idle" /\ UNCHANGED <<journal, mode>>
        \/ host'.pointer /\ pc' = "early" /\ journal' = "committed"
        \/ ~host'.pointer /\ pc' = "generation" /\ journal' = "rolling_back"
    BY <2>1 DEF Failed
  <2>5. DiskInv'
    BY <2>1, <2>2, <2>3, <2>4
  <2>6. StepInv'
    BY <2>1, <2>2, <2>3, <2>4
  <2>7. GuardInv'
    BY <2>1, <2>2, <2>3, <2>4
  <2> QED
    BY <2>5, <2>6, <2>7
<1>19. CASE Finalize
  <2>1. DiskInv'
    BY <1>19 DEF Finalize, Without, Attempt, Failed
  <2>2. StepInv'
    BY <1>19 DEF Finalize, Without, Attempt, Failed
  <2>3. GuardInv'
    BY <1>19 DEF Finalize, Without, Attempt, Failed
  <2> QED
    BY <2>1, <2>2, <2>3
<1>20. CASE CompleteSetup
  <2>1. DiskInv'
    BY <1>20 DEF CompleteSetup
  <2>2. StepInv'
    BY <1>20 DEF CompleteSetup
  <2>3. GuardInv'
    BY <1>20 DEF CompleteSetup
  <2> QED
    BY <2>1, <2>2, <2>3
<1>21. CASE CommandDies
  <2>1. DiskInv'
    BY <1>21 DEF CommandDies
  <2>2. StepInv'
    BY <1>21 DEF CommandDies
  <2>3. GuardInv'
    BY <1>21 DEF CommandDies
  <2> QED
    BY <2>1, <2>2, <2>3
<1> QED
  BY <1>1, <1>2, <1>3, <1>4, <1>5, <1>6, <1>7, <1>8, <1>9, <1>10, <1>11, <1>12, <1>13, <1>14, <1>15, <1>16, <1>17, <1>18, <1>19, <1>20, <1>21 DEF Setup

\* A rollback leaves the statuses the protection is about at its first step.
LEMMA RollbackGuarded ==
  ASSUME BootInv, TypeOK', Rollback
  PROVE  BootInv'
<1> USE DEF BootInv, DiskInv, StepInv, GuardInv, Managed, Released, Running, Gated, Publishing, Undoing, AllPieces, Host,
            TypeOK, units, Fault, Calm
<1>1. CASE StartRollback
  <2>1. DiskInv'
    BY <1>1 DEF StartRollback, LockFree
  <2>2. StepInv'
    BY <1>1 DEF StartRollback, LockFree
  <2>3. GuardInv'
    BY <1>1 DEF StartRollback, LockFree
  <2> QED
    BY <2>1, <2>2, <2>3
<1>2. CASE RollbackGeneration
  <2>1. DiskInv'
    BY <1>2 DEF RollbackGeneration, Undo, Without
  <2>2. StepInv'
    BY <1>2 DEF RollbackGeneration, Undo, Without
  <2>3. GuardInv'
    BY <1>2 DEF RollbackGeneration, Undo, Without
  <2> QED
    BY <2>1, <2>2, <2>3
<1>3. CASE StopUnits
  <2>1. DiskInv'
    BY <1>3 DEF StopUnits
  <2>2. StepInv'
    BY <1>3 DEF StopUnits
  <2>3. GuardInv'
    BY <1>3 DEF StopUnits
  <2> QED
    BY <2>1, <2>2, <2>3
<1>4. CASE DisableInitramfs
  <2>1. DiskInv'
    BY <1>4 DEF DisableInitramfs, Undo
  <2>2. StepInv'
    BY <1>4 DEF DisableInitramfs, Undo
  <2>3. GuardInv'
    BY <1>4 DEF DisableInitramfs, Undo
  <2> QED
    BY <2>1, <2>2, <2>3
<1>5. CASE RestoreFiles
  <2>1. pc = "files" /\ pc' \in {"files", "undo_reload"} /\ UNCHANGED <<journal, boot, units>>
    BY <1>5 DEF RestoreFiles
  <2>2. host' \in {host, Restored}
    BY <1>5 DEF RestoreFiles
  <2>3. Restored.pointer = host.pointer
    BY DEF Restored
  <2>4. DiskInv'
    BY <2>1, <2>2, <2>3
  <2>5. StepInv'
    BY <2>1, <2>2
  <2>6. GuardInv'
    BY <2>1, <2>2
  <2> QED
    BY <2>4, <2>5, <2>6
<1>6. CASE UndoReload
  <2>1. pc = "undo_reload" /\ pc' = "undo_setup" /\ UNCHANGED <<journal, boot, units>>
    BY <1>6 DEF UndoReload
  <2>2. host'.pointer = host.pointer
    BY <1>6, ReloadedFields DEF UndoReload
  <2>3. DiskInv'
    BY <2>1, <2>2
  <2>4. StepInv'
    BY <2>1
  <2>5. GuardInv'
    BY <2>1
  <2> QED
    BY <2>3, <2>4, <2>5
<1>7. CASE UndoGuards
  <2>1. DiskInv'
    BY <1>7 DEF UndoGuards, Undo, Without
  <2>2. StepInv'
    BY <1>7 DEF UndoGuards, Undo, Without
  <2>3. GuardInv'
    BY <1>7 DEF UndoGuards, Undo, Without
  <2> QED
    BY <2>1, <2>2, <2>3
<1>8. CASE EndRollback
  <2>1. DiskInv'
    BY <1>8 DEF EndRollback
  <2>2. StepInv'
    BY <1>8 DEF EndRollback
  <2>3. GuardInv'
    BY <1>8 DEF EndRollback
  <2> QED
    BY <2>1, <2>2, <2>3
<1> QED
  BY <1>1, <1>2, <1>3, <1>4, <1>5, <1>6, <1>7, <1>8 DEF Rollback

\* The invariant is inductive.
LEMMA BootStep == BootInv /\ [Next]_vars => BootInv'
<1> SUFFICES ASSUME BootInv, [Next]_vars PROVE BootInv'
  OBVIOUS
<1>1. TypeOK'
  BY TypeStep DEF BootInv
<1>2. CASE HoldUnit \/ EnforcementUnits
  BY <1>1, <1>2, UnitsGuarded
<1>3. CASE Environment
  BY <1>1, <1>3, EnvironmentGuarded
<1>4. CASE Setup
  BY <1>1, <1>4, SetupGuarded
<1>5. CASE Rollback
  BY <1>1, <1>5, RollbackGuarded
<1>6. CASE UNCHANGED vars
  BY <1>1, <1>6 DEF vars, BootInv, DiskInv, StepInv, GuardInv, Managed, Released
<1> QED
  BY <1>2, <1>3, <1>4, <1>5, <1>6 DEF Next

LEMMA BootInit == Init => BootInv
BY TypeInit DEF Init, BootInv, DiskInv, StepInv, GuardInv, Managed, Running, Gated, Publishing, Undoing

LEMMA Guarded == BootInv => NetworkGuarded
BY DEF BootInv, GuardInv, Managed, Released, NetworkGuarded

\* Between the guard of the initramfs and the committed ruleset no order of
\* boots, failures, deaths, restarts and commands leaves a managed boot
\* without a table of nftfw, or brings the network up before the deny-all
\* guard is handed off, for any number of producers, boots and faults.
THEOREM NetworkNeverOpen == Spec => []NetworkGuarded
BY BootInit, BootStep, Guarded, PTL DEF Spec
=============================================================================
