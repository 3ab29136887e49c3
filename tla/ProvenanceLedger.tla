--------------------------- MODULE ProvenanceLedger ---------------------------
(***************************************************************************)
(* The monotonic ledger that binds interface names to the id which their   *)
(* connections carry in the conntrack mark (internal/provenance), and the  *)
(* generations that are compiled, tried, published and restored with it    *)
(* (internal/app, internal/reconcile, internal/state; SafeApply has their  *)
(* details).  Marks survive in conntrack when a ruleset is replaced, so an *)
(* id must mean one interface under every ruleset that ever comes into the *)
(* kernel, older ones brought back included.                               *)
(*                                                                         *)
(* An assignment is a pair <<name, id>>.  Whatever compiles or decides a   *)
(* generation holds the mutation lock; pc is its next step.                *)
(***************************************************************************)
EXTENDS Integers, FiniteSets

CONSTANTS Names,       \* provenance identities of interfaces
          Ids,         \* the ids 1 .. 254
          MaxActive,   \* MaxActive: the most assignments of one configuration
          MaxGen,      \* bound: generations are numbered 1 .. MaxGen
          MaxFaults    \* bound: failed calls, deaths and reboots

ASSUME LedgerAssumption ==
    /\ IsFiniteSet(Names) /\ IsFiniteSet(Ids)
    /\ MaxActive \in Nat /\ MaxGen \in Nat \ {0} /\ MaxFaults \in Nat

VARIABLES
    file,          \* provenance-ledger.db: "absent", "empty", "ready"
    alloc,         \* its assignments
    retired,       \* the names among them that are retired
    lock,          \* who holds the mutation lock
    pc, active, gen,  \* a transaction of the daemon: its next step, the
                   \*   configured assignments and the generation it is about
    snapshot,      \* the assignments in each generation's immutable files
    debris,        \* a temporary file of a dead writer stands among them
    row,           \* the status of each generation
    pointer,       \* the enforcement pointer
    kernel,        \* the generation whose ruleset is in the kernel
    meanings,      \* history: every assignment that was ever in the kernel
    faults         \* failures that may still happen

ledger == <<file, alloc, retired>>
session == <<lock, pc, active, gen>>
generations == <<snapshot, debris, row, pointer, kernel, meanings>>
ledgerVars == <<ledger, session, generations, faults>>

Pairs == Names \X Ids
Gens == 1 .. MaxGen
None == 0
NoFile == {}         \* no snapshot: a compiled generation has assignments

NamesOf(assignments) == {p[1] : p \in assignments}

Statuses == {"none", "pending", "applied", "commit_prepared", "committed", "rolled_back"}
InFlight == {"pending", "applied", "commit_prepared"}

Fault == faults > 0 /\ faults' = faults - 1

\* A step fails for a reason that the code sees (not ok) or because a call did.
Fails(ok) == (ok => faults > 0) /\ faults' = IF ok THEN faults - 1 ELSE faults

\* The transaction ends and the lock is released.
Return == lock' = "free" /\ pc' = "free" /\ active' = {} /\ gen' = None

Goto(l) == pc' = l /\ UNCHANGED <<lock, active, gen>>

-----------------------------------------------------------------------------
(* The ledger. *)

\* Different names have different ids and the other way round.
OneToOne(assignments) == \A p, q \in assignments : p[1] = q[1] <=> p[2] = q[2]

\* What a configuration may say without looking at the ledger.
ValidateActive(assignments) ==
    /\ assignments # {} /\ Cardinality(assignments) <= MaxActive
    /\ OneToOne(assignments)

\* Every mapping that a generation refers to is in the ledger; it may be retired.
ValidateRequired(assignments) == file = "ready" /\ assignments \subseteq alloc

\* A name that is known keeps its id and must not be retired; a new one needs an
\* id that nobody has ever had.
Reservable(assignments) ==
    \A p \in assignments :
        IF p[1] \in NamesOf(alloc)
        THEN p \in alloc /\ p[1] \notin retired
        ELSE \A q \in alloc : q[2] # p[2]

\* Mutant: names that were never assigned are retired as well.
RecordUnknown(assignments) ==
    /\ alloc' = alloc \cup assignments
    /\ retired' = retired \cup (Names \ NamesOf(assignments))
    /\ UNCHANGED file

\* One transaction: the new assignments, and a tombstone for every name that
\* the configuration does not have any more.
Record(assignments) ==
    /\ alloc' = alloc \cup assignments
    /\ retired' = retired \cup (NamesOf(alloc) \ NamesOf(assignments))
    /\ UNCHANGED file

\* Open: the file is created, then given its schema, then synchronised.
CreateLedger ==
    /\ file = "absent" /\ file' = "empty"
    /\ UNCHANGED <<alloc, retired, session, generations, faults>>

InitializeLedger ==
    /\ file = "empty" /\ file' = "ready"
    /\ UNCHANGED <<alloc, retired, session, generations, faults>>

\* A saved ledger: any file that OpenReadOnly accepts.
Saved == [alloc : {s \in SUBSET Pairs : OneToOne(s)}, retired : SUBSET Names]

\* It must not change a mapping, reuse an id, retire what is active or lack it.
Mergeable(saved) ==
    /\ \A p \in saved.alloc :
          IF p[1] \in NamesOf(alloc)
          THEN p \in alloc /\ (p[1] \in saved.retired => p[1] \in retired)
          ELSE \A q \in alloc : q[2] # p[2]
    /\ NamesOf(alloc) \ retired \subseteq NamesOf(saved.alloc)

\* MergeFrom: only missing rows are added, retired or not as they were saved.
\* No command calls it; it is the restoration docs/RECOVERY.md speaks of.
MergeFrom(saved) ==
    /\ lock = "free" /\ file = "ready"
    /\ saved.retired \subseteq NamesOf(saved.alloc)
    /\ Mergeable(saved)
    /\ alloc' = alloc \cup saved.alloc
    /\ retired' = retired \cup (saved.retired \ NamesOf(alloc))
    /\ UNCHANGED <<file, session, generations, faults>>

-----------------------------------------------------------------------------
(* Compilation: plan and apply.  Both reserve before they compile. *)

\* The configuration file is read under the lock; config.Load validates it.
StartCompile(assignments, command) ==
    /\ lock = "free" /\ file = "ready"
    /\ lock' = command /\ pc' = "audit" /\ active' = assignments /\ gen' = None
    /\ UNCHANGED <<ledger, generations, faults>>

\* The foreign rules must leave the mark alone; the audit row must be written.
AuditForeign ==
    /\ pc = "audit"
    /\ \/ Goto("reserve") /\ UNCHANGED faults
       \/ Return /\ Fault
    /\ UNCHANGED <<ledger, generations>>

\* Mutant: the id of a retired name may be given to another one.
ReserveReusing ==
    /\ pc = "reserve"
    /\ \/ /\ ValidateActive(active)
          /\ \A p \in active : \A q \in alloc : q[1] \notin retired => (q[1] = p[1] <=> q[2] = p[2])
          /\ Record(active) /\ Goto("compile") /\ UNCHANGED faults
       \/ Return /\ UNCHANGED <<ledger, faults>>
    /\ UNCHANGED generations

\* Mutant: an error of the ledger is not looked at.
ReserveIgnored ==
    /\ pc = "reserve"
    /\ IF ValidateActive(active) /\ Reservable(active) THEN Record(active) ELSE UNCHANGED ledger
    /\ Goto("compile")
    /\ UNCHANGED <<generations, faults>>

\* Reserve can report an error although the reservation is in the file: the
\* commit's answer or the synchronisation failed.
Reserve ==
    /\ pc = "reserve"
    /\ \/ /\ ValidateActive(active) /\ Reservable(active)
          /\ \/ Record(active) /\ Goto("compile") /\ UNCHANGED faults
             \/ (Record(active) \/ UNCHANGED ledger) /\ Return /\ Fault
       \/ /\ ~(ValidateActive(active) /\ Reservable(active))
          /\ Return /\ UNCHANGED <<ledger, faults>>
    /\ UNCHANGED generations

\* NextGeneration: one more than the largest number that has a row.
NextGeneration(g) == g \in Gens /\ \A h \in Gens : row[h] # "none" <=> h < g

\* The inventory of the ledger is written to the audit log, and the policy, the
\* claims and the endpoints are compiled.  A plan ends here.
Compile ==
    /\ pc = "compile"
    /\ \/ /\ lock = "apply"
          /\ \E g \in Gens : NextGeneration(g) /\ gen' = g
          /\ pc' = "files" /\ UNCHANGED <<lock, active, faults>>
       \/ lock = "plan" /\ Return /\ UNCHANGED faults
       \/ lock = "apply" /\ row[MaxGen] # "none" /\ Return /\ UNCHANGED faults
       \/ Return /\ Fault
    /\ UNCHANGED <<ledger, generations>>

-----------------------------------------------------------------------------
(* Manager.Apply. *)

\* No generation may be in flight.  A file of that number that was left by a
\* dead apply is accepted only with the same content.
WriteFiles ==
    /\ pc = "files"
    /\ \/ /\ \A g \in Gens : row[g] \notin InFlight
          /\ snapshot[gen] \in {NoFile, active}
          /\ snapshot' = [snapshot EXCEPT ![gen] = active]
          /\ \/ Goto("row") /\ UNCHANGED faults
             \/ Return /\ Fault
       \/ /\ \/ \E g \in Gens : row[g] \in InFlight
             \/ snapshot[gen] \notin {NoFile, active}
          /\ Return /\ UNCHANGED <<snapshot, faults>>
    /\ UNCHANGED <<ledger, debris, row, pointer, kernel, meanings>>

\* The transaction's own row.
SetRow(status) == row' = [row EXCEPT ![gen] = status]

InsertRow ==
    /\ pc = "row"
    /\ \/ SetRow("pending") /\ Goto("install") /\ UNCHANGED faults
       \/ UNCHANGED row /\ Return /\ Fault
    /\ UNCHANGED <<ledger, snapshot, debris, pointer, kernel, meanings>>

\* The ruleset of g, or none, is put into the kernel.
Install(g) ==
    /\ kernel' = g
    /\ meanings' = meanings \cup (IF g = None THEN {} ELSE snapshot[g])

\* The candidate is applied and marked so, or the apply fails with or without
\* having had its effect and the predecessor is restored.
InstallCandidate ==
    /\ pc = "install"
    /\ \/ Install(gen) /\ SetRow("applied") /\ Return /\ UNCHANGED faults
       \/ (Install(gen) \/ UNCHANGED <<kernel, meanings>>) /\ UNCHANGED row
          /\ Goto("restore") /\ Fault
    /\ UNCHANGED <<ledger, snapshot, debris, pointer>>

-----------------------------------------------------------------------------
(* Commit, rollback and restoration. *)

\* The candidate of the operator's commit.
StartCommit(g) ==
    /\ lock = "free" /\ row[g] = "applied" /\ kernel = g
    /\ lock' = "commit" /\ pc' = "prepare" /\ gen' = g /\ UNCHANGED active
    /\ UNCHANGED <<ledger, generations, faults>>

PrepareCommit ==
    /\ pc = "prepare"
    /\ \/ SetRow("commit_prepared") /\ Goto("publish") /\ UNCHANGED faults
       \/ UNCHANGED row /\ Return /\ Fault
    /\ UNCHANGED <<ledger, snapshot, debris, pointer, kernel, meanings>>

\* The pointer is written only if the snapshot's assignments are in the ledger.
PublishPointer ==
    /\ pc = "publish"
    /\ \/ /\ ValidateRequired(snapshot[gen])
          /\ pointer' = gen
          /\ \/ Goto("finalize") /\ UNCHANGED faults
             \/ Return /\ Fault
       \/ UNCHANGED pointer /\ Return /\ Fails(ValidateRequired(snapshot[gen]))
    /\ UNCHANGED <<ledger, snapshot, debris, row, kernel, meanings>>

FinalizeCommit ==
    /\ pc = "finalize"
    /\ \/ SetRow("committed") /\ Return /\ UNCHANGED faults
       \/ UNCHANGED row /\ Return /\ Fault
    /\ UNCHANGED <<ledger, snapshot, debris, pointer, kernel, meanings>>

\* The operator, the deadline or a boot gives the candidate up; one whose
\* pointer is published is committed instead.
StartRollback(g) ==
    /\ lock = "free" /\ row[g] \in InFlight
    /\ lock' = "rollback" /\ gen' = g /\ UNCHANGED active
    /\ pc' = IF pointer = g THEN "finalize" ELSE "restore"
    /\ UNCHANGED <<ledger, generations, faults>>

\* The published generation, if its snapshot verifies; without one, nothing.
Verified == pointer # None => ValidateRequired(snapshot[pointer])

\* Without a verified predecessor the kernel gets the emergency deny rules,
\* which mark no connection.
Restore ==
    /\ pc = "restore"
    /\ \/ Verified /\ Install(pointer) /\ SetRow("rolled_back") /\ Return /\ UNCHANGED faults
       \/ Verified /\ Install(pointer) /\ UNCHANGED row /\ Return /\ Fault
       \/ Install(None) /\ UNCHANGED row /\ Return /\ Fails(Verified)
    /\ UNCHANGED <<ledger, snapshot, debris, pointer>>

\* Reconcile and boot recovery bring the published generation back.
Reconcile ==
    /\ lock = "free" /\ pointer # None /\ kernel # pointer
    /\ \A g \in Gens : row[g] \notin InFlight
    /\ Install(IF Verified THEN pointer ELSE None)
    /\ UNCHANGED <<ledger, session, snapshot, debris, row, pointer, faults>>

-----------------------------------------------------------------------------
\* The daemon dies: its transaction stops where it is, the kernel releases the
\* lock.  A writer of an immutable file leaves its temporary file behind.
Die ==
    /\ pc # "free"
    /\ Return /\ Fault
    /\ debris' \in {debris, debris \/ pc = "files"}
    /\ UNCHANGED <<ledger, snapshot, row, pointer, kernel, meanings>>

\* The kernel forgets the tables; the history remembers all the same.
Reboot ==
    /\ kernel' = None /\ Return /\ Fault
    /\ UNCHANGED <<ledger, snapshot, debris, row, pointer, meanings>>

LedgerInit ==
    /\ file = "absent" /\ alloc = {} /\ retired = {}
    /\ lock = "free" /\ pc = "free" /\ active = {} /\ gen = None
    /\ snapshot = [g \in Gens |-> NoFile] /\ debris = FALSE
    /\ row = [g \in Gens |-> "none"] /\ pointer = None
    /\ kernel = None /\ meanings = {}
    /\ faults = MaxFaults

LedgerNext ==
    \/ CreateLedger \/ InitializeLedger
    \/ \E saved \in Saved : MergeFrom(saved)
    \/ \E a \in SUBSET Pairs, c \in {"plan", "apply"} : StartCompile(a, c)
    \/ AuditForeign \/ Reserve \/ Compile \/ WriteFiles \/ InsertRow \/ InstallCandidate
    \/ \E g \in Gens : StartCommit(g) \/ StartRollback(g)
    \/ PrepareCommit \/ PublishPointer \/ FinalizeCommit \/ Restore \/ Reconcile
    \/ Die

-----------------------------------------------------------------------------
(* Properties. *)

LedgerTypeOK ==
    /\ file \in {"absent", "empty", "ready"}
    /\ alloc \in SUBSET Pairs /\ retired \in SUBSET NamesOf(alloc)
    /\ pc \in {"free", "audit", "reserve", "compile", "files", "row", "install", "prepare",
               "publish", "finalize", "restore"}
    /\ active \in SUBSET Pairs /\ gen \in Gens \cup {None}
    /\ snapshot \in [Gens -> SUBSET Pairs] /\ debris \in BOOLEAN
    /\ row \in [Gens -> Statuses] /\ pointer \in Gens \cup {None}
    /\ kernel \in Gens \cup {None} /\ meanings \in SUBSET Pairs
    /\ faults \in Nat

\* A mark that survives in conntrack has one interpretation: whatever was ever
\* in the kernel, candidates that were given up and older generations that came
\* back included, agrees on which interface an id stands for.
OneMeaning == OneToOne(meanings)

\* Every generation that a commit, a rollback or a boot can still fall back on
\* has its assignments in the ledger, so its restoration is never refused.
RestorableVerifies ==
    \A g \in Gens : g = pointer \/ row[g] \in InFlight => ValidateRequired(snapshot[g])

=============================================================================
