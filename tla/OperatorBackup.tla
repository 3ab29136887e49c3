---------------------------- MODULE OperatorBackup ----------------------------
(***************************************************************************)
(* nftfw backup create (internal/operatorbackup): the managed files, the   *)
(* enforcement pointer, the generation files, the database and the ledger  *)
(* are copied one after the other into a temporary directory, which is     *)
(* verified and renamed.  The setup lock keeps other backups and managed   *)
(* changes out, the mutation lock everything that decides a generation.    *)
(***************************************************************************)
EXTENDS ProvenanceLedger

CONSTANTS Destinations,  \* directories a bundle can be asked for
          MaxFiles       \* how many generations' files fit under maxFiles

ASSUME BackupAssumption == MaxFiles \in Nat

VARIABLES bundle,        \* what stands at each destination
          bpc, to, copy  \* the command: next step, destination, its copies

backup == <<bpc, to, copy>>
backupVars == <<bundle, backup>>

\* The parts of a bundle on which its restoration depends.  (Configuration,
\* intent, profile and drop-ins are copied whatever they say.)
Copies == [pointer : Gens \cup {None}, files : SUBSET Gens,
           row : [Gens -> Statuses], alloc : SUBSET Pairs]

NoCopy == [pointer |-> None, files |-> {}, row |-> [g \in Gens |-> "none"], alloc |-> {}]
NoBundle == [NoCopy EXCEPT !.pointer = -1]

\* Files of generations, some of them of generations that have no row.
Artifacts == {g \in Gens : snapshot[g] # NoFile}

Continue(l) == bpc' = l /\ UNCHANGED <<lock, to>>

\* The deferred calls: the lock is released and the temporary directory removed.
EndBackup ==
    /\ lock' = IF lock = "backup" THEN "free" ELSE lock
    /\ bpc' = "idle" /\ copy' = NoCopy /\ UNCHANGED to

\* The destination must be new; the temporary directory is made beside it.
StartBackup(d) ==
    /\ bpc = "idle" /\ bundle[d] = NoBundle
    /\ bpc' = "lock" /\ to' = d
    /\ UNCHANGED <<ledgerVars, bundle, copy>>

\* Mutant: the copies are made without the mutation lock.
LockBackupNot ==
    /\ bpc = "lock"
    /\ bpc' = "pointer"
    /\ UNCHANGED <<ledgerVars, bundle, to, copy>>

LockBackup ==
    /\ bpc = "lock"
    /\ \/ lock = "free" /\ lock' = "backup" /\ bpc' = "pointer" /\ UNCHANGED <<to, copy, faults>>
       \/ EndBackup /\ Fault
    /\ UNCHANGED <<ledger, pc, active, gen, generations, bundle>>

\* One copy of the command: it succeeds and the command goes on, or it fails.
Copied(from, l, field, value) ==
    /\ bpc = from
    /\ \/ Continue(l) /\ copy' = [copy EXCEPT ![field] = value] /\ UNCHANGED faults
       \/ EndBackup /\ Fault
    /\ UNCHANGED <<pc, active, gen, generations, bundle>>

\* copyProtected and copyOptional: the managed files, the pointer if there is one.
CopyPointer == Copied("pointer", "files", "pointer", pointer) /\ UNCHANGED ledger

\* Anything but generation files among them, or too many, ends the backup.
CopyFiles ==
    \/ /\ ~debris /\ Cardinality(Artifacts) <= MaxFiles
       /\ Copied("files", "state", "files", Artifacts) /\ UNCHANGED ledger
    \/ /\ bpc = "files" /\ (debris \/ Cardinality(Artifacts) > MaxFiles)
       /\ EndBackup
       /\ UNCHANGED <<ledger, pc, active, gen, generations, bundle, faults>>

\* Store.Backup: VACUUM INTO, synchronised and renamed.
CopyState == Copied("state", "ledger", "row", row) /\ UNCHANGED ledger

\* Ledger.Backup: opened, created if it was absent, copied, compared.
CopyLedger ==
    /\ Copied("ledger", "verify", "alloc", alloc)
    /\ file' = "ready" \/ (bpc' = "idle" /\ UNCHANGED file)
    /\ UNCHANGED <<alloc, retired>>

\* The manifest is written and the directory verified: every file against the
\* manifest, database and ledger opened.
VerifyBundle ==
    /\ bpc = "verify"
    /\ \/ Continue("rename") /\ UNCHANGED <<copy, faults>>
       \/ EndBackup /\ Fault
    /\ UNCHANGED <<ledger, pc, active, gen, generations, bundle>>

\* The bundle appears as a whole.
PublishBundle ==
    /\ bpc = "rename"
    /\ \/ bundle' = [bundle EXCEPT ![to] = copy] /\ Continue("sync") /\ UNCHANGED <<copy, faults>>
       \/ UNCHANGED bundle /\ EndBackup /\ Fault
    /\ UNCHANGED <<ledger, pc, active, gen, generations>>

\* A failed synchronisation is reported although the bundle is in place.
SyncBundle ==
    /\ bpc = "sync"
    /\ EndBackup
    /\ (UNCHANGED faults \/ Fault)
    /\ UNCHANGED <<ledger, pc, active, gen, generations, bundle>>

\* The command dies; its temporary directory stays beside the destination.
DieBackup ==
    /\ bpc # "idle"
    /\ EndBackup /\ Fault
    /\ UNCHANGED <<ledger, pc, active, gen, generations, bundle>>

BackupInit ==
    /\ bundle = [d \in Destinations |-> NoBundle]
    /\ bpc = "idle" /\ to \in Destinations /\ copy = NoCopy

BackupNext ==
    \/ \E d \in Destinations : StartBackup(d)
    \/ LockBackup \/ CopyPointer \/ CopyFiles \/ CopyState \/ CopyLedger
    \/ VerifyBundle \/ PublishBundle \/ SyncBundle \/ DieBackup

-----------------------------------------------------------------------------
(* Properties. *)

BackupTypeOK ==
    /\ bundle \in [Destinations -> Copies \cup {NoBundle}]
    /\ bpc \in {"idle", "lock", "pointer", "files", "state", "ledger", "verify", "rename", "sync"}
    /\ to \in Destinations /\ copy \in Copies

\* The largest committed number, or none.
LastCommitted(rows) ==
    LET committed == {g \in Gens : rows[g] = "committed"}
    IN  IF committed = {} THEN None ELSE CHOOSE g \in committed : \A h \in committed : h <= g

\* A bundle is one state of the host although it is copied in pieces while the
\* daemon runs and dies: its pointer is what boot recovery expects with its rows,
\* and the files and the assignments of the pointer's generation are in it.
BundleRestorable ==
    \A d \in Destinations :
        LET b == bundle[d]
        IN  b # NoBundle =>
              /\ \/ b.pointer = LastCommitted(b.row)
                 \/ b.pointer # None /\ b.row[b.pointer] = "commit_prepared"
              /\ b.pointer # None => b.pointer \in b.files /\ snapshot[b.pointer] \subseteq b.alloc

=============================================================================
