---------------------------- MODULE OperatorState ----------------------------
(***************************************************************************)
(* The durable state an operator keeps, restores and moves: the ledger and *)
(* the generations, the bundles made of them, and the database taken over  *)
(* from an older release.  The commands and the daemon meet in the         *)
(* mutation lock, in the files, and in the reboot that ends all of them.   *)
(***************************************************************************)
EXTENDS OperatorBackup

CONSTANTS BackupNames, MaxWrites

ASSUME MigrationAssumption == MaxWrites \in Nat

VARIABLES db, dest, source, sidecar, seen, old, mpc, name, digest, buffer, work

Migration == INSTANCE OfflineMigration

kept == <<db, dest, source, sidecar, seen, old, name>>
migration == <<kept, mpc, digest, buffer, work>>
vars == <<ledgerVars, backupVars, migration>>

Init == LedgerInit /\ BackupInit /\ Migration!MigrationInit

\* The daemon compiles and decides generations only with an open database.
\* Bound: a host that has only just got its database is not followed further;
\* what happens there is what happens on a host that has always had one.
DaemonStep == db = "native" /\ LedgerNext /\ UNCHANGED <<backupVars, migration>>

BackupStep == db = "native" /\ BackupNext /\ UNCHANGED migration

MigrationStep ==
    /\ Migration!MigrationNext
    /\ UNCHANGED <<ledger, pc, active, gen, generations, backupVars>>

\* A reboot ends whatever runs.
RebootHost ==
    /\ Reboot
    /\ bpc' = "idle" /\ copy' = NoCopy /\ UNCHANGED <<bundle, to>>
    /\ mpc' = "idle" /\ digest' = Migration!Unread /\ buffer' = Migration!Unread
    /\ work' = Migration!NoWork
    /\ UNCHANGED kept

Next == DaemonStep \/ BackupStep \/ MigrationStep \/ RebootHost

Spec == Init /\ [][Next]_vars

TypeOK == LedgerTypeOK /\ BackupTypeOK /\ Migration!MigrationTypeOK

\* OfflineMigration's promise about the database of this host.
MigratedExact == Migration!MigratedExact

=============================================================================
