--------------------------- MODULE OfflineMigration ---------------------------
(***************************************************************************)
(* nftfw state migrate (internal/state/offline_migration.go): the database *)
(* of an older release is copied to a backup, the backup is migrated in a  *)
(* work file, and the work file is linked as the database of this host.    *)
(* The mutation lock keeps this release's processes out; a process of the  *)
(* older release may still have the source open and write it.              *)
(*                                                                         *)
(* The source has two pages, which a checkpoint writes and a reader reads  *)
(* one after the other; a file's digest tells the same as its pages.       *)
(***************************************************************************)
EXTENDS Integers

CONSTANTS BackupNames,   \* the names operators give to the backup
          MaxWrites      \* bound: checkpoints of the source

VARIABLES
    lock,                \* who holds the mutation lock
    pointer,             \* the enforcement pointer, 0 if there is none
    faults,              \* failures that may still happen
    db,                  \* this host's database: "absent", "opened", "migrated",
                         \*   or "native" if it has always had one
    dest,                \* the file that was linked as a migrated one
    source, sidecar,     \* the old database, and its WAL while it is open
    seen,                \* history: what the source has ever held
    old,                 \* the backups
    mpc, name,           \* the command: next step, the backup it writes,
    digest, buffer, work \*   the source's first digest, its copy, the work file

shared == <<lock, pointer, faults>>
host == <<db, dest>>
legacy == <<source, sidecar, seen>>
memory == <<name, digest, buffer, work>>

Contents == (0 .. MaxWrites) \X (0 .. MaxWrites)
Unread == <<-1, -1>>
NoWork == [pages |-> Unread, schema |-> "none", synced |-> FALSE]

Fault == faults > 0 /\ faults' = faults - 1

\* A checkpoint that is half done.
Torn(pages) == pages[1] # pages[2]

\* The command returns: the work file is removed, the lock released.
Leave ==
    /\ mpc' = "idle" /\ lock' = "free"
    /\ digest' = Unread /\ buffer' = Unread /\ work' = NoWork /\ UNCHANGED name

Proceed(l) == mpc' = l /\ UNCHANGED lock

\* A step that only decides whether to go on, for a reason that the code sees
\* (ok) or because a call failed.
Decides(from, ok, l) ==
    /\ mpc = from
    /\ \/ ok /\ Proceed(l) /\ UNCHANGED <<memory, faults>>
       \/ ~ok /\ Leave /\ UNCHANGED faults
       \/ Leave /\ Fault
    /\ UNCHANGED <<pointer, host, legacy, old>>

\* The command waits for the mutation lock before it looks at anything.
StartMigration(n) ==
    /\ mpc = "idle" /\ lock = "free"
    /\ lock' = "migrate" /\ mpc' = "paths" /\ name' = n
    /\ UNCHANGED <<pointer, faults, host, legacy, old, digest, buffer, work>>

\* No sidecar of the source, new names for backup and destination, and no
\* enforcement pointer beside the destination.
CheckPaths ==
    Decides("paths", ~sidecar /\ old[name] = Unread /\ db = "absent" /\ pointer = 0, "hash_1")

\* The source is read page by page.
ReadPage(from, page, target, l) ==
    /\ mpc = from
    /\ target' = [target EXCEPT ![page] = source[page]]
    /\ Proceed(l)
    /\ UNCHANGED <<pointer, faults, host, legacy, old, name, work>>

HashSource ==
    \/ ReadPage("hash_1", 1, digest, "hash_2") /\ UNCHANGED buffer
    \/ ReadPage("hash_2", 2, digest, "inspect") /\ UNCHANGED buffer

\* inspectLegacyDatabase: schema, integrity, foreign keys and objects.  What
\* these checks say of half a checkpoint is anybody's guess.
Sound(pages) == IF Torn(pages) THEN BOOLEAN ELSE {TRUE}

InspectSource == \E ok \in Sound(source) : Decides("inspect", ok, "copy_1")

\* copyRegularFileExclusive: copied, synchronised, read again and compared.
CopySource ==
    \/ ReadPage("copy_1", 1, buffer, "copy_2") /\ UNCHANGED digest
    \/ ReadPage("copy_2", 2, buffer, "again_1") /\ UNCHANGED digest

ReadAgain ==
    \/ Decides("again_1", source[1] = buffer[1], "again_2")
    \/ Decides("again_2", source[2] = buffer[2], "link")

\* The backup appears complete; an error may follow.
LinkBackup ==
    /\ mpc = "link"
    /\ \/ /\ old' = [old EXCEPT ![name] = buffer]
          /\ \/ Proceed("compare") /\ UNCHANGED <<memory, faults>>
             \/ Leave /\ Fault
       \/ UNCHANGED old /\ Leave /\ Fault
    /\ UNCHANGED <<pointer, host, legacy>>

\* The backup has the digest of the source and passes the same checks.
CheckBackup == \E ok \in Sound(buffer) : Decides("compare", buffer = digest /\ ok, "work")

\* Mutant: the work file has the destination's name from the beginning.
CreateWorkInPlace ==
    /\ mpc = "work"
    /\ work' = [pages |-> old[name], schema |-> "legacy", synced |-> TRUE]
    /\ db' = "migrated" /\ dest' = work'
    /\ Proceed("migrate")
    /\ UNCHANGED <<pointer, faults, legacy, old, name, digest, buffer>>

\* The work file is a copy of the backup.
CreateWork ==
    /\ mpc = "work"
    /\ \/ /\ work' = [pages |-> old[name], schema |-> "legacy", synced |-> TRUE]
          /\ Proceed("migrate") /\ UNCHANGED <<name, digest, buffer, faults>>
       \/ Leave /\ Fault
    /\ UNCHANGED <<pointer, host, legacy, old>>

\* Constraints probed, migrated, probed again, checkpointed, synchronised, and
\* opened once more to verify it.
MigrateWork ==
    /\ mpc = "migrate"
    /\ \/ /\ work' = [work EXCEPT !.schema = "current"]
          /\ Proceed("final_1") /\ UNCHANGED <<name, digest, buffer, faults>>
       \/ Leave /\ Fault
    /\ UNCHANGED <<pointer, host, legacy, old>>

\* The source still has its first digest and no sidecar.
CheckUnchanged ==
    \/ Decides("final_1", source[1] = digest[1], "final_2")
    \/ Decides("final_2", source[2] = digest[2], "sidecar")
    \/ Decides("sidecar", ~sidecar, "publish")

\* A link, which never replaces a file that has appeared; the synchronisation
\* of the directory can still fail.
PublishWork ==
    /\ mpc = "publish"
    /\ \/ /\ db = "absent" /\ db' = "migrated" /\ dest' = work
          /\ (UNCHANGED faults \/ Fault)
       \/ db # "absent" /\ UNCHANGED <<host, faults>>
       \/ UNCHANGED host /\ Fault
    /\ Leave
    /\ UNCHANGED <<pointer, legacy, old>>

\* The command dies; the kernel releases the lock.
DieMigration ==
    /\ mpc # "idle"
    /\ Leave /\ Fault
    /\ UNCHANGED <<pointer, host, legacy, old>>

-----------------------------------------------------------------------------
(* Other processes. *)

\* The older release opens its database, checkpoints page by page, closes it.
\* Bound: only on a host to which it can be migrated.
WriteSource ==
    /\ db # "native"
    /\ \/ ~sidecar /\ source[1] < MaxWrites /\ sidecar' = TRUE /\ UNCHANGED source
       \/ /\ sidecar /\ ~Torn(source) /\ source[1] < MaxWrites
          /\ source' = [source EXCEPT ![1] = @ + 1] /\ UNCHANGED sidecar
       \/ /\ sidecar /\ Torn(source)
          /\ source' = [source EXCEPT ![2] = source[1]] /\ UNCHANGED sidecar
       \/ sidecar /\ ~Torn(source) /\ sidecar' = FALSE /\ UNCHANGED source
    /\ seen' = seen \cup {source'}
    /\ UNCHANGED <<shared, host, old, mpc, memory>>

\* store.Open of the daemon or a command creates the database, lock or not.
OpenState ==
    /\ db = "absent"
    /\ db' = "opened"
    /\ UNCHANGED <<shared, dest, legacy, old, mpc, memory>>

MigrationInit ==
    /\ db \in {"absent", "native"} /\ dest = NoWork
    /\ source = <<0, 0>> /\ sidecar = FALSE /\ seen = {source}
    /\ old = [n \in BackupNames |-> Unread]
    /\ mpc = "idle" /\ name \in BackupNames
    /\ digest = Unread /\ buffer = Unread /\ work = NoWork

MigrationNext ==
    \/ \E n \in BackupNames : StartMigration(n)
    \/ CheckPaths \/ HashSource \/ InspectSource \/ CopySource \/ ReadAgain
    \/ LinkBackup \/ CheckBackup \/ CreateWork \/ MigrateWork \/ CheckUnchanged \/ PublishWork
    \/ DieMigration \/ WriteSource \/ OpenState

-----------------------------------------------------------------------------
(* Properties. *)

MigrationTypeOK ==
    /\ db \in {"absent", "opened", "migrated", "native"}
    /\ source \in Contents /\ sidecar \in BOOLEAN /\ seen \in SUBSET Contents
    /\ old \in [BackupNames -> Contents \cup {Unread}]
    /\ name \in BackupNames
    /\ mpc \in {"idle", "paths", "hash_1", "hash_2", "inspect", "copy_1", "copy_2",
                "again_1", "again_2", "link", "compare", "work", "migrate", "final_1", "final_2",
                "sidecar", "publish"}

\* Whatever the older release writes meanwhile and wherever the command dies, a
\* migrated database is a finished migration (MigrateOffline) of bytes that the
\* source held at one moment, all of them, and that a backup preserves.  The
\* moment may be the middle of a checkpoint of the older release, if what was
\* there passes SQLite's checks.
MigratedExact ==
    db = "migrated" =>
        /\ dest.schema = "current" /\ dest.pages \in seen
        /\ \E n \in BackupNames : old[n] = dest.pages

=============================================================================
