------------------------- MODULE OperatorStateProofs -------------------------
(***************************************************************************)
(* The ledger, the bundles and the offline migration for any number of     *)
(* names, ids, generations, backups and failures.                          *)
(***************************************************************************)
EXTENDS OperatorState, TLAPS

\* The steps of a compilation whose assignments have been reserved.
Reserved == {"compile", "files", "row", "install"}

\* The ledger only grows, and everything that was ever compiled or installed
\* is in it.  Before it exists there is nothing to compile with.
LedgerInv ==
    /\ alloc \in SUBSET Pairs
    /\ OneToOne(alloc)
    /\ snapshot \in [Gens -> SUBSET alloc]
    /\ row \in [Gens -> Statuses]
    /\ gen \in Gens \cup {None} /\ pointer \in Gens \cup {None}
    /\ active \in SUBSET Pairs /\ (pc \in Reserved => active \subseteq alloc)
    /\ meanings \subseteq alloc
    /\ file # "ready" => pc = "free" /\ pointer = None /\ \A g \in Gens : row[g] = "none"

-----------------------------------------------------------------------------
(* Reservations and merges. *)

\* A union stays one-to-one if what is new conflicts with nothing.
LEMMA UnionOneToOne ==
    ASSUME NEW a, NEW b, OneToOne(a), OneToOne(b),
           \A p \in b : p \in a \/ \A q \in a : q[1] # p[1] /\ q[2] # p[2]
    PROVE  OneToOne(a \cup b)
  BY DEF OneToOne

\* A plan or an apply begins.
StartCompilation == \E a \in SUBSET Pairs, c \in {"plan", "apply"} : StartCompile(a, c)

\* What Reserve lets through can be added.
LEMMA ReservableAdds ==
    ASSUME NEW s, OneToOne(alloc), OneToOne(s), Reservable(s)
    PROVE  OneToOne(alloc \cup s)
  <1>1. \A p \in s : p \in alloc \/ \A q \in alloc : q[1] # p[1] /\ q[2] # p[2]
    BY DEF Reservable, NamesOf
  <1> QED BY <1>1, UnionOneToOne

\* So can what MergeFrom lets through.
LEMMA MergeableAdds ==
    ASSUME NEW saved, OneToOne(alloc), OneToOne(saved.alloc), Mergeable(saved)
    PROVE  OneToOne(alloc \cup saved.alloc)
  <1>1. \A p \in saved.alloc : p \in alloc \/ \A q \in alloc : q[1] # p[1] /\ q[2] # p[2]
    BY DEF Mergeable, NamesOf
  <1> QED BY <1>1, UnionOneToOne

-----------------------------------------------------------------------------
(* The steps of the daemon. *)

LEMMA LedgerInitial == ASSUME Init PROVE LedgerInv
  BY DEF Init, LedgerInit, LedgerInv, OneToOne, Reserved, NoFile, Statuses

LEMMA LedgerFrame ==
    ASSUME LedgerInv, UNCHANGED <<alloc, snapshot, row, pc, active, gen, meanings, pointer>>,
           file' = file \/ file' = "ready"
    PROVE  LedgerInv'
  BY DEF LedgerInv, OneToOne, Reserved

\* A step that does not touch the ledger or the files.
LEMMA LedgerQuiet ==
    ASSUME LedgerInv, UNCHANGED <<file, alloc, snapshot>>, meanings' \subseteq alloc,
           row' \in [Gens -> Statuses], file = "ready",
           gen' \in Gens \cup {None}, pointer' \in Gens \cup {None},
           active' \in SUBSET Pairs, pc' \in Reserved => active' \subseteq alloc
    PROVE  LedgerInv'
  BY DEF LedgerInv, OneToOne

LEMMA SetRowTyped ==
    ASSUME row \in [Gens -> Statuses], NEW s \in Statuses, SetRow(s)
    PROVE  row' \in [Gens -> Statuses]
  BY DEF SetRow

LEMMA InstallInv ==
    ASSUME LedgerInv, NEW g \in Gens \cup {None}, Install(g)
    PROVE  meanings' \subseteq alloc
  BY DEF Install, LedgerInv, None, Gens

\* A transaction that returns leaves nothing behind that LedgerInv speaks of.
LEMMA ReturnFacts ==
    ASSUME Return
    PROVE  pc' = "free" /\ gen' = None /\ pc' \notin Reserved /\ active' \in SUBSET Pairs
  BY DEF Return, Reserved

\* A transaction runs only with a ledger.
LEMMA RunningReady == ASSUME LedgerInv, pc # "free" PROVE file = "ready"
  BY DEF LedgerInv

LEMMA MergePreserves ==
    ASSUME LedgerInv, NEW saved \in Saved, MergeFrom(saved)
    PROVE  LedgerInv'
  <1>1. OneToOne(alloc \cup saved.alloc)
    BY MergeableAdds DEF LedgerInv, MergeFrom, Saved
  <1>2. alloc' = alloc \cup saved.alloc /\ file = "ready"
    BY DEF MergeFrom
  <1>3. UNCHANGED <<file, snapshot, row, pc, active, gen, meanings, pointer>>
    BY DEF MergeFrom, session, generations
  <1>4. alloc' \in SUBSET Pairs /\ OneToOne(alloc')
    BY <1>1, <1>2 DEF LedgerInv, Saved
  <1>5. snapshot \in [Gens -> SUBSET alloc'] /\ meanings \subseteq alloc'
    BY <1>2 DEF LedgerInv
  <1>6. pc \in Reserved => active \subseteq alloc'
    BY <1>2 DEF LedgerInv
  <1> QED BY <1>2, <1>3, <1>4, <1>5, <1>6 DEF LedgerInv, OneToOne

LEMMA CompilePreserves ==
    ASSUME LedgerInv, StartCompilation \/ AuditForeign \/ Reserve \/ Compile
    PROVE  LedgerInv'
  <1>1. CASE StartCompilation
    <2>1. PICK a \in SUBSET Pairs, c \in {"plan", "apply"} : StartCompile(a, c)
      BY <1>1 DEF StartCompilation
    <2> QED BY <2>1, LedgerQuiet DEF StartCompile, ledger, generations, LedgerInv, Reserved, None
  <1>2. CASE AuditForeign
    BY <1>2, LedgerQuiet, ReturnFacts, RunningReady
       DEF AuditForeign, Goto, ledger, generations, LedgerInv, Reserved
  <1>3. CASE Reserve
    <2>1. UNCHANGED <<snapshot, row, meanings, pointer>> /\ file = "ready"
      BY <1>3, RunningReady DEF Reserve, generations
    <2>2. CASE UNCHANGED ledger /\ Return
      BY <2>1, <2>2, LedgerQuiet, ReturnFacts DEF ledger, LedgerInv
    <2>3. CASE ValidateActive(active) /\ Reservable(active) /\ Record(active)
               /\ (Goto("compile") \/ Return)
      <3>1. alloc' = alloc \cup active /\ file' = file
        BY <2>3 DEF Record
      <3>2. OneToOne(alloc \cup active)
        BY <2>3, ReservableAdds DEF LedgerInv, ValidateActive
      <3>3. active \in SUBSET Pairs
        BY DEF LedgerInv
      <3>4. alloc' \in SUBSET Pairs /\ OneToOne(alloc')
        BY <3>1, <3>2, <3>3 DEF LedgerInv
      <3>5. snapshot' \in [Gens -> SUBSET alloc'] /\ meanings' \subseteq alloc'
        BY <2>1, <3>1 DEF LedgerInv
      <3>6. /\ pc' \in Reserved => active' \subseteq alloc'
            /\ gen' \in Gens \cup {None} /\ active' \in SUBSET Pairs
        BY <2>3, <3>1, ReturnFacts DEF Goto, LedgerInv
      <3> QED BY <2>1, <3>1, <3>4, <3>5, <3>6 DEF LedgerInv, OneToOne
    <2> QED BY <1>3, <2>2, <2>3 DEF Reserve
  <1>4. CASE Compile
    <2>1. UNCHANGED <<file, alloc, snapshot, row, meanings, pointer>> /\ file = "ready"
      BY <1>4, RunningReady DEF Compile, ledger, generations
    <2>2. /\ pc' \in Reserved => active' \subseteq alloc
          /\ gen' \in Gens \cup {None} /\ active' \in SUBSET Pairs
      BY <1>4, ReturnFacts DEF Compile, Reserved, LedgerInv
    <2> QED BY <2>1, <2>2, LedgerQuiet DEF LedgerInv
  <1> QED BY <1>1, <1>2, <1>3, <1>4

LEMMA WritePreserves ==
    ASSUME LedgerInv, WriteFiles \/ InsertRow \/ InstallCandidate
    PROVE  LedgerInv'
  <1>1. file = "ready" /\ active \subseteq alloc
    BY RunningReady DEF WriteFiles, InsertRow, InstallCandidate, Reserved, LedgerInv
  <1>2. CASE WriteFiles
    <2>1. UNCHANGED <<file, alloc, row, meanings, pointer>>
      BY <1>2 DEF WriteFiles, ledger
    <2>2. snapshot' \in [Gens -> SUBSET alloc]
      BY <1>1, <1>2 DEF WriteFiles, LedgerInv
    <2>3. /\ active' \in SUBSET Pairs /\ (pc' \in Reserved => active' \subseteq alloc)
          /\ gen' \in Gens \cup {None}
      BY <1>1, <1>2, ReturnFacts DEF WriteFiles, Goto, LedgerInv
    <2> QED BY <1>1, <2>1, <2>2, <2>3 DEF LedgerInv, OneToOne
  <1>3. CASE InsertRow
    BY <1>1, <1>3, LedgerQuiet, SetRowTyped, ReturnFacts
       DEF InsertRow, Goto, ledger, LedgerInv, Statuses
  <1>4. CASE InstallCandidate
    <2>1. meanings' \subseteq alloc
      BY <1>4, InstallInv DEF InstallCandidate, LedgerInv
    <2>2. row' \in [Gens -> Statuses]
      BY <1>4, SetRowTyped DEF InstallCandidate, LedgerInv, Statuses
    <2> QED BY <1>1, <1>4, <2>1, <2>2, LedgerQuiet, ReturnFacts
            DEF InstallCandidate, Goto, ledger, LedgerInv, Reserved
  <1> QED BY <1>2, <1>3, <1>4

LEMMA DecidePreserves ==
    ASSUME LedgerInv,
           \/ \E g \in Gens : StartCommit(g) \/ StartRollback(g)
           \/ PrepareCommit \/ PublishPointer \/ FinalizeCommit \/ Restore \/ Reconcile
    PROVE  LedgerInv'
  <1>1. CASE \E g \in Gens : StartCommit(g) \/ StartRollback(g)
    <2>1. PICK g \in Gens : StartCommit(g) \/ StartRollback(g)
      BY <1>1
    <2>2. row[g] # "none"
      BY <2>1 DEF StartCommit, StartRollback, InFlight
    <2>3. file = "ready"
      BY <2>2 DEF LedgerInv
    <2>4. pc' \notin Reserved /\ gen' = g /\ active' = active
      BY <2>1 DEF StartCommit, StartRollback, Reserved
    <2> QED BY <2>1, <2>3, <2>4, LedgerQuiet
            DEF StartCommit, StartRollback, ledger, generations, LedgerInv
  <1>2. CASE PrepareCommit \/ FinalizeCommit
    BY <1>2, LedgerQuiet, SetRowTyped, ReturnFacts, RunningReady
       DEF PrepareCommit, FinalizeCommit, Goto, ledger, LedgerInv, Statuses, Reserved
  <1>3. CASE PublishPointer
    BY <1>3, LedgerQuiet, ReturnFacts, RunningReady
       DEF PublishPointer, Goto, ledger, LedgerInv, Reserved
  <1>4. CASE Restore
    <2>1. meanings' \subseteq alloc
      BY <1>4, InstallInv DEF Restore, LedgerInv
    <2>2. row' \in [Gens -> Statuses]
      BY <1>4, SetRowTyped DEF Restore, LedgerInv, Statuses
    <2> QED BY <1>4, <2>1, <2>2, LedgerQuiet, ReturnFacts, RunningReady
            DEF Restore, ledger, LedgerInv
  <1>5. CASE Reconcile
    <2>1. meanings' \subseteq alloc
      BY <1>5, InstallInv DEF Reconcile, LedgerInv
    <2>2. file = "ready"
      BY <1>5 DEF Reconcile, LedgerInv
    <2> QED BY <1>5, <2>1, <2>2, LedgerQuiet DEF Reconcile, ledger, session, LedgerInv
  <1> QED BY <1>1, <1>2, <1>3, <1>4, <1>5

LEMMA DaemonPreserves == ASSUME LedgerInv, LedgerNext PROVE LedgerInv'
  <1>1. CASE CreateLedger \/ InitializeLedger
    BY <1>1, LedgerFrame DEF CreateLedger, InitializeLedger, session, generations, LedgerInv, OneToOne
  <1>2. CASE \E saved \in Saved : MergeFrom(saved)
    BY <1>2, MergePreserves
  <1>3. CASE Die
    BY <1>3, LedgerQuiet, ReturnFacts, RunningReady DEF Die, ledger, LedgerInv
  <1> QED BY <1>1, <1>2, <1>3, CompilePreserves, WritePreserves, DecidePreserves
          DEF LedgerNext, StartCompilation

\* Backups and migrations leave the ledger's assignments and the generations alone.
LEMMA OthersPreserve ==
    ASSUME LedgerInv, BackupStep \/ MigrationStep \/ RebootHost \/ UNCHANGED vars
    PROVE  LedgerInv'
  <1>1. CASE BackupStep
    <2>1. UNCHANGED <<alloc, pc, active, gen, generations>> /\ (file' = file \/ file' = "ready")
      <3>1. CASE \E d \in Destinations : StartBackup(d)
        BY <3>1 DEF StartBackup, ledgerVars, ledger, session, generations
      <3>2. CASE LockBackup \/ VerifyBundle \/ PublishBundle \/ SyncBundle \/ DieBackup
        BY <3>2 DEF LockBackup, VerifyBundle, PublishBundle, SyncBundle, DieBackup, ledger
      <3>3. CASE CopyPointer \/ CopyFiles \/ CopyState \/ CopyLedger
        BY <3>3 DEF CopyPointer, CopyFiles, CopyState, CopyLedger, Copied, ledger
      <3> QED BY <1>1, <3>1, <3>2, <3>3 DEF BackupStep, BackupNext
    <2> QED BY <2>1, LedgerFrame DEF generations
  <1>2. CASE MigrationStep
    BY <1>2, LedgerFrame DEF MigrationStep, ledger, generations
  <1>3. CASE RebootHost
    <2>1. CASE file = "ready"
      BY <1>3, <2>1, LedgerQuiet, ReturnFacts DEF RebootHost, Reboot, ledger, LedgerInv
    <2>2. CASE file # "ready"
      BY <1>3, <2>2, ReturnFacts DEF RebootHost, Reboot, ledger, LedgerInv, OneToOne
    <2> QED BY <2>1, <2>2
  <1>4. CASE UNCHANGED vars
    BY <1>4, LedgerFrame DEF vars, ledgerVars, ledger, session, generations
  <1> QED BY <1>1, <1>2, <1>3, <1>4

\* The ledger is one-to-one for ever and holds the assignments of every file and
\* of everything that ever was in the kernel.
THEOREM LedgerHolds == Spec => []LedgerInv
  <1>1. Init => LedgerInv
    BY LedgerInitial
  <1>2. LedgerInv /\ [Next]_vars => LedgerInv'
    BY DaemonPreserves, OthersPreserve DEF Next, DaemonStep
  <1> QED BY <1>1, <1>2, PTL DEF Spec

\* A conntrack mark never changes its meaning: no retirement, candidate given up,
\* merge or restoration of an older generation gives an id to a second interface.
THEOREM MarksKeepMeaning == Spec => []OneMeaning
  <1>1. LedgerInv => OneMeaning
    BY DEF LedgerInv, OneMeaning, OneToOne
  <1> QED BY <1>1, LedgerHolds, PTL

\* No restoration of the published generation or of a candidate in flight is
\* refused by the ledger.
THEOREM RestorationNeverRefused == Spec => []RestorableVerifies
  <1>1. LedgerInv => RestorableVerifies
    BY DEF LedgerInv, RestorableVerifies, ValidateRequired, InFlight, Gens, None
  <1> QED BY <1>1, LedgerHolds, PTL

-----------------------------------------------------------------------------
(* The offline migration. *)

\* The command's steps after it has verified, published, compared, copied and
\* finished what MigrationInv says of them.
Checked == {"final_2", "sidecar", "publish"}
Finished == {"final_1"} \cup Checked
Migrating == {"migrate"} \cup Finished
Working == {"work"} \cup Migrating
Linked == {"compare"} \cup Working
Hashed == {"inspect", "copy_1", "copy_2", "again_1", "again_2", "link"} \cup Linked

Pages == [1 .. 2 -> Int]

MigrationTypes ==
    /\ source \in Pages /\ digest \in Pages /\ buffer \in Pages
    /\ old \in [BackupNames -> Pages] /\ name \in BackupNames
    /\ work \in [pages : Pages, schema : {"none", "legacy", "current"}, synced : BOOLEAN]

\* The first page of the source only grows.  So a source that has the digest's
\* first page after the digest was finished had it all the time, and the digest
\* is what it held when its second page was read.
DigestInv ==
    /\ source \in seen
    /\ mpc \in {"hash_2"} \cup Hashed => digest[1] <= source[1]
    /\ mpc \in Hashed => digest \in seen \/ digest[1] < source[1]
    /\ mpc \in Checked => digest \in seen

WorkInv ==
    /\ mpc \in Linked => old[name] = buffer
    /\ mpc \in Working => buffer = digest
    /\ mpc \in Migrating => work.pages = old[name]
    /\ mpc \in Finished => work.schema = "current"
    /\ db = "migrated" => mpc \in {"idle", "paths"}

MigrationInv == MigrationTypes /\ DigestInv /\ WorkInv /\ MigratedExact

\* What MigrationInv speaks of.
migrationState == <<db, dest, source, seen, old, mpc, name, digest, buffer, work>>

LEMMA MigrationInitial == ASSUME Init PROVE MigrationInv
  BY DEF Init, Migration!MigrationInit, MigrationInv, MigrationTypes, DigestInv, WorkInv,
         MigratedExact, Migration!MigratedExact, Migration!Unread, Migration!NoWork, Pages,
         Hashed, Linked, Working, Migrating, Finished, Checked

LEMMA MigrationFrame ==
    ASSUME MigrationInv, UNCHANGED migrationState
    PROVE  MigrationInv'
  BY DEF migrationState, MigrationInv, MigrationTypes, DigestInv, WorkInv,
         MigratedExact, Migration!MigratedExact

\* The command ends: what is left is what was published.
LEMMA LeavePreserves ==
    ASSUME MigrationInv, Migration!Leave, UNCHANGED <<db, dest, source, seen, old>>
    PROVE  MigrationInv'
  <1>1. mpc' = "idle" /\ MigrationTypes'
    BY DEF MigrationInv, MigrationTypes, Migration!Leave, Migration!Unread, Migration!NoWork, Pages
  <1>2. DigestInv' /\ WorkInv'
    BY <1>1 DEF MigrationInv, DigestInv, WorkInv, Hashed, Linked, Working, Migrating, Finished, Checked
  <1> QED BY <1>1, <1>2 DEF MigrationInv, MigratedExact, Migration!MigratedExact

\* The command goes on with nothing changed.
LEMMA ProceedPreserves ==
    ASSUME MigrationInv, NEW from, NEW l, mpc = from, mpc' = l,
           UNCHANGED <<db, dest, source, seen, old, name, digest, buffer, work>>,
           l # "idle", l \in Hashed => from \in Hashed,
           l = "hash_2" => from \in Hashed,
           l \in Checked => from \in Checked \/ digest[1] = source[1],
           l \in Linked => from \in Linked,
           l \in Working => from \in Working \/ buffer = digest,
           l \in Migrating => from \in Migrating, l \in Finished => from \in Finished,
           db = "migrated" => l = "paths"
    PROVE  MigrationInv'
  <1>1. MigrationTypes'
    BY DEF MigrationInv, MigrationTypes
  <1>2. DigestInv'
    <2>1. Checked \subseteq Hashed
      BY DEF Checked, Hashed, Linked, Working, Migrating, Finished
    <2> QED BY <2>1 DEF MigrationInv, DigestInv, MigrationTypes, Pages
  <1>3. WorkInv'
    BY DEF MigrationInv, WorkInv
  <1> QED BY <1>1, <1>2, <1>3 DEF MigrationInv, MigratedExact, Migration!MigratedExact

\* The checks between the effects: each goes on to the next step or ends.
LEMMA DecidesPreserves ==
    ASSUME MigrationInv,
           \/ Migration!CheckPaths \/ Migration!InspectSource \/ Migration!ReadAgain
           \/ Migration!CheckBackup \/ Migration!CheckUnchanged
    PROVE  MigrationInv'
  <1>1. ASSUME NEW from, NEW ok, NEW l, Migration!Decides(from, ok, l),
               l # "idle", l \in Hashed => from \in Hashed, l = "hash_2" => from \in Hashed,
               ok /\ l \in Checked => from \in Checked \/ digest[1] = source[1],
               l \in Linked => from \in Linked,
               ok /\ l \in Working => from \in Working \/ buffer = digest,
               l \in Migrating => from \in Migrating, l \in Finished => from \in Finished,
               ok /\ db = "migrated" => l = "paths"
        PROVE  MigrationInv'
    <2>1. UNCHANGED <<db, dest, source, seen, old>>
      BY <1>1 DEF Migration!Decides, Migration!host, Migration!legacy
    <2>2. CASE Migration!Leave
      BY <2>1, <2>2, LeavePreserves
    <2>3. CASE ok /\ Migration!Proceed(l) /\ UNCHANGED Migration!memory
      <3>1. mpc = from /\ mpc' = l /\ UNCHANGED <<name, digest, buffer, work>>
        BY <1>1, <2>3 DEF Migration!Decides, Migration!Proceed, Migration!memory
      <3> QED BY <1>1, <2>1, <2>3, <3>1, ProceedPreserves
    <2> QED BY <1>1, <2>2, <2>3 DEF Migration!Decides
  <1>2. CASE Migration!CheckPaths
    <2>1. "hash_1" \notin Hashed /\ "hash_1" \notin Checked /\ "hash_1" \notin Linked
          /\ "hash_1" \notin Working /\ "hash_1" \notin Migrating /\ "hash_1" \notin Finished
      BY DEF Hashed, Linked, Working, Migrating, Finished, Checked
    <2> QED BY <1>1, <1>2, <2>1 DEF Migration!CheckPaths
  <1>3. CASE Migration!InspectSource
    <2>1. PICK ok \in Migration!Sound(source) : Migration!Decides("inspect", ok, "copy_1")
      BY <1>3 DEF Migration!InspectSource
    <2>2. mpc = "inspect"
      BY <2>1 DEF Migration!Decides
    <2> QED BY <1>1, <2>1, <2>2
            DEF MigrationInv, WorkInv, Hashed, Linked, Working, Migrating, Finished, Checked
  <1>4. CASE Migration!ReadAgain
    <2>1. mpc \in {"again_1", "again_2"}
      BY <1>4 DEF Migration!ReadAgain, Migration!Decides
    <2> QED BY <1>1, <1>4, <2>1
            DEF Migration!ReadAgain, MigrationInv, WorkInv,
                Hashed, Linked, Working, Migrating, Finished, Checked
  <1>5. CASE Migration!CheckBackup
    <2>1. PICK ok \in Migration!Sound(buffer) :
              Migration!Decides("compare", buffer = digest /\ ok, "work")
      BY <1>5 DEF Migration!CheckBackup
    <2>2. mpc = "compare"
      BY <2>1 DEF Migration!Decides
    <2> QED BY <1>1, <2>1, <2>2
            DEF MigrationInv, WorkInv, Hashed, Linked, Working, Migrating, Finished, Checked
  <1>6. CASE Migration!CheckUnchanged
    <2>1. mpc \in {"final_1", "final_2", "sidecar"}
      BY <1>6 DEF Migration!CheckUnchanged, Migration!Decides
    <2> QED BY <1>1, <1>6, <2>1
            DEF Migration!CheckUnchanged, MigrationInv, WorkInv,
                Hashed, Linked, Working, Migrating, Finished, Checked
  <1> QED BY <1>2, <1>3, <1>4, <1>5, <1>6

\* The reads: a page of the source goes into the digest or the copy.
LEMMA ReadsPreserve ==
    ASSUME MigrationInv, Migration!HashSource \/ Migration!CopySource
    PROVE  MigrationInv'
  <1>1. UNCHANGED <<db, dest, source, seen, old, name, work>>
    BY DEF Migration!HashSource, Migration!CopySource, Migration!ReadPage,
           Migration!host, Migration!legacy
  <1>2. CASE Migration!HashSource
    <2>1. CASE Migration!ReadPage("hash_1", 1, digest, "hash_2") /\ UNCHANGED buffer
      <3>1. mpc' = "hash_2" /\ digest' = [digest EXCEPT ![1] = source[1]] /\ UNCHANGED buffer
            /\ mpc = "hash_1"
        BY <2>1 DEF Migration!ReadPage, Migration!Proceed
      <3>2. MigrationTypes' /\ digest'[1] = source[1]
        BY <1>1, <3>1 DEF MigrationInv, MigrationTypes, Pages
      <3> QED BY <1>1, <3>1, <3>2
              DEF MigrationInv, MigrationTypes, Pages, DigestInv, WorkInv, MigratedExact,
                  Migration!MigratedExact, Hashed, Linked, Working, Migrating, Finished, Checked
    <2>2. CASE Migration!ReadPage("hash_2", 2, digest, "inspect") /\ UNCHANGED buffer
      <3>1. mpc' = "inspect" /\ digest' = [digest EXCEPT ![2] = source[2]] /\ UNCHANGED buffer
            /\ mpc = "hash_2"
        BY <2>2 DEF Migration!ReadPage, Migration!Proceed
      <3>2. MigrationTypes' /\ digest'[1] = digest[1] /\ digest'[2] = source[2]
        BY <1>1, <3>1 DEF MigrationInv, MigrationTypes, Pages
      <3>3. digest'[1] = source[1] => digest' = source
        BY <3>1, <3>2 DEF MigrationInv, MigrationTypes, Pages
      <3>4. DigestInv'
        <4>1. source \in seen /\ digest[1] <= source[1]
          BY <3>1 DEF MigrationInv, DigestInv
        <4>2. "inspect" \notin Checked
          BY DEF Checked
        <4>3. digest[1] \in Int /\ source[1] \in Int
          BY DEF MigrationInv, MigrationTypes, Pages
        <4>4. digest' \in seen \/ digest'[1] < source[1]
          BY <3>2, <3>3, <4>1, <4>3
        <4> QED BY <1>1, <3>1, <3>2, <4>1, <4>2, <4>4 DEF DigestInv
      <3> QED BY <1>1, <3>1, <3>2, <3>4
              DEF MigrationInv, WorkInv, MigratedExact, Migration!MigratedExact,
                  Linked, Working, Migrating, Finished, Checked
    <2> QED BY <1>2, <2>1, <2>2 DEF Migration!HashSource
  <1>3. CASE Migration!CopySource
    <2>1. /\ mpc \in {"copy_1", "copy_2"} /\ mpc' \in {"copy_2", "again_1"}
          /\ UNCHANGED digest
          /\ \E i \in 1 .. 2 : buffer' = [buffer EXCEPT ![i] = source[i]]
      BY <1>3 DEF Migration!CopySource, Migration!ReadPage, Migration!Proceed
    <2>2. MigrationTypes'
      BY <1>1, <2>1 DEF MigrationInv, MigrationTypes, Pages
    <2> QED BY <1>1, <2>1, <2>2
            DEF MigrationInv, DigestInv, WorkInv, MigratedExact, Migration!MigratedExact,
                Hashed, Linked, Working, Migrating, Finished, Checked
  <1> QED BY <1>2, <1>3

\* The effects: the backup, the work file, its migration and its publication.
LEMMA EffectsPreserve ==
    ASSUME MigrationInv,
           \/ Migration!LinkBackup \/ Migration!CreateWork \/ Migration!MigrateWork
           \/ Migration!PublishWork
    PROVE  MigrationInv'
  <1>1. CASE Migration!LinkBackup
    <2>1. UNCHANGED <<db, dest, source, seen>> /\ mpc = "link" /\ db # "migrated"
      BY <1>1 DEF Migration!LinkBackup, Migration!host, Migration!legacy, MigrationInv, WorkInv
    <2>2. CASE UNCHANGED old /\ Migration!Leave
      BY <2>1, <2>2, LeavePreserves
    <2>3. CASE old' = [old EXCEPT ![name] = buffer] /\ Migration!Leave
      <3>1. mpc' = "idle" /\ MigrationTypes'
        BY <2>1, <2>3 DEF MigrationInv, MigrationTypes, Migration!Leave, Migration!Unread,
                          Migration!NoWork, Pages
      <3> QED BY <2>1, <3>1
              DEF MigrationInv, DigestInv, WorkInv, MigratedExact, Migration!MigratedExact,
                  Hashed, Linked, Working, Migrating, Finished, Checked
    <2>4. CASE /\ old' = [old EXCEPT ![name] = buffer] /\ mpc' = "compare"
               /\ UNCHANGED <<name, digest, buffer, work>>
      <3>1. MigrationTypes' /\ old'[name] = buffer
        BY <2>1, <2>4 DEF MigrationInv, MigrationTypes
      <3> QED BY <2>1, <2>4, <3>1
              DEF MigrationInv, DigestInv, WorkInv, MigratedExact, Migration!MigratedExact,
                  Hashed, Linked, Working, Migrating, Finished, Checked
    <2> QED BY <1>1, <2>2, <2>3, <2>4
            DEF Migration!LinkBackup, Migration!Proceed, Migration!memory
  <1>2. CASE Migration!CreateWork
    <2>1. UNCHANGED <<db, dest, source, seen, old>> /\ mpc = "work"
      BY <1>2 DEF Migration!CreateWork, Migration!host, Migration!legacy
    <2>2. CASE Migration!Leave
      BY <2>1, <2>2, LeavePreserves
    <2>3. CASE /\ work' = [pages |-> old[name], schema |-> "legacy", synced |-> TRUE]
               /\ mpc' = "migrate" /\ UNCHANGED <<name, digest, buffer>>
      <3>1. MigrationTypes' /\ work'.pages = old[name]
        BY <2>1, <2>3 DEF MigrationInv, MigrationTypes
      <3> QED BY <2>1, <2>3, <3>1
              DEF MigrationInv, DigestInv, WorkInv, MigratedExact, Migration!MigratedExact,
                  Hashed, Linked, Working, Migrating, Finished, Checked
    <2> QED BY <1>2, <2>2, <2>3 DEF Migration!CreateWork, Migration!Proceed
  <1>3. CASE Migration!MigrateWork
    <2>1. UNCHANGED <<db, dest, source, seen, old>> /\ mpc = "migrate"
      BY <1>3 DEF Migration!MigrateWork, Migration!host, Migration!legacy
    <2>2. CASE Migration!Leave
      BY <2>1, <2>2, LeavePreserves
    <2>3. CASE /\ work' = [work EXCEPT !.schema = "current"]
               /\ mpc' = "final_1" /\ UNCHANGED <<name, digest, buffer>>
      <3>1. MigrationTypes' /\ work'.pages = work.pages /\ work'.schema = "current"
        BY <2>1, <2>3 DEF MigrationInv, MigrationTypes
      <3> QED BY <2>1, <2>3, <3>1
              DEF MigrationInv, DigestInv, WorkInv, MigratedExact, Migration!MigratedExact,
                  Hashed, Linked, Working, Migrating, Finished, Checked
    <2> QED BY <1>3, <2>2, <2>3 DEF Migration!MigrateWork, Migration!Proceed
  <1>4. CASE Migration!PublishWork
    <2>1. UNCHANGED <<source, seen, old>> /\ mpc = "publish" /\ Migration!Leave
      BY <1>4 DEF Migration!PublishWork, Migration!legacy
    <2>2. CASE UNCHANGED <<db, dest>>
      BY <2>1, <2>2, LeavePreserves
    <2>3. CASE db' = "migrated" /\ dest' = work
      <3>1. mpc' = "idle" /\ MigrationTypes'
        BY <2>1 DEF MigrationInv, MigrationTypes, Migration!Leave, Migration!Unread,
                    Migration!NoWork, Pages
      <3>2. work.schema = "current" /\ work.pages = digest /\ digest \in seen
            /\ old[name] = work.pages /\ name \in BackupNames
        BY <2>1 DEF MigrationInv, MigrationTypes, DigestInv, WorkInv,
                    Linked, Working, Migrating, Finished, Checked
      <3>3. MigratedExact'
        BY <2>1, <2>3, <3>2 DEF MigratedExact, Migration!MigratedExact
      <3> QED BY <2>1, <3>1, <3>3
              DEF MigrationInv, DigestInv, WorkInv,
                  Hashed, Linked, Working, Migrating, Finished, Checked
    <2> QED BY <1>4, <2>2, <2>3 DEF Migration!PublishWork, Migration!host
  <1> QED BY <1>1, <1>2, <1>3, <1>4

\* The other processes: the source's first page only grows.
LEMMA OthersKeepMigration ==
    ASSUME MigrationInv,
           \/ \E n \in BackupNames : Migration!StartMigration(n)
           \/ Migration!DieMigration \/ Migration!WriteSource \/ Migration!OpenState
    PROVE  MigrationInv'
  <1>1. CASE \E n \in BackupNames : Migration!StartMigration(n)
    <2>1. PICK n \in BackupNames : Migration!StartMigration(n)
      BY <1>1
    <2>2. /\ UNCHANGED <<db, dest, source, seen, old, digest, buffer, work>>
          /\ mpc' = "paths" /\ name' = n
      BY <2>1 DEF Migration!StartMigration, Migration!host, Migration!legacy
    <2> QED BY <2>2
            DEF MigrationInv, MigrationTypes, DigestInv, WorkInv, MigratedExact,
                Migration!MigratedExact, Hashed, Linked, Working, Migrating, Finished, Checked
  <1>2. CASE Migration!DieMigration
    BY <1>2, LeavePreserves DEF Migration!DieMigration, Migration!host, Migration!legacy
  <1>3. CASE Migration!WriteSource
    <2>1. /\ UNCHANGED <<db, dest, old, mpc, name, digest, buffer, work>>
          /\ seen' = seen \cup {source'}
      BY <1>3 DEF Migration!WriteSource, Migration!host, Migration!memory
    <2>2. source' \in Pages /\ source[1] <= source'[1]
      BY <1>3 DEF Migration!WriteSource, MigrationInv, MigrationTypes, Pages
    <2>3. MigrationTypes' /\ WorkInv' /\ MigratedExact'
      BY <2>1, <2>2 DEF MigrationInv, MigrationTypes, WorkInv, MigratedExact, Migration!MigratedExact
    <2>4. digest[1] \in Int /\ source[1] \in Int /\ source'[1] \in Int
      BY <2>2 DEF MigrationInv, MigrationTypes, Pages
    <2>5. DigestInv'
      BY <2>1, <2>2, <2>4 DEF MigrationInv, DigestInv
    <2> QED BY <2>3, <2>5 DEF MigrationInv
  <1>4. CASE Migration!OpenState
    <2>1. db' = "opened" /\ UNCHANGED <<dest, source, seen, old, mpc, name, digest, buffer, work>>
      BY <1>4 DEF Migration!OpenState, Migration!legacy, Migration!memory
    <2> QED BY <2>1 DEF MigrationInv, MigrationTypes, DigestInv, WorkInv, MigratedExact,
                        Migration!MigratedExact
  <1> QED BY <1>1, <1>2, <1>3, <1>4

\* The migration, for every step of the host.
LEMMA MigrationPreserved == ASSUME MigrationInv, [Next]_vars PROVE MigrationInv'
  <1>1. CASE DaemonStep \/ BackupStep \/ UNCHANGED vars
    BY <1>1, MigrationFrame
       DEF DaemonStep, BackupStep, vars, migration, kept, migrationState
  <1>2. CASE MigrationStep
    BY <1>2, DecidesPreserves, ReadsPreserve, EffectsPreserve, OthersKeepMigration
       DEF MigrationStep, Migration!MigrationNext
  <1>3. CASE RebootHost
    <2>1. /\ UNCHANGED <<db, dest, source, seen, old, name>> /\ mpc' = "idle"
          /\ digest' = Migration!Unread /\ buffer' = Migration!Unread
          /\ work' = Migration!NoWork
      BY <1>3 DEF RebootHost, kept
    <2>2. MigrationTypes'
      BY <2>1 DEF MigrationInv, MigrationTypes, Pages, Migration!Unread, Migration!NoWork
    <2> QED BY <2>1, <2>2
            DEF MigrationInv, DigestInv, WorkInv, MigratedExact, Migration!MigratedExact,
                Hashed, Linked, Working, Migrating, Finished, Checked
  <1> QED BY <1>1, <1>2, <1>3 DEF Next

\* The database of the host is never half migrated and never made of two states
\* of the source, for any number of checkpoints, backups and failures.
THEOREM MigrationExact == Spec => []MigratedExact
  <1>1. Init => MigrationInv
    BY MigrationInitial
  <1>2. MigrationInv /\ [Next]_vars => MigrationInv'
    BY MigrationPreserved
  <1>3. MigrationInv => MigratedExact
    BY DEF MigrationInv
  <1> QED BY <1>1, <1>2, <1>3, PTL DEF Spec

-----------------------------------------------------------------------------
(* The types. *)

\* The copy of the source has pages the source had.
BufferInv ==
    /\ mpc = "copy_2" => buffer[1] \in 0 .. MaxWrites
    /\ mpc \in {"again_1", "again_2", "link"} => buffer \in Migration!Contents

\* The budget of failures is never overdrawn.
LEMMA FaultsTyped ==
    ASSUME faults \in Nat, UNCHANGED faults \/ Fault \/ \E ok \in BOOLEAN : Fails(ok)
    PROVE  faults' \in Nat
  BY DEF Fault, Fails

\* Retired names stay among the assigned ones.
LEMMA LedgerTyped ==
    ASSUME LedgerTypeOK, LedgerNext
    PROVE  /\ alloc' \in SUBSET Pairs /\ retired' \in SUBSET NamesOf(alloc')
           /\ file' \in {"absent", "empty", "ready"}
  <1> USE DEF LedgerTypeOK
  <1>1. CASE \E saved \in Saved : MergeFrom(saved)
    <2>1. PICK saved \in Saved : MergeFrom(saved)
      BY <1>1
    <2> QED BY <2>1 DEF MergeFrom, Saved, NamesOf
  <1>2. CASE Record(active) /\ UNCHANGED file
    BY <1>2 DEF Record, NamesOf
  <1>3. CASE CreateLedger \/ InitializeLedger
    BY <1>3 DEF CreateLedger, InitializeLedger
  <1>4. CASE UNCHANGED ledger
    BY <1>4 DEF ledger
  <1>5. \/ \E saved \in Saved : MergeFrom(saved)
        \/ Record(active) /\ UNCHANGED file
        \/ CreateLedger \/ InitializeLedger \/ UNCHANGED ledger
    BY DEF LedgerNext, StartCompile, AuditForeign, Reserve, Compile, WriteFiles, InsertRow,
           InstallCandidate, StartCommit, StartRollback, PrepareCommit, PublishPointer,
           FinalizeCommit, Restore, Reconcile, Die, Record, ledger
  <1> QED BY <1>1, <1>2, <1>3, <1>4, <1>5

\* The transaction of the daemon, what it writes and what it counts.
LEMMA SessionTyped ==
    ASSUME LedgerTypeOK, LedgerNext
    PROVE  /\ pc' \in {"free", "audit", "reserve", "compile", "files", "row", "install", "prepare",
                       "publish", "finalize", "restore"}
           /\ active' \in SUBSET Pairs /\ gen' \in Gens \cup {None}
           /\ snapshot' \in [Gens -> SUBSET Pairs]
           /\ row' \in [Gens -> Statuses] /\ pointer' \in Gens \cup {None}
           /\ kernel' \in Gens \cup {None} /\ meanings' \in SUBSET Pairs
  <1> USE DEF LedgerTypeOK, session, generations, Return, Goto
  <1>1. CASE CreateLedger \/ InitializeLedger \/ \E saved \in Saved : MergeFrom(saved)
    BY <1>1 DEF CreateLedger, InitializeLedger, MergeFrom
  <1>2. CASE StartCompilation
    BY <1>2 DEF StartCompilation, StartCompile
  <1>3. CASE AuditForeign \/ Reserve \/ Compile
    BY <1>3 DEF AuditForeign, Reserve, Compile
  <1>4. CASE WriteFiles
    BY <1>4 DEF WriteFiles
  <1>5. CASE InsertRow \/ PrepareCommit \/ FinalizeCommit
    BY <1>5, SetRowTyped DEF InsertRow, PrepareCommit, FinalizeCommit, Statuses
  <1>6. CASE InstallCandidate
    <2>1. row' \in [Gens -> Statuses]
      BY <1>6, SetRowTyped DEF InstallCandidate, Statuses
    <2> QED BY <1>6, <2>1 DEF InstallCandidate, Install
  <1>7. CASE \E g \in Gens : StartCommit(g) \/ StartRollback(g)
    BY <1>7 DEF StartCommit, StartRollback
  <1>8. CASE PublishPointer
    BY <1>8 DEF PublishPointer
  <1>9. CASE Restore
    <2>1. row' \in [Gens -> Statuses]
      BY <1>9, SetRowTyped DEF Restore, Statuses
    <2>2. \E g \in Gens \cup {None} : Install(g)
      BY <1>9 DEF Restore
    <2>3. kernel' \in Gens \cup {None} /\ meanings' \in SUBSET Pairs
      BY <2>2 DEF Install
    <2> QED BY <1>9, <2>1, <2>3 DEF Restore
  <1>10. CASE Reconcile
    <2>2. \E g \in Gens \cup {None} : Install(g)
      BY <1>10 DEF Reconcile
    <2>3. kernel' \in Gens \cup {None} /\ meanings' \in SUBSET Pairs
      BY <2>2 DEF Install
    <2> QED BY <1>10, <2>3 DEF Reconcile
  <1>11. CASE Die
    BY <1>11 DEF Die
  <1> QED BY <1>1, <1>2, <1>3, <1>4, <1>5, <1>6, <1>7, <1>8, <1>9, <1>10, <1>11
          DEF LedgerNext, StartCompilation

\* The daemon's steps keep the types of what they touch.
LEMMA DaemonTyped == ASSUME LedgerTypeOK, LedgerNext PROVE LedgerTypeOK'
  <1>1. debris' \in BOOLEAN
    <2>1. debris' = debris \/ debris' \in {debris, debris \/ pc = "files"}
      BY DEF LedgerNext, CreateLedger, InitializeLedger, MergeFrom, StartCompile, AuditForeign,
             Reserve, Compile, WriteFiles, InsertRow, InstallCandidate, StartCommit, StartRollback,
             PrepareCommit, PublishPointer, FinalizeCommit, Restore, Reconcile, Die, generations
    <2> QED BY <2>1 DEF LedgerTypeOK
  <1>2. UNCHANGED faults \/ Fault \/ \E ok \in BOOLEAN : Fails(ok)
    <2>1. Verified \in BOOLEAN /\ ValidateRequired(snapshot[gen]) \in BOOLEAN
      BY DEF Verified, ValidateRequired
    <2> QED BY <2>1 DEF LedgerNext, CreateLedger, InitializeLedger, MergeFrom, StartCompile,
                 AuditForeign, Reserve, Compile, WriteFiles, InsertRow, InstallCandidate,
                 StartCommit, StartRollback, PrepareCommit, PublishPointer, FinalizeCommit,
                 Restore, Reconcile, Die
  <1> QED BY <1>1, <1>2, FaultsTyped, LedgerTyped, SessionTyped DEF LedgerTypeOK

\* A command that has not copied anything.
LEMMA NoCopyTyped == NoCopy \in Copies
  BY DEF NoCopy, Copies, Statuses

\* What a step of a backup does to the ledger's side: nothing but the lock, the
\* budget of failures and the creation of the ledger.
LEMMA BackupLeaves ==
    ASSUME BackupNext
    PROVE  /\ UNCHANGED <<alloc, retired, pc, active, gen, generations>>
           /\ file' = file \/ file' = "ready"
           /\ UNCHANGED faults \/ Fault
  <1>1. CASE \E d \in Destinations : StartBackup(d)
    BY <1>1 DEF StartBackup, ledgerVars, ledger, session, generations
  <1>2. CASE LockBackup \/ VerifyBundle \/ PublishBundle \/ SyncBundle \/ DieBackup
    BY <1>2 DEF LockBackup, VerifyBundle, PublishBundle, SyncBundle, DieBackup, ledger
  <1>3. CASE CopyPointer \/ CopyFiles \/ CopyState \/ CopyLedger
    BY <1>3 DEF CopyPointer, CopyFiles, CopyState, CopyLedger, Copied, ledger
  <1> QED BY <1>1, <1>2, <1>3 DEF BackupNext

\* So the types of the ledger's side hold after every step of the others.
LEMMA OthersTyped ==
    ASSUME LedgerTypeOK, BackupStep \/ MigrationStep \/ RebootHost \/ UNCHANGED vars
    PROVE  LedgerTypeOK'
  <1>1. CASE BackupStep
    <2>1. /\ UNCHANGED <<alloc, retired, pc, active, gen, generations>>
          /\ file' = file \/ file' = "ready"
          /\ UNCHANGED faults \/ Fault
      BY <1>1, BackupLeaves DEF BackupStep
    <2>2. faults' \in Nat
      BY <2>1, FaultsTyped DEF LedgerTypeOK
    <2> QED BY <2>1, <2>2 DEF LedgerTypeOK, generations
  <1>2. CASE MigrationStep
    <2>1. UNCHANGED faults \/ Fault
      BY <1>2 DEF MigrationStep, Migration!MigrationNext, Migration!StartMigration,
         Migration!CheckPaths, Migration!HashSource, Migration!InspectSource,
         Migration!CopySource, Migration!ReadAgain, Migration!LinkBackup, Migration!CheckBackup,
         Migration!CreateWork, Migration!MigrateWork, Migration!CheckUnchanged,
         Migration!PublishWork, Migration!DieMigration, Migration!WriteSource,
         Migration!OpenState, Migration!Decides, Migration!ReadPage, Migration!shared,
         Migration!Fault, Fault
    <2>2. faults' \in Nat
      BY <2>1, FaultsTyped DEF LedgerTypeOK
    <2> QED BY <1>2, <2>2 DEF MigrationStep, LedgerTypeOK, ledger, generations
  <1>3. CASE RebootHost
    <2>1. faults' \in Nat
      BY <1>3, FaultsTyped DEF LedgerTypeOK, RebootHost, Reboot
    <2> QED BY <1>3, <2>1 DEF RebootHost, Reboot, Return, LedgerTypeOK, ledger
  <1>4. CASE UNCHANGED vars
    BY <1>4 DEF vars, ledgerVars, ledger, session, generations, LedgerTypeOK
  <1> QED BY <1>1, <1>2, <1>3, <1>4

\* A backup keeps copies of what the host has.
LEMMA BackupTyped ==
    ASSUME LedgerTypeOK, BackupTypeOK, BackupNext
    PROVE  BackupTypeOK'
  <1>1. /\ Artifacts \in SUBSET Gens /\ pointer \in Gens \cup {None}
        /\ row \in [Gens -> Statuses] /\ alloc \in SUBSET Pairs
    BY DEF LedgerTypeOK, Artifacts
  <1>2. \/ UNCHANGED copy \/ copy' = NoCopy
        \/ copy' = [copy EXCEPT !["pointer"] = pointer]
        \/ copy' = [copy EXCEPT !["files"] = Artifacts]
        \/ copy' = [copy EXCEPT !["row"] = row]
        \/ copy' = [copy EXCEPT !["alloc"] = alloc]
    BY DEF BackupNext, StartBackup, LockBackup, CopyPointer, CopyFiles, CopyState, CopyLedger,
           VerifyBundle, PublishBundle, SyncBundle, DieBackup, Copied, EndBackup
  <1>3. copy' \in Copies
    BY <1>1, <1>2, NoCopyTyped DEF BackupTypeOK, Copies
  <1>4. bundle' = bundle \/ bundle' = [bundle EXCEPT ![to] = copy]
    BY DEF BackupNext, StartBackup, LockBackup, CopyPointer, CopyFiles, CopyState, CopyLedger,
           VerifyBundle, PublishBundle, SyncBundle, DieBackup, Copied
  <1>5. bundle' \in [Destinations -> Copies \cup {NoBundle}]
    BY <1>4 DEF BackupTypeOK
  <1>6. to' \in Destinations /\ bpc' \in {"idle", "lock", "pointer", "files", "state", "ledger",
                                          "verify", "rename", "sync"}
    BY DEF BackupTypeOK, BackupNext, StartBackup, LockBackup, CopyPointer, CopyFiles, CopyState,
           CopyLedger, VerifyBundle, PublishBundle, SyncBundle, DieBackup, Copied, EndBackup,
           Continue
  <1> QED BY <1>3, <1>5, <1>6 DEF BackupTypeOK

\* Two pages are what their pages are.
LEMMA PagesAre ==
    ASSUME NEW p \in Pages, p[1] \in 0 .. MaxWrites, p[2] \in 0 .. MaxWrites
    PROVE  p \in Migration!Contents
  <1>1. p = <<p[1], p[2]>>
    BY DEF Pages
  <1> QED BY <1>1 DEF Migration!Contents

\* And the pages of a file are numbers up to the bound.
LEMMA ContentsAre ==
    ASSUME NEW p \in Migration!Contents
    PROVE  p \in Pages /\ p[1] \in 0 .. MaxWrites /\ p[2] \in 0 .. MaxWrites
  BY MigrationAssumption DEF Migration!Contents, Pages

\* What the older release writes are pages.
LEMMA SourceTyped ==
    ASSUME Migration!MigrationTypeOK, Migration!WriteSource
    PROVE  source' \in Migration!Contents
  <1>1. source \in Pages /\ source[1] \in 0 .. MaxWrites /\ source[2] \in 0 .. MaxWrites
    BY ContentsAre DEF Migration!MigrationTypeOK
  <1>2. CASE UNCHANGED source
    BY <1>2 DEF Migration!MigrationTypeOK
  <1>3. CASE source' = [source EXCEPT ![1] = @ + 1] /\ source[1] < MaxWrites
    <2>1. source' \in Pages /\ source'[1] = source[1] + 1 /\ source'[2] = source[2]
      BY <1>1, <1>3 DEF Pages
    <2>2. source'[1] \in 0 .. MaxWrites
      BY <1>1, <1>3, <2>1, MigrationAssumption
    <2> QED BY <1>1, <2>1, <2>2, PagesAre
  <1>4. CASE source' = [source EXCEPT ![2] = source[1]]
    <2>1. source' \in Pages /\ source'[1] = source[1] /\ source'[2] = source[1]
      BY <1>1, <1>4 DEF Pages
    <2> QED BY <1>1, <2>1, PagesAre
  <1> QED BY <1>2, <1>3, <1>4 DEF Migration!WriteSource

\* Where the command stands, and where it goes.
LEMMA MigrationSteps ==
    ASSUME Migration!MigrationTypeOK, Migration!MigrationNext
    PROVE  /\ db' \in {"absent", "opened", "migrated", "native"} /\ name' \in BackupNames
           /\ mpc' \in {"idle", "paths", "hash_1", "hash_2", "inspect", "copy_1", "copy_2",
                        "again_1", "again_2", "link", "compare", "work", "migrate", "final_1",
                        "final_2", "sidecar", "publish"}
           /\ sidecar' \in BOOLEAN
  <1> USE DEF Migration!MigrationTypeOK, Migration!Leave, Migration!Proceed, Migration!memory,
              Migration!host, Migration!legacy
  <1>1. CASE \/ \E n \in BackupNames : Migration!StartMigration(n)
             \/ Migration!DieMigration \/ Migration!WriteSource \/ Migration!OpenState
    BY <1>1 DEF Migration!StartMigration, Migration!DieMigration, Migration!WriteSource,
                Migration!OpenState
  <1>2. CASE \/ Migration!CheckPaths \/ Migration!InspectSource \/ Migration!ReadAgain
             \/ Migration!CheckBackup \/ Migration!CheckUnchanged
    BY <1>2 DEF Migration!CheckPaths, Migration!InspectSource, Migration!ReadAgain,
                Migration!CheckBackup, Migration!CheckUnchanged, Migration!Decides
  <1>3. CASE Migration!HashSource \/ Migration!CopySource
    BY <1>3 DEF Migration!HashSource, Migration!CopySource, Migration!ReadPage
  <1>4. CASE \/ Migration!LinkBackup \/ Migration!CreateWork \/ Migration!MigrateWork
             \/ Migration!PublishWork
    BY <1>4 DEF Migration!LinkBackup, Migration!CreateWork, Migration!MigrateWork,
                Migration!PublishWork
  <1> QED BY <1>1, <1>2, <1>3, <1>4 DEF Migration!MigrationNext

\* The backups hold pages that were read from the source.
LEMMA MigrationTyped ==
    ASSUME MigrationTypes, Migration!MigrationTypeOK, BufferInv, Migration!MigrationNext
    PROVE  Migration!MigrationTypeOK' /\ BufferInv'
  <1>1. source' \in Migration!Contents /\ seen' \in SUBSET Migration!Contents
    <2>1. CASE Migration!WriteSource
      BY <2>1, SourceTyped DEF Migration!WriteSource, Migration!MigrationTypeOK
    <2>2. CASE ~Migration!WriteSource
      <3>1. UNCHANGED <<source, seen>>
        BY <2>2 DEF Migration!MigrationNext, Migration!StartMigration,
           Migration!CheckPaths, Migration!HashSource, Migration!InspectSource,
           Migration!CopySource, Migration!ReadAgain, Migration!LinkBackup, Migration!CheckBackup,
           Migration!CreateWork, Migration!MigrateWork, Migration!CheckUnchanged,
           Migration!PublishWork, Migration!DieMigration,
           Migration!OpenState, Migration!Decides, Migration!ReadPage, Migration!legacy
      <3> QED BY <3>1 DEF Migration!MigrationTypeOK
    <2> QED BY <2>1, <2>2
  <1>2. old' = old \/ (mpc = "link" /\ old' = [old EXCEPT ![name] = buffer])
    BY DEF Migration!MigrationNext, Migration!StartMigration,
       Migration!CheckPaths, Migration!HashSource, Migration!InspectSource,
       Migration!CopySource, Migration!ReadAgain, Migration!LinkBackup, Migration!CheckBackup,
       Migration!CreateWork, Migration!MigrateWork, Migration!CheckUnchanged,
       Migration!PublishWork, Migration!DieMigration, Migration!WriteSource,
       Migration!OpenState, Migration!Decides, Migration!ReadPage
  <1>3. old' \in [BackupNames -> Migration!Contents \cup {Migration!Unread}]
    BY <1>2 DEF Migration!MigrationTypeOK, BufferInv
  <1>4. Migration!MigrationTypeOK'
    BY <1>1, <1>3, MigrationSteps DEF Migration!MigrationTypeOK
  <1>5. \/ UNCHANGED buffer /\ (mpc' \in {"copy_2", "again_1", "again_2", "link"} =>
                                  (mpc' = mpc \/ (mpc \in {"again_1", "again_2"}
                                                  /\ mpc' \in {"again_2", "link"})))
        \/ mpc' = "idle"
        \/ mpc' = "copy_2" /\ buffer' = [buffer EXCEPT ![1] = source[1]]
        \/ mpc = "copy_2" /\ mpc' = "again_1" /\ buffer' = [buffer EXCEPT ![2] = source[2]]
    <2> USE DEF Migration!Leave, Migration!Proceed, Migration!memory
    <2>1. CASE \/ \E n \in BackupNames : Migration!StartMigration(n)
               \/ Migration!DieMigration \/ Migration!WriteSource \/ Migration!OpenState
      BY <2>1 DEF Migration!StartMigration, Migration!DieMigration, Migration!WriteSource,
                  Migration!OpenState
    <2>2. CASE \/ Migration!CheckPaths \/ Migration!InspectSource \/ Migration!ReadAgain
               \/ Migration!CheckBackup \/ Migration!CheckUnchanged
      BY <2>2 DEF Migration!CheckPaths, Migration!InspectSource, Migration!ReadAgain,
                  Migration!CheckBackup, Migration!CheckUnchanged, Migration!Decides
    <2>3. CASE Migration!HashSource \/ Migration!CopySource
      BY <2>3 DEF Migration!HashSource, Migration!CopySource, Migration!ReadPage
    <2>4. CASE \/ Migration!LinkBackup \/ Migration!CreateWork \/ Migration!MigrateWork
               \/ Migration!PublishWork
      BY <2>4 DEF Migration!LinkBackup, Migration!CreateWork, Migration!MigrateWork,
                  Migration!PublishWork
    <2> QED BY <2>1, <2>2, <2>3, <2>4 DEF Migration!MigrationNext
  <1>6. source[1] \in 0 .. MaxWrites /\ source[2] \in 0 .. MaxWrites
    BY ContentsAre DEF Migration!MigrationTypeOK
  <1>7. CASE mpc' = "idle"
    BY <1>4, <1>7 DEF BufferInv
  <1>8. CASE mpc' = "copy_2" /\ buffer' = [buffer EXCEPT ![1] = source[1]]
    <2>1. buffer'[1] = source[1]
      BY <1>8 DEF MigrationTypes, Pages
    <2> QED BY <1>4, <1>6, <1>8, <2>1 DEF BufferInv
  <1>9. CASE mpc = "copy_2" /\ mpc' = "again_1" /\ buffer' = [buffer EXCEPT ![2] = source[2]]
    <2>1. buffer' \in Pages /\ buffer'[1] = buffer[1] /\ buffer'[2] = source[2]
      BY <1>9, <1>6 DEF MigrationTypes, Pages
    <2>2. buffer' \in Migration!Contents
      BY <1>6, <1>9, <2>1, PagesAre DEF BufferInv
    <2> QED BY <1>4, <1>9, <2>2 DEF BufferInv
  <1>10. CASE UNCHANGED buffer /\ (mpc' \in {"copy_2", "again_1", "again_2", "link"} =>
                                  (mpc' = mpc \/ (mpc \in {"again_1", "again_2"}
                                                  /\ mpc' \in {"again_2", "link"})))
    BY <1>4, <1>10 DEF BufferInv
  <1> QED BY <1>4, <1>5, <1>7, <1>8, <1>9, <1>10

\* Every variable keeps its type, and what a migration copies are pages.
OperatorTypeInv == TypeOK /\ MigrationInv /\ BufferInv

\* A host that has never been used, with a database or without one.
LEMMA OperatorTypesInitial == ASSUME Init PROVE OperatorTypeInv
  <1>1. LedgerTypeOK
    BY LedgerAssumption DEF Init, LedgerInit, LedgerTypeOK, NamesOf, NoFile, Statuses, None
  <1>2. BackupTypeOK
    BY NoCopyTyped DEF Init, BackupInit, BackupTypeOK
  <1>3. Migration!MigrationTypeOK /\ BufferInv
    <2>1. <<0, 0>> \in Migration!Contents
      BY MigrationAssumption DEF Migration!Contents
    <2>2. /\ db \in {"absent", "native"} /\ source = <<0, 0>> /\ sidecar = FALSE
          /\ seen = {source} /\ old = [n \in BackupNames |-> Migration!Unread]
          /\ mpc = "idle" /\ name \in BackupNames
      BY DEF Init, Migration!MigrationInit
    <2> HIDE DEF Migration!Contents, Migration!Unread
    <2> QED BY <2>1, <2>2 DEF Migration!MigrationTypeOK, BufferInv
  <1> QED BY <1>1, <1>2, <1>3, MigrationInitial DEF OperatorTypeInv, TypeOK

\* The parts together, for every step of the host.
LEMMA OperatorTypesPreserved ==
    ASSUME OperatorTypeInv, [Next]_vars
    PROVE  OperatorTypeInv'
  <1> USE DEF OperatorTypeInv, TypeOK
  <1>1. LedgerTypeOK'
    BY DaemonTyped, OthersTyped DEF Next, DaemonStep
  <1>2. MigrationInv'
    BY MigrationPreserved
  <1>3. BackupTypeOK'
    <2>1. CASE BackupStep
      BY <2>1, BackupTyped DEF BackupStep
    <2>2. CASE DaemonStep \/ MigrationStep \/ UNCHANGED vars
      BY <2>2 DEF DaemonStep, MigrationStep, vars, backupVars, backup, BackupTypeOK
    <2>3. CASE RebootHost
      BY <2>3, NoCopyTyped DEF RebootHost, BackupTypeOK
    <2> QED BY <2>1, <2>2, <2>3 DEF Next
  <1>4. Migration!MigrationTypeOK' /\ BufferInv'
    <2>1. CASE MigrationStep
      BY <2>1, MigrationTyped DEF MigrationStep, MigrationInv
    <2>2. CASE DaemonStep \/ BackupStep \/ UNCHANGED vars
      BY <2>2 DEF DaemonStep, BackupStep, vars, migration, kept, BufferInv,
                  Migration!MigrationTypeOK
    <2>3. CASE RebootHost
      BY <2>3 DEF RebootHost, kept, BufferInv, Migration!MigrationTypeOK
    <2> QED BY <2>1, <2>2, <2>3 DEF Next
  <1> QED BY <1>1, <1>2, <1>3, <1>4

\* Every variable of the ledger, the generations, the backups and the migration
\* keeps its type; what a migration links as a backup are pages of the source.
THEOREM OperatorTypes == Spec => []TypeOK
  <1>1. Init => OperatorTypeInv
    BY OperatorTypesInitial
  <1>2. OperatorTypeInv /\ [Next]_vars => OperatorTypeInv'
    BY OperatorTypesPreserved
  <1>3. OperatorTypeInv => TypeOK
    BY DEF OperatorTypeInv
  <1> QED BY <1>1, <1>2, <1>3, PTL DEF Spec

-----------------------------------------------------------------------------
(* The bundles. *)

\* The steps of a backup that has the mutation lock, and those at which it has
\* copied the pointer, the files, the rows and the ledger.
LedgerCopied  == {"verify", "rename", "sync"}
RowsCopied    == {"ledger"} \cup LedgerCopied
FilesCopied   == {"state"} \cup RowsCopied
PointerCopied == {"files"} \cup FilesCopied
Copying       == {"pointer"} \cup PointerCopied

\* The daemon, the backup and the migration exclude each other.
LockInv ==
    /\ pc # "free" => lock \in {"plan", "apply", "commit", "rollback"}
    /\ bpc \in Copying => lock = "backup"
    /\ mpc # "idle" => lock = "migrate"

\* The pointer is what boot recovery expects with the rows.
Expected(p, r) == p = LastCommitted(r) \/ (p # None /\ r[p] = "commit_prepared")

\* A candidate is the newest generation, and each step of its transaction knows
\* its row and where the pointer stands.
RowsInv ==
    /\ Expected(pointer, row)
    /\ pointer # None => row[pointer] \in {"commit_prepared", "committed"}
    /\ \A g, h \in Gens : row[g] \in InFlight /\ g < h => row[h] = "none"
    /\ \A g \in Gens : row[g] # "none" => snapshot[g] # NoFile
    /\ pc \in Reserved => active # {}
    /\ pc \in {"files", "row"} => NextGeneration(gen)
    /\ pc = "row" => snapshot[gen] # NoFile /\ \A g \in Gens : row[g] \notin InFlight
    /\ pc \in {"install", "prepare", "publish", "finalize", "restore"} => gen \in Gens
    /\ pc = "install" => row[gen] = "pending"
    /\ pc = "prepare" => row[gen] = "applied"
    /\ pc = "publish" => row[gen] = "commit_prepared"
    /\ pc \in {"finalize", "restore"} => row[gen] \in InFlight
    /\ pc = "finalize" => pointer = gen
    /\ pc = "restore" => pointer # gen

\* What has been copied is still what the host has.
CopyInv ==
    /\ bpc \in PointerCopied => copy.pointer = pointer
    /\ bpc \in FilesCopied => copy.files = Artifacts
    /\ bpc \in RowsCopied => copy.row = row
    /\ bpc \in LedgerCopied => copy.alloc = alloc

\* A bundle restores, and the files its pointer names are never written again.
Restorable(b) ==
    /\ Expected(b.pointer, b.row)
    /\ b.pointer # None =>
         /\ b.pointer \in b.files /\ snapshot[b.pointer] # NoFile
         /\ snapshot[b.pointer] \subseteq b.alloc

BundlesInv == \A d \in Destinations : bundle[d] # NoBundle => Restorable(bundle[d])

BundleInv == LockInv /\ RowsInv /\ CopyInv /\ BundlesInv


\* Whoever has the lock keeps the daemon out: it can only open the ledger.
LEMMA LockedOut ==
    ASSUME pc = "free", lock # "free", LedgerNext
    PROVE  CreateLedger \/ InitializeLedger
  BY DEF LedgerNext, MergeFrom, StartCompile, AuditForeign, Reserve, Compile, WriteFiles,
         InsertRow, InstallCandidate, StartCommit, StartRollback, PrepareCommit,
         PublishPointer, FinalizeCommit, Restore, Reconcile, Die

LEMMA LockDaemon ==
    ASSUME LockInv, LedgerNext, UNCHANGED <<backupVars, migration>>
    PROVE  LockInv'
  <1>1. UNCHANGED <<bpc, mpc>>
    BY DEF backupVars, backup, migration
  <1>2. CASE pc = "free" /\ lock # "free"
    <2>1. UNCHANGED <<pc, lock>>
      BY <1>2, LockedOut DEF CreateLedger, InitializeLedger, session
    <2> QED BY <1>1, <2>1 DEF LockInv
  <1>3. CASE pc # "free" \/ lock = "free"
    <2>1. mpc = "idle" /\ bpc \notin Copying
      BY <1>3 DEF LockInv
    <2>2. pc' # "free" => lock' \in {"plan", "apply", "commit", "rollback"}
      BY <1>3 DEF LockInv, LedgerNext, CreateLedger, InitializeLedger, MergeFrom, StartCompile,
             AuditForeign, Reserve, Compile, WriteFiles, InsertRow, InstallCandidate,
             StartCommit, StartRollback, PrepareCommit, PublishPointer, FinalizeCommit, Restore,
             Reconcile, Die, session, Return, Goto
    <2> QED BY <1>1, <2>1, <2>2 DEF LockInv
  <1> QED BY <1>2, <1>3

\* A backup takes the lock when it is free and releases it when it ends.
LEMMA LockBackups ==
    ASSUME LockInv, BackupNext, UNCHANGED migration
    PROVE  LockInv'
  <1>1. UNCHANGED <<pc, mpc>>
    BY BackupLeaves DEF migration
  <1>2. \/ EndBackup
        \/ UNCHANGED lock /\ (bpc' \in Copying => bpc \in Copying)
        \/ lock = "free" /\ lock' = "backup"
    BY DEF BackupNext, StartBackup, LockBackup, CopyPointer, CopyFiles, CopyState, CopyLedger,
           VerifyBundle, PublishBundle, SyncBundle, DieBackup, Copied, Continue, ledgerVars,
           session, Copying, PointerCopied, FilesCopied, RowsCopied, LedgerCopied
  <1>3. CASE EndBackup
    <2>1. bpc' \notin Copying
      BY <1>3 DEF EndBackup, Copying, PointerCopied, FilesCopied, RowsCopied, LedgerCopied
    <2>2. lock' = lock \/ lock = "backup"
      BY <1>3 DEF EndBackup
    <2> QED BY <1>1, <2>1, <2>2 DEF LockInv
  <1>4. CASE UNCHANGED lock /\ (bpc' \in Copying => bpc \in Copying)
    BY <1>1, <1>4 DEF LockInv
  <1>5. CASE lock = "free" /\ lock' = "backup"
    BY <1>1, <1>5 DEF LockInv
  <1> QED BY <1>2, <1>3, <1>4, <1>5

\* A migration holds the lock from its start to its end.
LEMMA LockMigration ==
    ASSUME LockInv, MigrationStep
    PROVE  LockInv'
  <1>1. UNCHANGED <<pc, bpc>>
    BY DEF MigrationStep, backupVars, backup
  <1>2. \/ UNCHANGED lock /\ (mpc' # "idle" => mpc # "idle")
        \/ lock = "free" /\ lock' = "migrate"
        \/ mpc # "idle" /\ mpc' = "idle"
    <2> USE DEF Migration!Leave, Migration!Proceed, Migration!shared
    <2>1. CASE \/ \E n \in BackupNames : Migration!StartMigration(n)
               \/ Migration!DieMigration \/ Migration!WriteSource \/ Migration!OpenState
      BY <2>1 DEF Migration!StartMigration, Migration!DieMigration, Migration!WriteSource,
                  Migration!OpenState
    <2>2. CASE \/ Migration!CheckPaths \/ Migration!InspectSource \/ Migration!ReadAgain
               \/ Migration!CheckBackup \/ Migration!CheckUnchanged
      BY <2>2 DEF Migration!CheckPaths, Migration!InspectSource, Migration!ReadAgain,
                  Migration!CheckBackup, Migration!CheckUnchanged, Migration!Decides
    <2>3. CASE Migration!HashSource \/ Migration!CopySource
      BY <2>3 DEF Migration!HashSource, Migration!CopySource, Migration!ReadPage
    <2>4. CASE \/ Migration!LinkBackup \/ Migration!CreateWork \/ Migration!MigrateWork
               \/ Migration!PublishWork
      BY <2>4 DEF Migration!LinkBackup, Migration!CreateWork, Migration!MigrateWork,
                  Migration!PublishWork
    <2> QED BY <2>1, <2>2, <2>3, <2>4 DEF MigrationStep, Migration!MigrationNext
  <1> QED BY <1>1, <1>2 DEF LockInv

\* So the lock has one holder.
LEMMA LockPreserved == ASSUME LockInv, [Next]_vars PROVE LockInv'
  <1>1. CASE DaemonStep
    BY <1>1, LockDaemon DEF DaemonStep
  <1>2. CASE BackupStep
    BY <1>2, LockBackups DEF BackupStep
  <1>3. CASE RebootHost
    BY <1>3 DEF RebootHost, Reboot, Return, LockInv, Copying, PointerCopied, FilesCopied,
                RowsCopied, LedgerCopied
  <1>4. CASE UNCHANGED vars
    BY <1>4 DEF vars, ledgerVars, session, backupVars, backup, migration, LockInv
  <1> QED BY <1>1, <1>2, <1>3, <1>4, LockMigration DEF Next

\* The newest committed generation depends on nothing but which are committed.
LEMMA LastSame ==
    ASSUME NEW r, NEW s, \A g \in Gens : r[g] = "committed" <=> s[g] = "committed"
    PROVE  LastCommitted(r) = LastCommitted(s)
  <1> DEFINE Newest(c) == IF c = {} THEN None ELSE CHOOSE g \in c : \A h \in c : h <= g
             A == {g \in Gens : r[g] = "committed"}
             B == {g \in Gens : s[g] = "committed"}
  <1>1. A = B
    OBVIOUS
  <1>2. LastCommitted(r) = Newest(A) /\ LastCommitted(s) = Newest(B)
    BY DEF LastCommitted
  <1> HIDE DEF Newest, A, B
  <1> QED BY <1>1, <1>2

\* A committed generation that no other is newer than is the newest one.
LEMMA LastIs ==
    ASSUME NEW r, NEW g \in Gens, r[g] = "committed",
           \A h \in Gens : r[h] = "committed" => h <= g
    PROVE  LastCommitted(r) = g
  <1> DEFINE committed == {h \in Gens : r[h] = "committed"}
  <1>1. g \in committed /\ \A h \in committed : h <= g
    OBVIOUS
  <1>2. \A x \in committed : (\A h \in committed : h <= x) => x = g
    BY <1>1 DEF Gens
  <1>3. LastCommitted(r) = CHOOSE x \in committed : \A h \in committed : h <= x
    BY <1>1 DEF LastCommitted
  <1> HIDE DEF committed
  <1> QED BY <1>1, <1>2, <1>3

\* What RowsInv says when no transaction runs.
Settled(p, r, s) ==
    /\ Expected(p, r)
    /\ p # None => r[p] \in {"commit_prepared", "committed"}
    /\ \A g, h \in Gens : r[g] \in InFlight /\ g < h => r[h] = "none"
    /\ \A g \in Gens : r[g] # "none" => s[g] # NoFile

\* The generations are settled between the steps.
LEMMA SettledNow == ASSUME RowsInv PROVE Settled(pointer, row, snapshot)
  BY DEF RowsInv, Settled

\* A transaction that ends, or none.
LEMMA RowsReturn ==
    ASSUME Settled(pointer', row', snapshot'), pc' = "free"
    PROVE  RowsInv'
  BY DEF Settled, Expected, RowsInv, Reserved, LastCommitted

\* A step that touches neither the generations nor the transaction.
LEMMA RowsFrame ==
    ASSUME RowsInv, UNCHANGED <<pointer, row, snapshot, pc, active, gen>>
    PROVE  RowsInv'
  BY DEF RowsInv, Expected, LastCommitted, NextGeneration

\* A row of a transaction becomes something else than committed.
LEMMA RowSettled ==
    ASSUME Settled(pointer, row, snapshot), row \in [Gens -> Statuses],
           pointer \in Gens \cup {None}, NEW g \in Gens,
           NEW status \in {"pending", "applied", "commit_prepared", "rolled_back"},
           row[g] # "committed", row[g] = "commit_prepared" => pointer # g,
           row[g] \in InFlight
             \/ (\A h \in Gens : row[h] \notin InFlight /\ (g < h => row[h] = "none")),
           snapshot[g] # NoFile
    PROVE  Settled(pointer, [row EXCEPT ![g] = status], snapshot)
  <1> DEFINE r == [row EXCEPT ![g] = status]
  <1>1. r[g] = status /\ \A h \in Gens : h # g => r[h] = row[h]
    OBVIOUS
  <1> HIDE DEF r
  <1>2. pointer # None => pointer # g
    BY DEF Settled
  <1>3. LastCommitted(r) = LastCommitted(row)
    BY <1>1, LastSame
  <1>4. Expected(pointer, r)
    <2>1. CASE pointer = LastCommitted(row)
      BY <1>3, <2>1 DEF Expected
    <2>2. CASE pointer # None /\ row[pointer] = "commit_prepared"
      <3>1. pointer \in Gens
        BY <2>2
      <3> QED BY <1>1, <1>2, <2>2, <3>1 DEF Expected
    <2> QED BY <2>1, <2>2 DEF Settled, Expected
  <1>5. \A h, i \in Gens : r[h] \in InFlight /\ h < i => r[i] = "none"
    BY <1>1 DEF Settled, InFlight, Gens
  <1>6. pointer # None => r[pointer] \in {"commit_prepared", "committed"}
    BY <1>1, <1>2 DEF Settled
  <1>7. \A h \in Gens : r[h] # "none" => snapshot[h] # NoFile
    BY <1>1 DEF Settled
  <1>8. Settled(pointer, r, snapshot)
    BY <1>4, <1>5, <1>6, <1>7 DEF Settled
  <1> QED BY <1>8 DEF r

\* The steps that end the transaction or leave the generations alone.
LEMMA RowsQuiet ==
    ASSUME RowsInv, LedgerTypeOK,
           \/ CreateLedger \/ InitializeLedger \/ (\E saved \in Saved : MergeFrom(saved))
           \/ StartCompilation \/ AuditForeign \/ Reserve \/ Compile
           \/ (\E g \in Gens : StartCommit(g) \/ StartRollback(g))
           \/ Reconcile \/ Die
    PROVE  RowsInv'
  <1>1. UNCHANGED <<pointer, row, snapshot>>
    BY DEF CreateLedger, InitializeLedger, MergeFrom, StartCompilation, StartCompile,
           AuditForeign, Reserve, Compile, StartCommit, StartRollback, Reconcile, Die, generations
  <1>2. Settled(pointer', row', snapshot')
    BY <1>1, SettledNow
  <1>3. CASE pc' = "free"
    BY <1>2, <1>3, RowsReturn
  <1>4. CASE UNCHANGED <<pc, active, gen>>
    BY <1>1, <1>4, RowsFrame
  <1>5. CASE pc' \in {"audit", "reserve"}
    BY <1>1, <1>2, <1>5
       DEF RowsInv, Settled, Reserved, Expected, LastCommitted
  <1>6. CASE pc' = "compile" /\ active' # {}
    BY <1>1, <1>2, <1>6
       DEF RowsInv, Settled, Reserved, Expected, LastCommitted
  <1>7. CASE pc' = "files" /\ active' # {} /\ NextGeneration(gen')
    BY <1>1, <1>2, <1>7
       DEF RowsInv, Settled, Reserved, Expected, LastCommitted, NextGeneration
  <1>8. CASE \E g \in Gens : StartCommit(g) \/ StartRollback(g)
    <2>1. PICK g \in Gens : StartCommit(g) \/ StartRollback(g)
      BY <1>8
    <2>2. \/ pc' = "prepare" /\ row[g] = "applied" /\ gen' = g
          \/ pc' = "finalize" /\ row[g] \in InFlight /\ gen' = g /\ pointer = g
          \/ pc' = "restore" /\ row[g] \in InFlight /\ gen' = g /\ pointer # g
      BY <2>1 DEF StartCommit, StartRollback
    <2> QED BY <1>1, <1>2, <2>2 DEF RowsInv, Settled, Reserved, Expected, LastCommitted
  <1>9. \/ pc' = "free" \/ UNCHANGED <<pc, active, gen>> \/ pc' \in {"audit", "reserve"}
        \/ pc' = "compile" /\ active' # {}
        \/ pc' = "files" /\ active' # {} /\ NextGeneration(gen')
        \/ \E g \in Gens : StartCommit(g) \/ StartRollback(g)
    <2>1. pc = "compile" => active # {}
      BY DEF RowsInv, Reserved
    <2> QED BY <2>1 DEF CreateLedger, InitializeLedger, MergeFrom, StartCompilation, StartCompile,
                        AuditForeign, Reserve, Compile, Reconcile, Die, session, Return, Goto,
                        ValidateActive
  <1> QED BY <1>3, <1>4, <1>5, <1>6, <1>7, <1>8, <1>9

\* The files of the next generation are written.
LEMMA RowsWrite == ASSUME RowsInv, LedgerTypeOK, WriteFiles PROVE RowsInv'
  <1>1. UNCHANGED <<pointer, row>> /\ NextGeneration(gen) /\ gen \in Gens /\ active # NoFile
    BY DEF WriteFiles, RowsInv, Reserved, NextGeneration, NoFile
  <1>2. \A g \in Gens : snapshot'[g] = snapshot[g] \/ snapshot'[g] = active
    BY <1>1 DEF WriteFiles, LedgerTypeOK
  <1>3. Settled(pointer', row', snapshot')
    BY <1>1, <1>2, SettledNow DEF Settled
  <1>4. CASE pc' = "free"
    BY <1>3, <1>4, RowsReturn
  <1>5. CASE pc' # "free"
    <2>1. /\ pc' = "row" /\ UNCHANGED <<gen, active>>
          /\ \A g \in Gens : row[g] \notin InFlight
          /\ snapshot' = [snapshot EXCEPT ![gen] = active]
      BY <1>5 DEF WriteFiles, Return, Goto
    <2>2. snapshot'[gen] = active
      BY <1>1, <2>1 DEF LedgerTypeOK
    <2> QED BY <1>1, <1>3, <2>1, <2>2
            DEF RowsInv, Settled, Reserved, Expected, LastCommitted, NextGeneration, NoFile
  <1> QED BY <1>4, <1>5

\* A row is inserted or moves on; none becomes committed.
LEMMA RowsMove ==
    ASSUME RowsInv, LedgerTypeOK, InsertRow \/ InstallCandidate \/ PrepareCommit \/ Restore
    PROVE  RowsInv'
  <1>1. UNCHANGED <<pointer, snapshot>>
    BY DEF InsertRow, InstallCandidate, PrepareCommit, Restore
  <1>2. gen \in Gens
    BY DEF RowsInv, InsertRow, InstallCandidate, PrepareCommit, Restore, NextGeneration
  <1>3. /\ row[gen] # "committed" /\ (row[gen] = "commit_prepared" => pointer # gen)
        /\ \/ row[gen] \in InFlight
           \/ \A h \in Gens : row[h] \notin InFlight /\ (gen < h => row[h] = "none")
        /\ snapshot[gen] # NoFile
    <2>1. CASE pc = "row"
      <3>1. NextGeneration(gen) /\ snapshot[gen] # NoFile /\ \A h \in Gens : row[h] \notin InFlight
        BY <2>1 DEF RowsInv
      <3>2. row[gen] = "none" /\ \A h \in Gens : gen < h => row[h] = "none"
        BY <1>2, <3>1 DEF NextGeneration, Gens
      <3> QED BY <3>1, <3>2
    <2>2. CASE pc \in {"install", "prepare", "restore"}
      BY <1>2, <2>2 DEF RowsInv, InFlight
    <2> QED BY <2>1, <2>2 DEF InsertRow, InstallCandidate, PrepareCommit, Restore
  <1>4. \A status \in {"pending", "applied", "commit_prepared", "rolled_back"} :
            SetRow(status) => Settled(pointer', row', snapshot') /\ row'[gen] = status
    BY <1>1, <1>2, <1>3, SettledNow, RowSettled DEF SetRow, LedgerTypeOK
  <1>5. UNCHANGED row => Settled(pointer', row', snapshot')
    BY <1>1, SettledNow
  <1>6. CASE pc' = "free"
    <2>1. \/ UNCHANGED row
          \/ \E status \in {"pending", "applied", "commit_prepared", "rolled_back"} : SetRow(status)
      BY DEF InsertRow, InstallCandidate, PrepareCommit, Restore
    <2> QED BY <1>4, <1>5, <1>6, <2>1, RowsReturn
  <1>7. CASE pc = "row" /\ SetRow("pending") /\ Goto("install")
    <2>1. pc' = "install" /\ UNCHANGED <<gen, active>> /\ active # {}
      BY <1>7 DEF Goto, RowsInv, Reserved
    <2>2. Settled(pointer', row', snapshot') /\ row'[gen] = "pending"
      BY <1>4, <1>7
    <2> QED BY <1>2, <2>1, <2>2 DEF RowsInv, Settled, Expected, LastCommitted
  <1>8. CASE pc = "install" /\ UNCHANGED row /\ Goto("restore")
    <2>1. pc' = "restore" /\ UNCHANGED <<gen, active>> /\ row[gen] = "pending"
      BY <1>8 DEF Goto, RowsInv
    <2>2. Settled(pointer', row', snapshot')
      BY <1>5, <1>8
    <2>3. pointer # gen
      BY <1>2, <2>1 DEF RowsInv, None, Gens
    <2> QED BY <1>1, <1>2, <1>8, <2>1, <2>2, <2>3
            DEF RowsInv, Settled, Expected, LastCommitted, Reserved, InFlight
  <1>9. CASE pc = "prepare" /\ SetRow("commit_prepared") /\ Goto("publish")
    <2>1. pc' = "publish" /\ UNCHANGED <<gen, active>>
      BY <1>9 DEF Goto
    <2>2. Settled(pointer', row', snapshot') /\ row'[gen] = "commit_prepared"
      BY <1>4, <1>9
    <2> QED BY <1>2, <2>1, <2>2 DEF RowsInv, Settled, Expected, LastCommitted, Reserved
  <1> QED BY <1>6, <1>7, <1>8, <1>9
          DEF InsertRow, InstallCandidate, PrepareCommit, Restore, Return

\* The pointer goes to the prepared generation.
LEMMA RowsPublish == ASSUME RowsInv, LedgerTypeOK, PublishPointer PROVE RowsInv'
  <1>1. /\ UNCHANGED <<row, snapshot>> /\ gen \in Gens /\ row[gen] = "commit_prepared"
        /\ pointer' = pointer \/ pointer' = gen
    BY DEF PublishPointer, RowsInv
  <1>2. Settled(pointer', row', snapshot')
    <2>1. gen # None
      BY <1>1 DEF Gens, None
    <2>2. CASE pointer' = gen
      BY <1>1, <2>1, <2>2, SettledNow DEF Settled, Expected
    <2>3. CASE pointer' = pointer
      BY <1>1, <2>3, SettledNow
    <2> QED BY <1>1, <2>2, <2>3
  <1>3. CASE pc' = "free"
    BY <1>2, <1>3, RowsReturn
  <1>4. CASE pc' # "free"
    <2>1. pc' = "finalize" /\ UNCHANGED <<gen, active>> /\ pointer' = gen
      BY <1>4 DEF PublishPointer, Return, Goto
    <2> QED BY <1>1, <1>2, <2>1
            DEF RowsInv, Settled, Expected, LastCommitted, Reserved, InFlight
  <1> QED BY <1>3, <1>4

\* The candidate that is committed is the newest generation.
LEMMA RowsFinalize == ASSUME RowsInv, LedgerTypeOK, FinalizeCommit PROVE RowsInv'
  <1>1. /\ UNCHANGED <<pointer, snapshot>> /\ pc' = "free"
        /\ gen \in Gens /\ row[gen] \in InFlight /\ pointer = gen
    BY DEF FinalizeCommit, RowsInv, Return
  <1>2. CASE UNCHANGED row
    BY <1>1, <1>2, SettledNow, RowsReturn
  <1>3. CASE SetRow("committed")
    <2>1. row'[gen] = "committed" /\ \A h \in Gens : h # gen => row'[h] = row[h]
      BY <1>1, <1>3 DEF SetRow, LedgerTypeOK
    <2>2. \A h \in Gens : gen < h => row[h] = "none"
      BY <1>1 DEF RowsInv
    <2>3. \A h \in Gens : row'[h] = "committed" => h <= gen
      BY <1>1, <2>1, <2>2 DEF Gens
    <2>4. LastCommitted(row') = gen
      BY <1>1, <2>1, <2>3, LastIs
    <2>5. \A g, h \in Gens : row'[g] \in InFlight /\ g < h => row'[h] = "none"
      BY <1>1, <2>1 DEF RowsInv, InFlight
    <2>6. \A g \in Gens : row'[g] # "none" => snapshot[g] # NoFile
      BY <1>1, <2>1 DEF RowsInv, InFlight
    <2>7. Settled(pointer', row', snapshot')
      BY <1>1, <2>1, <2>4, <2>5, <2>6 DEF Settled, Expected
    <2> QED BY <1>1, <2>7, RowsReturn
  <1> QED BY <1>2, <1>3 DEF FinalizeCommit

\* The rows and the pointer, for every step of the host.
LEMMA RowsPreserved == ASSUME RowsInv, LedgerTypeOK, [Next]_vars PROVE RowsInv'
  <1>1. CASE DaemonStep
    BY <1>1, RowsQuiet, RowsWrite, RowsMove, RowsPublish, RowsFinalize
       DEF DaemonStep, LedgerNext, StartCompilation
  <1>2. CASE BackupStep
    BY <1>2, BackupLeaves, RowsFrame DEF BackupStep, generations
  <1>3. CASE MigrationStep \/ UNCHANGED vars
    BY <1>3, RowsFrame DEF MigrationStep, vars, ledgerVars, session, generations
  <1>4. CASE RebootHost
    BY <1>4, SettledNow, RowsReturn DEF RebootHost, Reboot, Return
  <1> QED BY <1>1, <1>2, <1>3, <1>4 DEF Next

\* While a backup copies, what it copies stands still.
LEMMA CopyStill ==
    ASSUME LockInv, CopyInv, UNCHANGED <<bpc, copy>>,
           LedgerNext \/ UNCHANGED <<pointer, snapshot, row, alloc>>
    PROVE  CopyInv'
  <1>1. CASE bpc \in Copying
    <2>1. UNCHANGED <<pointer, snapshot, row, alloc>>
      BY <1>1, LockedOut DEF LockInv, CreateLedger, InitializeLedger, generations
    <2>2. Artifacts' = Artifacts
      BY <2>1 DEF Artifacts
    <2> QED BY <2>1, <2>2 DEF CopyInv
  <1>2. CASE bpc \notin Copying
    BY <1>2 DEF CopyInv, Copying, PointerCopied, FilesCopied, RowsCopied
  <1> QED BY <1>1, <1>2

\* Each copy is what the host has, and the later ones leave it alone.
LEMMA CopyBackups ==
    ASSUME LedgerTypeOK, BackupTypeOK, CopyInv, BackupNext
    PROVE  CopyInv'
  <1>1. UNCHANGED <<pointer, snapshot, row, alloc>> /\ Artifacts' = Artifacts
    BY BackupLeaves DEF generations, Artifacts
  <1>2. \/ bpc' \in {"idle", "lock", "pointer"}
        \/ UNCHANGED copy /\ bpc \in LedgerCopied /\ bpc' \in LedgerCopied
        \/ bpc = "pointer" /\ bpc' = "files" /\ copy' = [copy EXCEPT !["pointer"] = pointer]
        \/ bpc = "files" /\ bpc' = "state" /\ copy' = [copy EXCEPT !["files"] = Artifacts]
        \/ bpc = "state" /\ bpc' = "ledger" /\ copy' = [copy EXCEPT !["row"] = row]
        \/ bpc = "ledger" /\ bpc' = "verify" /\ copy' = [copy EXCEPT !["alloc"] = alloc]
    BY DEF BackupNext, StartBackup, LockBackup, CopyPointer, CopyFiles, CopyState, CopyLedger,
           VerifyBundle, PublishBundle, SyncBundle, DieBackup, Copied, EndBackup, Continue,
           LedgerCopied
  <1> USE DEF PointerCopied, FilesCopied, RowsCopied, LedgerCopied
  <1>3. CASE bpc' \in {"idle", "lock", "pointer"}
    BY <1>3 DEF CopyInv
  <1>4. CASE UNCHANGED copy /\ bpc \in LedgerCopied /\ bpc' \in LedgerCopied
    BY <1>1, <1>4 DEF CopyInv
  <1>5. CASE bpc = "pointer" /\ bpc' = "files" /\ copy' = [copy EXCEPT !["pointer"] = pointer]
    <2>1. copy'.pointer = pointer
      BY <1>5 DEF BackupTypeOK, Copies
    <2> QED BY <1>1, <1>5, <2>1 DEF CopyInv
  <1>6. CASE bpc = "files" /\ bpc' = "state" /\ copy' = [copy EXCEPT !["files"] = Artifacts]
    <2>1. copy'.files = Artifacts /\ copy'.pointer = copy.pointer
      BY <1>6 DEF BackupTypeOK, Copies
    <2> QED BY <1>1, <1>6, <2>1 DEF CopyInv
  <1>7. CASE bpc = "state" /\ bpc' = "ledger" /\ copy' = [copy EXCEPT !["row"] = row]
    <2>1. copy'.row = row /\ copy'.files = copy.files /\ copy'.pointer = copy.pointer
      BY <1>7 DEF BackupTypeOK, Copies
    <2> QED BY <1>1, <1>7, <2>1 DEF CopyInv
  <1>8. CASE bpc = "ledger" /\ bpc' = "verify" /\ copy' = [copy EXCEPT !["alloc"] = alloc]
    <2>1. /\ copy'.alloc = alloc /\ copy'.row = copy.row /\ copy'.files = copy.files
          /\ copy'.pointer = copy.pointer
      BY <1>8 DEF BackupTypeOK, Copies
    <2> QED BY <1>1, <1>8, <2>1 DEF CopyInv
  <1> QED BY <1>2, <1>3, <1>4, <1>5, <1>6, <1>7, <1>8

\* The copies, for every step of the host.
LEMMA CopyPreserved ==
    ASSUME TypeOK, LockInv, CopyInv, [Next]_vars
    PROVE  CopyInv'
  <1>1. CASE DaemonStep
    BY <1>1, CopyStill DEF DaemonStep, backupVars, backup
  <1>2. CASE BackupStep
    BY <1>2, CopyBackups DEF BackupStep, TypeOK
  <1>3. CASE MigrationStep \/ UNCHANGED vars
    BY <1>3, CopyStill DEF MigrationStep, vars, ledgerVars, ledger, generations, backupVars, backup
  <1>4. CASE RebootHost
    BY <1>4 DEF RebootHost, CopyInv, PointerCopied, FilesCopied, RowsCopied, LedgerCopied
  <1> QED BY <1>1, <1>2, <1>3, <1>4 DEF Next

\* The files that a bundle's pointer names are not written again: WriteFiles
\* accepts a file that is there only with the same content.
LEMMA FilesStay ==
    ASSUME LedgerTypeOK, [Next]_vars, NEW g \in Gens, snapshot[g] # NoFile
    PROVE  snapshot'[g] = snapshot[g]
  <1>1. CASE WriteFiles
    BY <1>1 DEF WriteFiles, LedgerTypeOK
  <1>2. CASE UNCHANGED snapshot
    BY <1>2
  <1>3. CASE DaemonStep
    BY <1>1, <1>2, <1>3
       DEF DaemonStep, LedgerNext, CreateLedger, InitializeLedger, MergeFrom, StartCompile,
           AuditForeign, Reserve, Compile, InsertRow, InstallCandidate, StartCommit,
           StartRollback, PrepareCommit, PublishPointer, FinalizeCommit, Restore, Reconcile,
           Die, generations
  <1>4. CASE BackupStep
    BY <1>2, <1>4, BackupLeaves DEF BackupStep, generations
  <1>5. CASE MigrationStep \/ RebootHost \/ UNCHANGED vars
    BY <1>2, <1>5 DEF MigrationStep, RebootHost, Reboot, vars, ledgerVars, generations
  <1> QED BY <1>3, <1>4, <1>5 DEF Next

\* A bundle that is complete is one state of the host, and stays restorable.
LEMMA BundlesPreserved ==
    ASSUME TypeOK, LedgerInv, RowsInv, CopyInv, BundlesInv, [Next]_vars
    PROVE  BundlesInv'
  <1>1. \/ UNCHANGED bundle
        \/ bpc = "rename" /\ bundle' = [bundle EXCEPT ![to] = copy]
    <2>1. CASE BackupStep
      BY <2>1 DEF BackupStep, BackupNext, StartBackup, LockBackup, CopyPointer, CopyFiles,
                  CopyState, CopyLedger, VerifyBundle, PublishBundle, SyncBundle, DieBackup, Copied
    <2>2. CASE DaemonStep \/ MigrationStep \/ RebootHost \/ UNCHANGED vars
      BY <2>2 DEF DaemonStep, MigrationStep, RebootHost, vars, backupVars
    <2> QED BY <2>1, <2>2 DEF Next
  <1>2. ASSUME NEW b \in Copies, Restorable(b)
        PROVE  Restorable(b)'
    <2>1. b.pointer # None => b.pointer \in Gens
      BY DEF Copies
    <2>2. b.pointer # None => snapshot'[b.pointer] = snapshot[b.pointer]
      BY <1>2, <2>1, FilesStay DEF Restorable, TypeOK
    <2> QED BY <1>2, <2>2 DEF Restorable, Expected, LastCommitted
  <1>3. bpc = "rename" => copy \in Copies /\ Restorable(copy)
    <2> SUFFICES ASSUME bpc = "rename" PROVE copy \in Copies /\ Restorable(copy)
      OBVIOUS
    <2>1. /\ copy.pointer = pointer /\ copy.files = Artifacts /\ copy.row = row
          /\ copy.alloc = alloc
      BY DEF CopyInv, PointerCopied, FilesCopied, RowsCopied, LedgerCopied
    <2>2. pointer # None => pointer \in Gens /\ snapshot[pointer] # NoFile
                            /\ snapshot[pointer] \subseteq alloc
      BY DEF LedgerInv, RowsInv
    <2>3. Restorable(copy)
      BY <2>1, <2>2 DEF Restorable, RowsInv, Artifacts
    <2> QED BY <2>3 DEF TypeOK, BackupTypeOK
  <1>4. \A d \in Destinations :
            bundle'[d] = bundle[d] \/ (bpc = "rename" /\ bundle'[d] = copy)
    BY <1>1 DEF TypeOK, BackupTypeOK
  <1>5. SUFFICES ASSUME NEW d \in Destinations, bundle'[d] # NoBundle
                 PROVE  Restorable(bundle[d])'
    BY DEF BundlesInv
  <1>6. bundle'[d] \in Copies /\ Restorable(bundle'[d])
    <2>1. CASE bundle'[d] = bundle[d]
      BY <1>5, <2>1 DEF BundlesInv, TypeOK, BackupTypeOK
    <2>2. CASE bpc = "rename" /\ bundle'[d] = copy
      BY <1>3, <2>2
    <2> QED BY <1>4, <2>1, <2>2
  <1> QED BY <1>2, <1>6 DEF Restorable, Expected, LastCommitted

\* There are no bundles, rows or transactions in the beginning.
LEMMA BundleInitial == ASSUME Init PROVE BundleInv
  <1>1. LockInv /\ CopyInv /\ BundlesInv
    BY DEF Init, LedgerInit, BackupInit, Migration!MigrationInit, LockInv, CopyInv, BundlesInv,
           Copying, PointerCopied, FilesCopied, RowsCopied, LedgerCopied
  <1>2. pointer = LastCommitted(row)
    BY DEF Init, LedgerInit, LastCommitted
  <1>3. RowsInv
    BY <1>2 DEF Init, LedgerInit, RowsInv, Expected, InFlight, Reserved
  <1> QED BY <1>1, <1>3 DEF BundleInv

\* A bundle is one state of the host although it is copied in pieces: its rows
\* and its pointer agree, and the files and the assignments of the pointer's
\* generation are in it, for any number of generations, bundles and failures.
THEOREM BundlesRestore == Spec => []BundleRestorable
  <1>1. Init => BundleInv
    BY BundleInitial
  <1>2. TypeOK /\ LedgerInv /\ BundleInv /\ [Next]_vars => BundleInv'
    BY LockPreserved, RowsPreserved, CopyPreserved, BundlesPreserved DEF BundleInv, TypeOK
  <1>3. BundleInv => BundleRestorable
    BY DEF BundleInv, BundlesInv, Restorable, Expected, BundleRestorable
  <1> QED BY <1>1, <1>2, <1>3, OperatorTypes, LedgerHolds, PTL DEF Spec
=============================================================================
