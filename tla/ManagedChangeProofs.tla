------------------------- MODULE ManagedChangeProofs -------------------------
(***************************************************************************)
(* The managed change for any number of policies, generations and faults,  *)
(* with commits that are accepted behind the client's back: a file that    *)
(* differs from the policy in force belongs to a running journal, and a    *)
(* running journal has its backups.                                        *)
(***************************************************************************)
EXTENDS ManagedChange, TLAPS

\* The steps between the backups and the journal, those that work on a running
\* journal, and those after its final status.
BeforeJournal == {"backup_config", "prepared"}
Forwards == {"put_intent", "put_config", "published", "apply", "applied", "health",
             "commit", "finish"}
Backwards == {"rollback", "restore_intent", "restore_config", "rolled_back"}
Owning == Forwards \cup Backwards \cup {"status", "forward"}
Cleaning == {"clean_intent", "clean_config", "clean_journal"}

\* The register's numbers: what is in force or tried has been proposed.
RegisterInv ==
    /\ current \in used
    /\ candidate # None => candidate \in used
    /\ candidate # current
    /\ lateCommit # None => lateCommit \in used

\* What a running journal says of the generations: the policy in force is the
\* old one, or the journalled generation made it the new one.
JournalInv ==
    journal.status = "running" =>
        /\ journal.oldI = journal.oldC
        /\ oldIntent = journal.oldI /\ oldConfig = journal.oldC
        /\ journal.gen # None =>
              journal.gen \in used /\ content[journal.gen] = journal.new
        /\ journal.gen # current => content[current] = journal.oldI

\* A late commit can only hit the generation of a running journal.
LateInv ==
    lateCommit # None /\ lateCommit = candidate =>
        journal.status = "running" /\ journal.gen = lateCommit

\* What the command knows before it has written the journal.
PreparingInv ==
    /\ pc = "begin" => want \in Policies
    /\ pc \in BeforeJournal =>
          /\ journal.status = "absent"
          /\ rec.status = "running" /\ rec.gen = None
          /\ rec.oldI = intent /\ rec.oldC = config /\ oldIntent = rec.oldI
          /\ pc = "prepared" => oldConfig = rec.oldC

\* Its record is the journal, except for a generation not yet written there.
RecordInv ==
    /\ pc \in Owning =>
          /\ journal.status = "running" /\ rec.status = "running"
          /\ rec.oldI = journal.oldI /\ rec.oldC = journal.oldC /\ rec.new = journal.new
          /\ rec.gen = journal.gen \/ journal.gen = None
          /\ rec.gen # None => rec.gen \in used /\ content[rec.gen] = rec.new
    /\ pc \in {"put_intent", "put_config", "published", "apply"} => rec.gen = None
    /\ pc \in {"applied", "health", "commit", "finish"} => rec.gen # None
    /\ pc \in {"health", "commit", "finish", "status", "forward"} => rec.gen = journal.gen
    /\ pc \in Cleaning => journal.status # "running"

\* What it knows of the files and the generations.
FilesInv ==
    /\ pc \in {"published", "apply", "applied", "health", "commit", "finish", "forward"} =>
          intent = rec.new /\ config = rec.new
    /\ pc = "put_config" => intent = rec.new
    /\ pc \in {"finish", "forward"} => current = rec.gen
    /\ pc \in {"restore_config", "rolled_back"} => intent = rec.oldI
    /\ pc = "rolled_back" => config = rec.oldC /\ ~failed
    /\ pc \in Backwards \ {"rollback"} /\ ~failed =>
          journal.gen # current /\ (candidate # None => candidate # journal.gen)

JournalSide == NoUnjournaledChange /\ RegisterInv /\ JournalInv /\ LateInv
CommandSide == PreparingInv /\ RecordInv /\ FilesInv

\* The inductive invariant.
ChangeInv == TypeOK /\ JournalSide /\ CommandSide

-----------------------------------------------------------------------------
(* Facts about records, statuses and the building blocks. *)

\* A journal that exists is a full record, and the one a change starts with is one.
LEMMA RecordFacts ==
    /\ NoRecord \in Records /\ NoRecord.status = "absent" /\ NoRecord.gen = None
    /\ \A r \in Records : r.status # "absent" => r \in Full
    /\ \A r \in Full :
          /\ r \in Records /\ r.oldI \in Policies /\ r.oldC \in Policies /\ r.new \in Policies
          /\ r.gen \in Gens \cup {None} /\ r.status # "absent"
    /\ \A i, c, n \in Policies :
          [status |-> "running", gen |-> None, oldI |-> i, oldC |-> c, new |-> n] \in Records
  BY ConstantsAssumption DEF Records, Full, NoRecord, Gens, None

\* Giving a record its final status changes nothing else.
LEMMA FinalFacts ==
    ASSUME NEW r \in Full, NEW s \in {"complete", "rolled_back"}
    PROVE  /\ [r EXCEPT !.status = s] \in Records
           /\ [r EXCEPT !.status = s].status = s
           /\ [r EXCEPT !.status = s].gen = r.gen
  BY DEF Records, Full

\* Neither does entering the generation of the apply.
LEMMA GenFacts ==
    ASSUME NEW r \in Full, NEW g \in Gens
    PROVE  LET q == [r EXCEPT !.gen = g]
           IN  /\ q \in Records /\ q.gen = g /\ q.status = r.status
               /\ q.oldI = r.oldI /\ q.oldC = r.oldC /\ q.new = r.new
  BY DEF Records, Full

\* What the daemon answers about a generation, in terms of the register.
LEMMA StatusFacts ==
    ASSUME NEW g
    PROVE  /\ Status(g) = "rolled_back" <=> g # candidate /\ g # current
           /\ Status(g) = "committed" => g = current
           /\ g = current /\ g # candidate /\ finalized => Status(g) = "committed"
  BY DEF Status

\* The parts of TypeOK that a command's step and a daemon's step change.
SessionType ==
    /\ pc \in Labels /\ want \in Policies \cup {NoPolicy}
    /\ rec \in Records /\ failed \in BOOLEAN

DaemonType ==
    /\ current \in Gens /\ candidate \in Gens \cup {None} /\ used \in SUBSET Gens
    /\ content \in [Gens -> Policies] /\ finalized \in BOOLEAN

\* Moving on, returning and failing keep the types of what they change.
LEMMA GotoType == ASSUME NEW l \in Labels, SessionType, Goto(l) PROVE SessionType'
  BY DEF SessionType, Goto

\* Returning gives up the record.
LEMMA ReturnType == ASSUME Return PROVE SessionType'
  BY RecordFacts DEF SessionType, Return, Labels

\* A failure uses up one of the faults.
LEMMA FaultType == ASSUME faults \in Nat, Fault PROVE faults' \in Nat
  BY DEF Fault

\* An apply proposes a fresh generation that holds the configuration file.
LEMMA ProposeFacts ==
    ASSUME TypeOK, NEW g \in Gens, Propose(g)
    PROVE  /\ DaemonType'
           /\ g \notin used /\ used' = used \cup {g} /\ candidate' = g /\ current' = current
           /\ content'[g] = config
           /\ \A h \in used : content'[h] = content[h]
  BY DEF TypeOK, Propose, Acceptable, Daemon!Propose, DaemonType, Gens

\* A commit accepts the candidate and nothing else.
LEMMA AcceptFacts ==
    ASSUME TypeOK, NEW g \in Gens \cup {None}, Accept(g)
    PROVE  /\ DaemonType'
           /\ g = candidate /\ g # None
           /\ current' = g /\ candidate' = None
           /\ used' = used /\ content' = content
  BY ConstantsAssumption DEF TypeOK, Accept, Daemon!Accept, DaemonType, None

\* A rollback or an expiry takes the candidate away and nothing else.
LEMMA RejectFacts ==
    ASSUME TypeOK, NEW g, Reject(g)
    PROVE  /\ DaemonType'
           /\ g = candidate /\ g # None
           /\ candidate' = None /\ current' = current
           /\ used' = used /\ content' = content
  BY DEF TypeOK, Reject, Daemon!Reject, DaemonType, None

\* Recovery goes on with the journal it finds, back, forward or to the clean-up.
LEMMA RecoverFacts ==
    ASSUME TypeOK, NEW e, want' \in Policies \cup {NoPolicy}, Recover(e)
    PROVE  /\ SessionType'
           /\ \/ pc' = "free" \/ (pc' = "begin" /\ want' \in Policies)
              \/ pc' = "clean_intent" /\ journal.status # "running"
              \/ /\ pc' = "rollback" /\ rec' = journal
                 /\ journal.status = "running" /\ journal.gen = None
              \/ pc' = "status" /\ rec' = journal /\ journal.status = "running"
<1>1. journal.status \in {"absent", "running", "complete", "rolled_back"}
  BY DEF TypeOK, Records, Full, NoRecord
<1> QED
  BY <1>1, RecordFacts DEF TypeOK, Recover, AfterRecovery, SessionType, Labels

-----------------------------------------------------------------------------
(* What the daemon's steps do to the journal's side, whoever asked for them. *)

\* A new generation concerns no journal.
LEMMA ProposeKeeps ==
    ASSUME ChangeInv, NEW g \in Gens, Propose(g),
           UNCHANGED <<filesVars, backups, journal, lateCommit>>
    PROVE  JournalSide'
<1>1. RegisterInv'
  BY ProposeFacts DEF ChangeInv, TypeOK, JournalSide, RegisterInv, Gens, None
<1>2. NoUnjournaledChange'
  BY ProposeFacts DEF ChangeInv, JournalSide, RegisterInv, NoUnjournaledChange, filesVars
<1>3. JournalInv'
  BY ProposeFacts DEF ChangeInv, JournalSide, RegisterInv, JournalInv, backups
<1>4. LateInv'
  BY ProposeFacts DEF ChangeInv, JournalSide, RegisterInv, LateInv
<1> QED
  BY <1>1, <1>2, <1>3, <1>4 DEF JournalSide

\* A generation that is given up concerns no journal either.
LEMMA RejectKeeps ==
    ASSUME ChangeInv, NEW g, Reject(g),
           UNCHANGED <<filesVars, backups, journal, lateCommit>>
    PROVE  JournalSide'
<1>1. RegisterInv'
  BY RejectFacts DEF ChangeInv, TypeOK, JournalSide, RegisterInv, Gens, None
<1>2. NoUnjournaledChange' /\ JournalInv' /\ LateInv'
  BY RejectFacts DEF ChangeInv, JournalSide, NoUnjournaledChange, JournalInv, LateInv,
                     filesVars, backups
<1> QED
  BY <1>1, <1>2 DEF JournalSide

\* Only the generation of a running journal is ever accepted.
LEMMA AcceptKeeps ==
    ASSUME ChangeInv, NEW g \in Gens, Accept(g),
           journal.status = "running", journal.gen = g,
           UNCHANGED <<filesVars, backups, journal>>, lateCommit' \in {lateCommit, None}
    PROVE  JournalSide'
<1>1. RegisterInv'
  BY AcceptFacts DEF ChangeInv, TypeOK, JournalSide, RegisterInv, Gens, None
<1>2. NoUnjournaledChange' /\ JournalInv' /\ LateInv'
  BY AcceptFacts DEF ChangeInv, JournalSide, NoUnjournaledChange, JournalInv, LateInv,
                     filesVars, backups
<1> QED
  BY <1>1, <1>2 DEF JournalSide

-----------------------------------------------------------------------------
(* One lemma per step of a command. *)

\* The intent backup is of the files as they are, and the new record has no generation.
LEMMA BeginChangeStep == ASSUME ChangeInv, BeginChange PROVE ChangeInv'
<1> USE DEF ChangeInv, JournalSide, CommandSide, filesVars, backups, session, daemon, late
<1>1. TypeOK'
  BY RecordFacts, ReturnType, FaultType
     DEF TypeOK, SessionType, Labels, PreparingInv, BeginChange
<1>2. JournalSide'
  BY DEF NoUnjournaledChange, RegisterInv, JournalInv, LateInv, BeginChange
<1>3. CommandSide'
  BY DEF PreparingInv, RecordInv, FilesInv, BeforeJournal, Owning, Forwards, Backwards,
         Cleaning, BeginChange, Return
<1> QED
  BY <1>1, <1>2, <1>3

\* So is the configuration backup.
LEMMA BackupConfigStep == ASSUME ChangeInv, BackupConfig PROVE ChangeInv'
<1> USE DEF ChangeInv, JournalSide, CommandSide, filesVars, backups, session, daemon, late
<1>1. TypeOK'
  BY GotoType, ReturnType, FaultType
     DEF TypeOK, SessionType, Labels, PreparingInv, BeforeJournal, BackupConfig, Write, OnError
<1>2. JournalSide'
  BY DEF NoUnjournaledChange, RegisterInv, JournalInv, LateInv, PreparingInv, BeforeJournal,
         BackupConfig
<1>3. CommandSide'
  BY DEF PreparingInv, RecordInv, FilesInv, BeforeJournal, Owning, Forwards, Backwards,
         BackupConfig, Write, OnError, Goto, Return
<1> QED
  BY <1>1, <1>2, <1>3

\* From here on the journal is running, and both backups are in place.
LEMMA WritePreparedStep == ASSUME ChangeInv, WritePrepared PROVE ChangeInv'
<1> USE DEF ChangeInv, JournalSide, CommandSide, filesVars, backups, session, daemon, late
<1>1. TypeOK'
  BY RecordFacts, FinalFacts, GotoType, ReturnType, FaultType
     DEF TypeOK, SessionType, Labels, PreparingInv, RecordInv, JournalInv,
         BeforeJournal, Owning, Forwards, Backwards, WritePrepared, Write, OnError
<1>2. JournalSide'
  BY DEF NoUnjournaledChange, RegisterInv, JournalInv, LateInv, PreparingInv, BeforeJournal,
         WritePrepared, Write, OnError
<1>3. CommandSide'
  BY DEF PreparingInv, RecordInv, FilesInv, BeforeJournal, Owning, Forwards, Backwards,
         Cleaning, WritePrepared, Write, OnError, Goto, Return
<1> QED
  BY <1>1, <1>2, <1>3

\* The files change under the running journal only.
LEMMA PutIntentStep == ASSUME ChangeInv, PutIntent PROVE ChangeInv'
<1> USE DEF ChangeInv, JournalSide, CommandSide, filesVars, backups, session, daemon, late
<1>1. TypeOK'
  BY RecordFacts, GotoType, FaultType
     DEF TypeOK, SessionType, Labels, RecordInv, Owning, Forwards, PutIntent, Write, OnError
<1>2. JournalSide'
  BY DEF NoUnjournaledChange, RegisterInv, JournalInv, LateInv, RecordInv, Owning, Forwards,
         PutIntent
<1>3. CommandSide'
  BY DEF PreparingInv, RecordInv, FilesInv, BeforeJournal, Owning, Forwards, Backwards,
         Cleaning, PutIntent, Write, OnError, Goto
<1> QED
  BY <1>1, <1>2, <1>3

\* The configuration file follows, with the intent file already new.
LEMMA PutConfigStep == ASSUME ChangeInv, PutConfig PROVE ChangeInv'
<1> USE DEF ChangeInv, JournalSide, CommandSide, filesVars, backups, session, daemon, late
<1>1. TypeOK'
  BY RecordFacts, GotoType, FaultType
     DEF TypeOK, SessionType, Labels, RecordInv, Owning, Forwards, PutConfig, Write, OnError
<1>2. JournalSide'
  BY DEF NoUnjournaledChange, RegisterInv, JournalInv, LateInv, RecordInv, Owning, Forwards,
         PutConfig
<1>3. CommandSide'
  BY DEF PreparingInv, RecordInv, FilesInv, BeforeJournal, Owning, Forwards, Backwards,
         Cleaning, PutConfig, Write, OnError, Goto
<1> QED
  BY <1>1, <1>2, <1>3

\* Both files are new when the journal says so.
LEMMA WritePublishedStep == ASSUME ChangeInv, WritePublished PROVE ChangeInv'
<1> USE DEF ChangeInv, JournalSide, CommandSide, filesVars, backups, session, daemon, late
<1>1. TypeOK'
  BY GotoType, FaultType DEF TypeOK, SessionType, Labels, WritePublished, Write, OnError
<1>2. JournalSide'
  BY DEF NoUnjournaledChange, RegisterInv, JournalInv, LateInv, RecordInv, Owning, Forwards,
         WritePublished, Write, OnError
<1>3. CommandSide'
  BY DEF PreparingInv, RecordInv, FilesInv, BeforeJournal, Owning, Forwards, Backwards,
         Cleaning, WritePublished, Write, OnError, Goto
<1> QED
  BY <1>1, <1>2, <1>3

\* The generation in the record is entered into the journal before it can be committed.
LEMMA WriteAppliedStep == ASSUME ChangeInv, WriteApplied PROVE ChangeInv'
<1> USE DEF ChangeInv, JournalSide, CommandSide, filesVars, backups, session, daemon, late
<1>1. TypeOK'
  BY GotoType, FaultType DEF TypeOK, SessionType, Labels, WriteApplied, Write, OnError
<1>2. JournalSide'
  BY DEF TypeOK, Gens, None, NoUnjournaledChange, RegisterInv, JournalInv, LateInv, RecordInv,
         Owning, Forwards, WriteApplied, Write, OnError
<1>3. CommandSide'
  BY DEF PreparingInv, RecordInv, FilesInv, BeforeJournal, Owning, Forwards, Backwards,
         Cleaning, WriteApplied, Write, OnError, Goto
<1> QED
  BY <1>1, <1>2, <1>3

\* The health check decides between commit and rollback.
LEMMA HealthStep == ASSUME ChangeInv, Health PROVE ChangeInv'
<1> USE DEF ChangeInv, JournalSide, CommandSide, filesVars, backups, session, daemon, late
<1>1. TypeOK'
  BY GotoType DEF TypeOK, SessionType, Labels, Health
<1>2. JournalSide'
  BY DEF NoUnjournaledChange, RegisterInv, JournalInv, LateInv, Health
<1>3. CommandSide'
  BY DEF PreparingInv, RecordInv, FilesInv, BeforeJournal, Owning, Forwards, Backwards,
         Cleaning, Health, Goto
<1> QED
  BY <1>1, <1>2, <1>3

\* The journal is complete only with the new policy in force and in both files.
LEMMA FinishStep == ASSUME ChangeInv, Finish PROVE ChangeInv'
<1> USE DEF ChangeInv, JournalSide, CommandSide, filesVars, backups, session, daemon, late
<1>1. TypeOK'
  <2>1. SessionType' /\ faults' \in Nat
    BY GotoType, ReturnType, FaultType DEF TypeOK, SessionType, Labels, Finish, Write, OnError
  <2>2. journal' \in Records
    BY RecordFacts, FinalFacts
       DEF TypeOK, RecordInv, Owning, Forwards, Finish, Write, OnError
  <2> QED
    BY <2>1, <2>2 DEF TypeOK, SessionType, Finish
<1>2. JournalSide'
  BY RecordFacts, FinalFacts
     DEF TypeOK, NoUnjournaledChange, RegisterInv, JournalInv, LateInv, RecordInv, FilesInv,
         Owning, Forwards, Backwards, Finish, Write, OnError
<1>3. CommandSide'
  BY RecordFacts, FinalFacts
     DEF TypeOK, PreparingInv, RecordInv, FilesInv, BeforeJournal, Owning, Forwards, Backwards,
         Cleaning, Finish, Write, OnError, Goto
<1> QED
  BY <1>1, <1>2, <1>3

\* Recovery goes forward only from a committed generation with the new files.
LEMMA QueryStatusStep == ASSUME ChangeInv, QueryStatus PROVE ChangeInv'
<1> USE DEF ChangeInv, JournalSide, CommandSide, filesVars, backups, session, daemon, late
<1>1. TypeOK'
  BY GotoType, ReturnType, FaultType DEF TypeOK, SessionType, Labels, QueryStatus
<1>2. JournalSide'
  BY DEF NoUnjournaledChange, RegisterInv, JournalInv, LateInv, QueryStatus
<1>3. CommandSide'
  BY StatusFacts
     DEF PreparingInv, RecordInv, FilesInv, BeforeJournal, Owning, Forwards, Backwards,
         Cleaning, QueryStatus, Goto, Return
<1> QED
  BY <1>1, <1>2, <1>3

\* What is restored is what the journal and its backup agree on.
LEMMA RestoreIntentStep == ASSUME ChangeInv, RestoreIntent PROVE ChangeInv'
<1> USE DEF ChangeInv, JournalSide, CommandSide, filesVars, backups, session, daemon, late
<1>1. TypeOK'
  BY RecordFacts, GotoType, ReturnType, FaultType
     DEF TypeOK, SessionType, Labels, RecordInv, Owning, Backwards, RestoreIntent, Write,
         OnError
<1>2. JournalSide'
  BY DEF NoUnjournaledChange, RegisterInv, JournalInv, LateInv, RecordInv, Owning, Backwards,
         RestoreIntent
<1>3. CommandSide'
  BY DEF PreparingInv, RecordInv, FilesInv, BeforeJournal, Owning, Forwards, Backwards,
         Cleaning, RestoreIntent, Write, OnError, Goto, Return
<1> QED
  BY <1>1, <1>2, <1>3

\* Afterwards the journal is closed only if nothing failed on the way.
LEMMA RestoreConfigStep == ASSUME ChangeInv, RestoreConfig PROVE ChangeInv'
<1> USE DEF ChangeInv, JournalSide, CommandSide, filesVars, backups, session, daemon, late
<1>1. TypeOK'
  BY RecordFacts, GotoType, ReturnType, FaultType
     DEF TypeOK, SessionType, Labels, RecordInv, JournalInv, Owning, Backwards, RestoreConfig
<1>2. JournalSide'
  BY DEF NoUnjournaledChange, RegisterInv, JournalInv, LateInv, RecordInv, Owning, Backwards,
         RestoreConfig
<1>3. CommandSide'
  BY DEF JournalInv, PreparingInv, RecordInv, FilesInv, BeforeJournal, Owning, Forwards,
         Backwards, Cleaning, RestoreConfig, Goto, Return
<1> QED
  BY <1>1, <1>2, <1>3

\* Closing the journal, forward or back, finds files and generation in agreement.
LEMMA FinishForwardStep == ASSUME ChangeInv, FinishForward PROVE ChangeInv'
<1> USE DEF ChangeInv, JournalSide, CommandSide, filesVars, backups, session, daemon, late
<1>1. TypeOK'
  <2>1. rec \in Full
    BY RecordFacts DEF TypeOK, RecordInv, Owning, Backwards, FinishForward
  <2>2. SessionType' /\ journal' \in Records /\ faults' \in Nat
    BY <2>1, RecordFacts, FinalFacts, ReturnType, FaultType
       DEF TypeOK, SessionType, Labels, FinishForward, Close
  <2> QED
    BY <2>2 DEF TypeOK, SessionType, FinishForward
<1>2. JournalSide'
  <2>1. /\ intent = content[current] /\ config = content[current]
        /\ journal.gen = current /\ journal.status = "running" /\ rec \in Full
    BY RecordFacts DEF TypeOK, Gens, None, FinishForward, RecordInv, FilesInv, JournalInv, Owning
  <2>2. \/ journal' = journal
        \/ journal'.status = "complete"
    BY <2>1, FinalFacts DEF FinishForward, Close
  <2> QED
    BY <2>1, <2>2 DEF FinishForward, Close, NoUnjournaledChange, RegisterInv, JournalInv, LateInv
<1>3. CommandSide'
  BY RecordFacts, FinalFacts
     DEF TypeOK, PreparingInv, RecordInv, FilesInv, BeforeJournal, Owning, Forwards, Backwards,
         Cleaning, FinishForward, Close, Return
<1> QED
  BY <1>1, <1>2, <1>3

\* Files and generation are the old ones when the journal says rolled back.
LEMMA MarkRolledBackStep == ASSUME ChangeInv, MarkRolledBack PROVE ChangeInv'
<1> USE DEF ChangeInv, JournalSide, CommandSide, filesVars, backups, session, daemon, late
<1>1. TypeOK'
  <2>1. rec \in Full
    BY RecordFacts DEF TypeOK, RecordInv, Owning, Backwards, MarkRolledBack
  <2>2. SessionType' /\ journal' \in Records /\ faults' \in Nat
    BY <2>1, RecordFacts, FinalFacts, ReturnType, FaultType
       DEF TypeOK, SessionType, Labels, MarkRolledBack, Close
  <2> QED
    BY <2>2 DEF TypeOK, SessionType, MarkRolledBack
<1>2. JournalSide'
  BY RecordFacts, FinalFacts, StatusFacts
     DEF TypeOK, Gens, None, NoUnjournaledChange, RegisterInv, JournalInv, LateInv, RecordInv,
         FilesInv, Owning, Forwards, Backwards, MarkRolledBack, Close
<1>3. CommandSide'
  BY RecordFacts, FinalFacts
     DEF TypeOK, PreparingInv, RecordInv, FilesInv, BeforeJournal, Owning, Forwards, Backwards,
         Cleaning, MarkRolledBack, Close, Return
<1> QED
  BY <1>1, <1>2, <1>3

\* The backups go only after the journal is no longer running.
LEMMA CleanIntentStep == ASSUME ChangeInv, CleanIntent PROVE ChangeInv'
<1> USE DEF ChangeInv, JournalSide, CommandSide, filesVars, backups, session, daemon, late
<1>1. TypeOK'
  BY GotoType, ReturnType, FaultType
     DEF TypeOK, SessionType, Labels, CleanIntent, OnError, AfterCleanError
<1>2. JournalSide'
  BY DEF NoUnjournaledChange, RegisterInv, JournalInv, LateInv, RecordInv, Owning, Cleaning,
         CleanIntent, AfterCleanError
<1>3. CommandSide'
  BY DEF PreparingInv, RecordInv, FilesInv, BeforeJournal, Owning, Forwards, Backwards,
         Cleaning, CleanIntent, OnError, AfterCleanError, Goto, Return
<1> QED
  BY <1>1, <1>2, <1>3

\* The second backup and the journal follow.
LEMMA CleanConfigStep == ASSUME ChangeInv, CleanConfig PROVE ChangeInv'
<1> USE DEF ChangeInv, JournalSide, CommandSide, filesVars, backups, session, daemon, late
<1>1. TypeOK'
  BY GotoType, ReturnType, FaultType
     DEF TypeOK, SessionType, Labels, CleanConfig, OnError, AfterCleanError
<1>2. JournalSide'
  BY DEF NoUnjournaledChange, RegisterInv, JournalInv, LateInv, RecordInv, Owning, Cleaning,
         CleanConfig, AfterCleanError
<1>3. CommandSide'
  BY DEF PreparingInv, RecordInv, FilesInv, BeforeJournal, Owning, Forwards, Backwards,
         Cleaning, CleanConfig, OnError, AfterCleanError, Goto, Return
<1> QED
  BY <1>1, <1>2, <1>3

\* Without the journal, files and generation agree as before.
LEMMA CleanJournalStep == ASSUME ChangeInv, CleanJournal PROVE ChangeInv'
<1> USE DEF ChangeInv, JournalSide, CommandSide, filesVars, backups, session, daemon, late
<1>1. TypeOK'
  <2>1. journal' \in Records /\ faults' \in Nat
    BY RecordFacts, FaultType DEF TypeOK, CleanJournal
  <2>2. SessionType'
    BY RecordFacts, GotoType, ReturnType
       DEF TypeOK, SessionType, Labels, CleanJournal, OnError, AfterCleanError, AfterRecovery
  <2> QED
    BY <2>1, <2>2 DEF TypeOK, SessionType, CleanJournal
<1>2. JournalSide'
  BY RecordFacts
     DEF NoUnjournaledChange, RegisterInv, JournalInv, LateInv, RecordInv, Owning, Cleaning,
         CleanJournal, AfterCleanError, AfterRecovery
<1>3. CommandSide'
  BY DEF TypeOK, PreparingInv, RecordInv, FilesInv, BeforeJournal, Owning, Forwards, Backwards,
         Cleaning, CleanJournal, OnError, AfterCleanError, AfterRecovery, Goto, Return
<1> QED
  BY <1>1, <1>2, <1>3

\* A death loses the record and nothing durable.
LEMMA DieStep == ASSUME ChangeInv, Die PROVE ChangeInv'
<1> USE DEF ChangeInv, JournalSide, CommandSide, filesVars, backups, session, daemon, late
<1>1. TypeOK'
  <2>1. SessionType' /\ faults' \in Nat
    BY ReturnType, FaultType DEF TypeOK, SessionType, Die
  <2>2. lateApply' \in BOOLEAN /\ lateCommit' \in Gens \cup {None} /\ lost' \in BOOLEAN
    BY RecordFacts DEF Die, TypeOK, RecordInv, Owning, Forwards
  <2> QED
    BY <2>1, <2>2 DEF TypeOK, SessionType, Die
<1>2. JournalSide'
  BY DEF NoUnjournaledChange, RegisterInv, JournalInv, LateInv, RecordInv, Owning, Forwards, Die
<1>3. CommandSide'
  BY DEF PreparingInv, RecordInv, FilesInv, BeforeJournal, Owning, Forwards, Backwards,
         Cleaning, Die, Return
<1> QED
  BY <1>1, <1>2, <1>3

\* Time concerns nobody but the recovery service.
LEMMA DeadlineStep == ASSUME ChangeInv, Deadline PROVE ChangeInv'
<1> USE DEF ChangeInv, JournalSide, CommandSide, filesVars, backups, session, daemon, late
<1>1. TypeOK'
  BY DEF TypeOK, SessionType, Labels, Deadline
<1>2. JournalSide'
  BY DEF NoUnjournaledChange, RegisterInv, JournalInv, LateInv, Deadline
<1>3. CommandSide'
  BY DEF PreparingInv, RecordInv, FilesInv, Owning, Deadline
<1> QED
  BY <1>1, <1>2, <1>3

\* An apply leaves the journal to be told of its generation, even if it answers too late.
LEMMA ApplyStep == ASSUME ChangeInv, Apply PROVE ChangeInv'
<1> USE DEF ChangeInv, CommandSide
<1>1. /\ UNCHANGED <<filesVars, backups, journal, expired, lateCommit, lost>>
      /\ pc = "apply" /\ rec \in Full /\ rec.gen = None
      /\ intent = rec.new /\ config = rec.new
  BY RecordFacts DEF Apply, TypeOK, RecordInv, FilesInv, Owning, Forwards
<1>2. CASE \E g \in Gens : /\ Propose(g)
                          /\ rec' = [rec EXCEPT !.gen = g]
                          /\ pc' = "applied"
                          /\ UNCHANGED <<want, failed, lateApply, faults>>
  <2>1. PICK g \in Gens : /\ Propose(g)
                          /\ rec' = [rec EXCEPT !.gen = g]
                          /\ pc' = "applied"
                          /\ UNCHANGED <<want, failed, lateApply, faults>>
    BY <1>2
  <2>2. TypeOK'
    BY <1>1, <2>1, ProposeFacts, GenFacts
       DEF TypeOK, DaemonType, Labels, filesVars, backups
  <2>3. JournalSide'
    BY <1>1, <2>1, ProposeKeeps
  <2>4. CommandSide'
    BY <1>1, <2>1, ProposeFacts, GenFacts
       DEF TypeOK, Gens, None, PreparingInv, RecordInv, FilesInv, BeforeJournal, Owning,
           Forwards,
           Backwards, Cleaning, filesVars, backups
  <2> QED
    BY <2>2, <2>3, <2>4
<1>3. CASE Goto("rollback")
  <2>1. UNCHANGED daemon \/ \E g \in Gens : Propose(g)
    BY <1>1, <1>3 DEF Apply, Goto, daemon
  <2>2. lateApply' \in BOOLEAN /\ faults' \in Nat
    BY FaultType DEF Apply, TypeOK
  <2>3. TypeOK'
    BY <1>1, <1>3, <2>1, <2>2, ProposeFacts, GotoType
       DEF TypeOK, SessionType, DaemonType, Labels, filesVars, backups, daemon
  <2>4. JournalSide'
    <3>1. CASE \E g \in Gens : Propose(g)
      BY <1>1, <3>1, ProposeKeeps
    <3>2. CASE UNCHANGED daemon
      BY <1>1, <3>2 DEF JournalSide, NoUnjournaledChange, RegisterInv, JournalInv, LateInv,
                        filesVars, backups, daemon
    <3> QED
      BY <2>1, <3>1, <3>2
  <2>5. CommandSide'
    BY <1>1, <1>3 DEF RecordInv, PreparingInv, FilesInv, BeforeJournal, Owning, Forwards,
                      Backwards, Cleaning, Goto, filesVars, backups
  <2> QED
    BY <2>3, <2>4, <2>5
<1> QED
  BY <1>2, <1>3 DEF Apply

\* A commit is asked for the journalled generation only.
LEMMA CommitStep == ASSUME ChangeInv, Commit PROVE ChangeInv'
<1> USE DEF ChangeInv, CommandSide
<1>1. /\ UNCHANGED <<filesVars, backups, journal, expired, lateApply>>
      /\ pc = "commit" /\ rec.gen \in Gens /\ rec.gen \in used
      /\ journal.status = "running" /\ journal.gen = rec.gen
      /\ intent = rec.new /\ config = rec.new
  BY RecordFacts DEF Commit, TypeOK, RecordInv, FilesInv, Owning, Forwards
<1>2. /\ Goto("finish") \/ Goto("rollback")
      /\ faults' \in Nat /\ lost' \in BOOLEAN
      /\ \/ Accept(rec.gen) /\ UNCHANGED lateCommit
         \/ Reject(rec.gen) /\ Goto("rollback") /\ UNCHANGED lateCommit
         \/ UNCHANGED daemon /\ Goto("rollback") /\ lateCommit' \in {lateCommit, rec.gen}
  BY FaultType DEF Commit, TypeOK
<1>3. TypeOK'
  BY <1>1, <1>2, AcceptFacts, RejectFacts, GotoType
     DEF TypeOK, SessionType, DaemonType, Labels, filesVars, backups, daemon
<1>4. JournalSide'
  <2>1. CASE Accept(rec.gen) /\ UNCHANGED lateCommit
    BY <1>1, <2>1, AcceptKeeps
  <2>2. CASE Reject(rec.gen) /\ UNCHANGED lateCommit
    BY <1>1, <2>2, RejectKeeps
  <2>3. CASE UNCHANGED daemon /\ lateCommit' \in {lateCommit, rec.gen}
    BY <1>1, <2>3 DEF JournalSide, NoUnjournaledChange, RegisterInv, JournalInv, LateInv,
                      filesVars, backups, daemon
  <2> QED
    BY <1>2, <2>1, <2>2, <2>3
<1>5. CommandSide'
  <2>1. CASE Accept(rec.gen)
    BY <1>1, <1>2, <2>1, AcceptFacts
       DEF RecordInv, PreparingInv, FilesInv, BeforeJournal, Owning, Forwards, Backwards,
           Cleaning,
           Goto, filesVars, backups
  <2>2. CASE Reject(rec.gen) /\ Goto("rollback")
    BY <1>1, <2>2, RejectFacts
       DEF RecordInv, PreparingInv, FilesInv, BeforeJournal, Owning, Forwards, Backwards,
           Cleaning,
           Goto, filesVars, backups
  <2>3. CASE UNCHANGED daemon /\ Goto("rollback")
    BY <1>1, <2>3
       DEF RecordInv, PreparingInv, FilesInv, BeforeJournal, Owning, Forwards, Backwards,
           Cleaning,
           Goto, filesVars, backups, daemon
  <2> QED
    BY <1>2, <2>1, <2>2, <2>3
<1> QED
  BY <1>3, <1>4, <1>5

\* A rollback that succeeds leaves the generation neither tried nor in force.
LEMMA RollBackStep == ASSUME ChangeInv, RollBack PROVE ChangeInv'
<1> USE DEF ChangeInv, CommandSide
<1>1. /\ UNCHANGED <<filesVars, backups, journal, expired, late>>
      /\ pc = "rollback" /\ pc' = "restore_intent" /\ UNCHANGED <<want, rec>>
      /\ failed' = failed \/ failed' = TRUE
      /\ faults' \in Nat
  BY FaultType DEF RollBack, RollbackError, Goto, TypeOK
<1>2. \/ UNCHANGED <<current, candidate, used, content>> /\ finalized' \in BOOLEAN
      \/ Reject(rec.gen)
  BY DEF RollBack, RollbackDone, RollbackError, TypeOK, daemon
<1>3. TypeOK'
  <2>1. SessionType'
    BY <1>1 DEF TypeOK, SessionType, Labels
  <2>2. DaemonType'
    BY <1>2, RejectFacts DEF TypeOK, DaemonType
  <2> QED
    BY <1>1, <2>1, <2>2 DEF TypeOK, SessionType, DaemonType, filesVars, backups, late
<1>4. JournalSide'
  <2>1. CASE Reject(rec.gen)
    BY <1>1, <2>1, RejectKeeps DEF late
  <2>2. CASE UNCHANGED <<current, candidate, used, content>>
    BY <1>1, <2>2 DEF JournalSide, NoUnjournaledChange, RegisterInv, JournalInv, LateInv,
                      filesVars, backups, late
  <2> QED
    BY <1>2, <2>1, <2>2
\* Without a failure the journalled generation is neither in force nor tried.
<1>5. ~failed' => journal.gen # current' /\ (candidate' # None => candidate' # journal.gen)
  <2>1. journal.gen = rec.gen \/ journal.gen = None
    BY <1>1 DEF RecordInv, Owning, Backwards
  <2>2. current # None /\ candidate # current
    BY DEF TypeOK, Gens, None, JournalSide, RegisterInv
  <2>3. CASE rec.gen = None /\ UNCHANGED daemon
    BY <2>1, <2>2, <2>3 DEF daemon
  <2>4. CASE Reject(rec.gen)
    BY <2>1, <2>2, <2>4, RejectFacts
  <2>5. CASE Status(rec.gen) = "rolled_back" /\ UNCHANGED daemon
    BY <2>1, <2>2, <2>5, StatusFacts DEF daemon
  <2> QED
    BY <2>3, <2>4, <2>5 DEF RollBack, RollbackDone
<1>6. CommandSide'
  <2>1. used' = used /\ content' = content
    BY <1>2, RejectFacts
  <2> QED
    BY <1>1, <1>5, <2>1
       DEF RecordInv, PreparingInv, FilesInv, BeforeJournal, Owning, Forwards, Backwards,
           Cleaning,
           filesVars, backups
<1> QED
  BY <1>3, <1>4, <1>6

-----------------------------------------------------------------------------
(* The other steps. *)

\* Whoever opens a recovery takes its record from the journal.
LEMMA RecoveryStarts ==
    ASSUME ChangeInv, NEW e, want' \in Policies \cup {NoPolicy}, Recover(e),
           UNCHANGED <<filesVars, backups, journal, expired, daemon, late, faults>>
    PROVE  ChangeInv'
<1> USE DEF ChangeInv, CommandSide, filesVars, backups, daemon, late
<1>1. TypeOK'
  BY RecoverFacts DEF TypeOK, SessionType
<1>2. JournalSide'
  BY DEF JournalSide, NoUnjournaledChange, RegisterInv, JournalInv, LateInv
<1>3. CommandSide'
  BY RecoverFacts
     DEF JournalSide, JournalInv, PreparingInv, RecordInv, FilesInv, BeforeJournal, Owning,
         Forwards, Backwards, Cleaning
<1> QED
  BY <1>1, <1>2, <1>3

\* The daemon acts on its own while a command is at any of its steps.
LEMMA DaemonStep == ASSUME ChangeInv, ExecuteLate \/ Decide PROVE ChangeInv'
<1> USE DEF ChangeInv, CommandSide
<1>1. /\ UNCHANGED <<filesVars, backups, journal, expired, session, lost, faults>>
      /\ lateApply' \in BOOLEAN
      /\ \/ (\E g \in Gens : Propose(g)) /\ UNCHANGED lateCommit
         \/ /\ lateCommit \in Gens /\ Accept(lateCommit) /\ lateCommit' = None
            /\ journal.status = "running" /\ journal.gen = lateCommit
         \/ Reject(candidate) /\ UNCHANGED lateCommit
         \/ /\ UNCHANGED <<current, candidate, used, content, lateCommit>>
            /\ finalized' \in BOOLEAN
  BY AcceptFacts DEF ExecuteLate, Decide, TypeOK, JournalSide, LateInv, late
<1>2. CASE (\E g \in Gens : Propose(g)) /\ UNCHANGED lateCommit
  <2>1. PICK g \in Gens : Propose(g)
    BY <1>2
  <2>2. TypeOK'
    BY <1>1, <1>2, <2>1, ProposeFacts DEF TypeOK, DaemonType, filesVars, backups, session
  <2>3. JournalSide'
    BY <1>1, <1>2, <2>1, ProposeKeeps
  <2>4. CommandSide'
    BY <1>1, <2>1, ProposeFacts
       DEF TypeOK, Gens, None, JournalSide, RegisterInv, JournalInv, PreparingInv, RecordInv,
           FilesInv, Owning, Forwards, Backwards, filesVars, backups, session
  <2> QED
    BY <2>2, <2>3, <2>4
<1>3. CASE /\ lateCommit \in Gens /\ Accept(lateCommit) /\ lateCommit' = None
           /\ journal.status = "running" /\ journal.gen = lateCommit
  <2>1. TypeOK'
    BY <1>1, <1>3, AcceptFacts DEF TypeOK, DaemonType, filesVars, backups, session
  <2>2. JournalSide'
    BY <1>1, <1>3, AcceptKeeps
  <2>3. CommandSide'
    BY <1>1, <1>3, AcceptFacts
       DEF TypeOK, Gens, None, JournalSide, RegisterInv, JournalInv, PreparingInv, RecordInv,
           FilesInv, Owning, Forwards, Backwards, filesVars, backups, session
  <2> QED
    BY <2>1, <2>2, <2>3
<1>4. CASE Reject(candidate) /\ UNCHANGED lateCommit
  <2>1. TypeOK'
    BY <1>1, <1>4, RejectFacts DEF TypeOK, DaemonType, filesVars, backups, session
  <2>2. JournalSide'
    BY <1>1, <1>4, RejectKeeps
  <2>3. CommandSide'
    BY <1>1, <1>4, RejectFacts
       DEF PreparingInv, RecordInv, FilesInv, filesVars, backups, session
  <2> QED
    BY <2>1, <2>2, <2>3
<1>5. CASE /\ UNCHANGED <<current, candidate, used, content, lateCommit>>
           /\ finalized' \in BOOLEAN
  BY <1>1, <1>5
     DEF TypeOK, JournalSide, NoUnjournaledChange, RegisterInv, JournalInv, LateInv,
         PreparingInv, RecordInv, FilesInv, filesVars, backups, session
<1> QED
  BY <1>1, <1>2, <1>3, <1>4, <1>5

-----------------------------------------------------------------------------
(* The theorems. *)

\* At first there is no journal, and the files hold the policy in force.
LEMMA InitChange == Init => ChangeInv
<1> SUFFICES ASSUME Init PROVE ChangeInv
  OBVIOUS
<1>1. TypeOK
  <2>1. 1 \in Gens
    BY ConstantsAssumption DEF Gens
  <2>2. content \in [Gens -> Policies]
    BY DEF Init
  <2> QED
    BY <2>1, <2>2, ConstantsAssumption, RecordFacts DEF Init, TypeOK, Labels
<1>2. JournalSide /\ CommandSide
  BY <1>1, RecordFacts
     DEF Init, TypeOK, Gens, None, JournalSide, CommandSide, NoUnjournaledChange, RegisterInv,
         JournalInv, LateInv, PreparingInv, RecordInv, FilesInv, BeforeJournal, Owning, Forwards,
         Backwards, Cleaning
<1> QED
  BY <1>1, <1>2 DEF ChangeInv

\* Every step of the command, the daemon or the recovery service keeps the invariant.
LEMMA ChangeInductive == ChangeInv /\ [Next]_vars => ChangeInv'
<1> SUFFICES ASSUME ChangeInv, [Next]_vars PROVE ChangeInv'
  OBVIOUS
<1>1. CASE Step
  <2>1. CASE Recheck
    BY <2>1, RecoveryStarts DEF Recheck, ChangeInv, TypeOK
  <2> QED
    BY <1>1, <2>1, BeginChangeStep, BackupConfigStep, WritePreparedStep, PutIntentStep,
       PutConfigStep, WritePublishedStep, ApplyStep, WriteAppliedStep, HealthStep, CommitStep,
       FinishStep, QueryStatusStep, FinishForwardStep, RollBackStep, RestoreIntentStep,
       RestoreConfigStep, MarkRolledBackStep, CleanIntentStep, CleanConfigStep, CleanJournalStep
       DEF Step
<1>2. ASSUME NEW p \in Policies, StartChange(p) PROVE ChangeInv'
  BY <1>2, RecoveryStarts DEF StartChange
<1>3. ASSUME NEW e \in BOOLEAN, StartRecovery(e) PROVE ChangeInv'
  BY <1>3, RecoveryStarts DEF StartRecovery
<1>4. CASE UNCHANGED vars
  BY <1>4 DEF vars, filesVars, backups, session, daemon, late, ChangeInv, TypeOK, JournalSide,
              CommandSide, NoUnjournaledChange, RegisterInv, JournalInv, LateInv, PreparingInv,
              RecordInv, FilesInv
<1> QED
  BY <1>1, <1>2, <1>3, <1>4, DieStep, DeadlineStep, DaemonStep DEF Next

\* So it holds in every reachable state.
LEMMA ChangeInvariant == Spec => []ChangeInv
  BY InitChange, ChangeInductive, PTL DEF Spec

\* Every file, journal and register of the managed change keeps its type.
THEOREM ChangeTypes == Spec => []TypeOK
<1>1. ChangeInv => TypeOK
  BY DEF ChangeInv
<1> QED
  BY <1>1, ChangeInvariant, PTL

\* However commands die, writes fail and requests are executed late, a file
\* differs from the policy in force only while a journal is running.
THEOREM FilesFollowGeneration == Spec => []NoUnjournaledChange
<1>1. ChangeInv => NoUnjournaledChange
  BY DEF ChangeInv, JournalSide
<1> QED
  BY <1>1, ChangeInvariant, PTL

\* An unfinished change always has the backups its journal vouches for.
THEOREM ChangeRestorable == Spec => []BackupsIntact
<1>1. ChangeInv => BackupsIntact
  BY DEF ChangeInv, JournalSide, JournalInv, BackupsIntact
<1> QED
  BY <1>1, ChangeInvariant, PTL

-----------------------------------------------------------------------------
(* As long as every accepted commit has been reported to its client. *)

\* A journalled generation comes into force in one way only, the command's own
\* successful commit, after which nobody takes its files back.
CertainInv ==
    /\ finalized /\ lateCommit = None
    /\ journal.status = "running" /\ journal.gen = current =>
          /\ intent = journal.new /\ config = journal.new
          /\ pc \notin Backwards \cup (Forwards \ {"finish"})
    /\ pc \in {"applied", "health", "commit"} \cup Backwards => rec.gen # current

\* Every step keeps it: the command's steps one by one, then the daemon's, then
\* the recovery that opens a change or a boot.
LEMMA CertainInductive ==
    ASSUME ~lost', ChangeInv, CertainInv, [Next]_vars
    PROVE  CertainInv'
<1> USE DEF ChangeInv, JournalSide, CommandSide, CertainInv, Forwards, Backwards,
            filesVars, backups, session, daemon, late
<1> USE RecordFacts, FinalFacts, StatusFacts
    DEF TypeOK, None, Gens, RecordInv, PreparingInv, FilesInv, JournalInv, RegisterInv,
        Owning, BeforeJournal, Cleaning
<1>1. CASE BeginChange
  BY <1>1 DEF BeginChange, Return
<1>2. CASE BackupConfig
  BY <1>2 DEF BackupConfig, Write, OnError, Goto, Return
<1>3. CASE WritePrepared
  BY <1>3 DEF WritePrepared, Write, OnError, Goto, Return
<1>4. CASE PutIntent
  BY <1>4 DEF PutIntent, Write, OnError, Goto, Return
<1>5. CASE PutConfig
  BY <1>5 DEF PutConfig, Write, OnError, Goto, Return
<1>6. CASE WritePublished
  BY <1>6 DEF WritePublished, Write, OnError, Goto, Return
<1>7. CASE WriteApplied
  BY <1>7 DEF WriteApplied, Write, OnError, Goto, Return
<1>8. CASE Health
  BY <1>8 DEF Health, Goto
<1>9. CASE Finish
  BY <1>9 DEF Finish, Write, OnError, Goto, Return
<1>10. CASE QueryStatus
  BY <1>10 DEF QueryStatus, Goto, Return
<1>11. CASE RestoreIntent
  BY <1>11 DEF RestoreIntent, Write, OnError, Goto, Return
<1>12. CASE RestoreConfig
  BY <1>12 DEF RestoreConfig, Goto, Return
<1>13. CASE FinishForward
  BY <1>13 DEF FinishForward, Close, Return
<1>14. CASE MarkRolledBack
  BY <1>14 DEF MarkRolledBack, Close, Return
<1>15. CASE CleanIntent
  BY <1>15 DEF CleanIntent, OnError, AfterCleanError, Goto, Return
<1>16. CASE CleanConfig
  BY <1>16 DEF CleanConfig, OnError, AfterCleanError, Goto, Return
<1>17. CASE CleanJournal
  BY <1>17 DEF CleanJournal, OnError, AfterCleanError, AfterRecovery, Goto, Return
<1>18. CASE Die
  BY <1>18 DEF Die, Return
<1>19. CASE Deadline
  BY <1>19 DEF Deadline
<1> HIDE RecordFacts, FinalFacts, StatusFacts
    DEF TypeOK, None, Gens, RecordInv, PreparingInv, FilesInv, JournalInv, RegisterInv,
        Owning, BeforeJournal, Cleaning
<1>20. CASE Apply
  <2>1. UNCHANGED daemon \/ \E g \in Gens : Propose(g)
    BY <1>20 DEF Apply
  <2>2. UNCHANGED <<current, finalized, journal, lateCommit, intent, config>>
    BY <1>20, <2>1, ProposeFacts DEF Apply, Propose
  <2>3. \/ Goto("rollback")
        \/ \E g \in Gens : Propose(g) /\ rec' = [rec EXCEPT !.gen = g] /\ pc' = "applied"
    BY <1>20 DEF Apply
  <2>4. pc = "apply" /\ rec \in Full /\ rec.gen = None /\ journal.gen = None /\ current # None
    BY <1>20, RecordFacts DEF Apply, TypeOK, RecordInv, Owning, Gens, None
  <2>5. CASE Goto("rollback")
    BY <2>2, <2>4, <2>5 DEF Goto
  <2>6. CASE \E g \in Gens : Propose(g) /\ rec' = [rec EXCEPT !.gen = g] /\ pc' = "applied"
    BY <2>2, <2>4, <2>6, GenFacts, ProposeFacts DEF RegisterInv
  <2> QED
    BY <2>3, <2>5, <2>6
<1>21. CASE Commit
  BY <1>21, RecordFacts, AcceptFacts, RejectFacts, StatusFacts
     DEF Commit, Accept, Reject, Goto, TypeOK, RegisterInv, RecordInv, FilesInv, Owning,
         None, Gens
<1>22. CASE RollBack
  BY <1>22, RecordFacts, RejectFacts, StatusFacts
     DEF RollBack, RollbackDone, RollbackError, Reject, Goto, TypeOK, RegisterInv,
         RecordInv, FilesInv, Owning, None, Gens
<1>23. CASE ExecuteLate \/ Decide
  BY <1>23, RecordFacts, ProposeFacts, RejectFacts
     DEF ExecuteLate, Decide, Propose, Reject, TypeOK, RegisterInv, RecordInv, JournalInv,
         Owning, None, Gens
<1>24. ASSUME NEW e, want' \in Policies \cup {NoPolicy}, Recover(e),
              UNCHANGED <<filesVars, backups, journal, expired, daemon, late, faults>>
       PROVE  CertainInv'
  BY <1>24, RecoverFacts DEF TypeOK, Gens, None
<1>25. CASE Recheck
  BY <1>24, <1>25 DEF Recheck, TypeOK
<1>26. ASSUME NEW p \in Policies, StartChange(p) PROVE CertainInv'
  BY <1>24, <1>26 DEF StartChange
<1>27. ASSUME NEW e \in BOOLEAN, StartRecovery(e) PROVE CertainInv'
  BY <1>24, <1>27 DEF StartRecovery
<1>28. CASE UNCHANGED vars
  BY <1>28 DEF vars
<1> QED
  BY <1>1, <1>2, <1>3, <1>4, <1>5, <1>6, <1>7, <1>8, <1>9, <1>10, <1>11, <1>12, <1>13, <1>14,
     <1>15, <1>16, <1>17, <1>18, <1>19, <1>20, <1>21, <1>22, <1>23, <1>25, <1>26, <1>27, <1>28
     DEF Next, Step

\* History is not rewritten: the only steps that touch lost set it.
LEMMA LostStays ==
    ASSUME [Next]_vars, lost
    PROVE  lost'
<1>1. CASE Commit \/ Die
  BY <1>1 DEF Commit, Die
<1>2. CASE UNCHANGED lost
  BY <1>2
<1>3. Next => Commit \/ Die \/ UNCHANGED lost
  BY DEF Next, Step, late, StartChange, StartRecovery, BeginChange, BackupConfig, WritePrepared,
         PutIntent, PutConfig, WritePublished, Apply, WriteApplied, Health, Finish, Recheck,
         QueryStatus, FinishForward, RollBack, RestoreIntent, RestoreConfig, MarkRolledBack,
         CleanIntent, CleanConfig, CleanJournal, Deadline, ExecuteLate, Decide
<1> QED
  BY <1>1, <1>2, <1>3 DEF vars, late

\* Unless a commit was accepted behind its client's back, a change whose
\* generation is committed keeps its new files and can be finished forward.
THEOREM CommittedForward == Spec => []CommittedKeepsFiles
<1>1. Init => CertainInv
  BY ConstantsAssumption DEF Init, CertainInv, NoRecord, Forwards, Backwards
<1>2. ChangeInv /\ (lost \/ CertainInv) /\ [Next]_vars => (lost \/ CertainInv)'
  BY CertainInductive, LostStays
<1>3. lost \/ CertainInv => CommittedKeepsFiles
  BY DEF CertainInv, CommittedKeepsFiles, CommittedHasFiles
<1> QED
  BY <1>1, <1>2, <1>3, ChangeInvariant, PTL DEF Spec

=============================================================================
