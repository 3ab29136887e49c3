# TLA+ models of nft-firewall V2

nft-firewall V2 (`nftfw`) owns a few nftables tables of a Linux host. An operator's policy is compiled to a script, a
*generation*. A generation is tried in the kernel and becomes permanent only if it is confirmed before a deadline;
otherwise the previous one comes back, even if the daemon, the session or the host has died in between. Around that
core the daemon keeps sets of blocked and trusted addresses, WireGuard endpoints and container networks current.

This directory holds models of the parts of that program whose correctness depends on the order of their steps: what is
written first, what a failure leaves behind, who waits for whom. Paths below are relative to the repository.

## Inventory

| component | state | operations | what makes it correct |
|---|---|---|---|
| reconcile manager (`internal/reconcile`) | the candidate in flight; a mutex | Apply, Commit, Rollback, RollbackExpired, Reconcile, RecoverAtBoot, VerifyEnforcement | one candidate at a time; each decided once; the last confirmed one can always be re-established |
| store (`internal/state/store.go`) | SQLite: generations, claims, publication revisions, integration state, audit | one transaction per operation, synchronised to disk for generations | a decision is final; a revision called applied is in the kernel |
| pointer and generation files (`internal/state/active.go`) | immutable script and snapshot files, one pointer file replaced by rename | prepare, publish, synchronise, clear | the pointer names a generation whose commit was prepared, and only advances |
| mutation lock (`internal/state/claim_lock.go`) | a lock file, plus `claimMu` and `Manager.mu` in the daemon | acquire by polling, release | no circular wait, no leak, every request ends |
| nft backend (`internal/nft`) | the owned tables in the kernel | atomic batches, integrity and fingerprint checks, replacement of sets | a batch that reports an error may have taken effect |
| daemon runtime (`internal/app`) | configuration, caches, tickers | control requests, tickers, restoration callback | see the claims and locks models |
| entry points (`cmd/nftfwd`) | - | daemon loop, static rollback timer, boot recovery, restoration without a database | expired or orphaned candidates are decided without an operator |
| managed change (`cmd/nftfw/managed*.go`) | journal and backups of changed files | change, confirm, roll back, resume after death | files and generation are confirmed or taken back together |
| setup (`internal/setup`) | journal of host changes, backups, boot transaction, retry timer | steps, rollback, resume, guard | every journalled step can be undone after a death or a reboot |
| provenance ledger (`internal/provenance`) | which interface name has which id, and which names are retired | open, reserve, validate, backup, merge; audit of foreign rules | an id means one interface under every ruleset that ever comes into the kernel; what may have to be restored is never refused |
| offline migration (`internal/state/offline_migration.go`) | a backup of the older release's database and a work file | hash, inspect, copy, migrate, compare, link | the migrated database is a finished migration of bytes the source held at one moment, which a backup preserves |
| operator backup (`internal/operatorbackup`) | a bundle of pointer, generation files, database and ledger | copy in pieces, verify, publish by rename | a bundle is one state of the host, although the daemon runs and dies meanwhile |
| WireGuard endpoints (`internal/wireguard`) | endpoint cache with ages | resolve, refresh, expire | an endpoint outlives its age limit only while nothing newer is known |
| policy routing (`internal/routing`) | tunnel link, rules and routes | up, down, undo of a failed up | a failed up leaves nothing behind that down cannot remove |
| boot guard and network gate (`internal/bootguard`, `internal/netgate`, `packaging/initramfs`, `packaging/systemd`) | the deny-all guard of the initramfs, the resume guard, markers, the producers' drop-ins, the ready file | load, hold, swap, verify, hand off, gate, release | no moment without a table, no network before the hand-over, and the network comes up |
| feeds, GeoIP, blocks (`internal/threatintel`, `geo`, `blocks`) | claims of one source | replace a source's claims | modelled as inputs of the claims model |
| Docker (`internal/containers`) | - | read networks and bridges | input of the locks model |
| control API, web (`internal/api`, `cmd/nftfw-web`) | connections | framing, peer credentials, timeouts | timeouts are in the locks model |
| compiler, configuration, intent, policy | - | text to text | pure functions, not modelled |
| discovery, adoption, health, audit | - | reports | read-only, not modelled |

**Interactions.** The operator's commands, the web page and the managed change reach the daemon through a Unix socket.
The daemon's handlers and its loop, the static timer process (`nftfwd --rollback-expired`) and the boot process
(`nftfwd --restore-active`) share the database, the files, the kernel and the lock file. The manager calls back into
the runtime (`PostRestore`) whenever it restores an older generation. A safe apply starts the timer's service before it
takes a lock and waits for it.

**What is hard.** A commit is three effects (row, rename, row) that a death can separate. An nft batch, a rename or an
SQLite commit can have happened although its caller sees an error. The deadline can pass at any point. Recovery runs in
another process that sees only the durable state. A change of the claims is compensated when its publication fails, and
the compensation can fail. Three locks are taken by two processes, and one callback runs under all of them. Marks of
connections outlive the ruleset that set them. A boot passes the host's protection through four tables, held by systemd
units that fail, wait and are restarted one by one, while a setup changes the very files they start from.
`PROJECT.json` lists these hazards line by line.

## Modules

| module | models |
|---|---|
| `EnforcementRegister` | what the generation lifecycle promises: a register, one candidate at a time, accepted or rejected once |
| `SafeApply` | manager, generations table, files, pointer and kernel, one step per durable or kernel effect |
| `SafeApplyProofs` | type correctness, one candidate, finality of decisions, the pointer under power loss |
| `SafeApplyPointerProofs` | pointer, fingerprints and kernel agree with the rows; the lifecycle implements the register |
| `ClaimPublication` | the claims table, its revisions, and the publication to the sets of the kernel |
| `ClaimPublicationProofs` | types, confirmed revisions, requests that are taken back, feeds that fit back, the limit |
| `MutationLocks` | claimMu, the lock file, Manager.mu and the rollback service |
| `MutationLocksProofs` | type correctness, no leak, no circular wait |
| `ManagedChange` | the command that replaces the managed files, its journal and recovery, over `EnforcementRegister` as its view of the daemon |
| `ManagedChangeProofs` | files and generation agree outside a journal, a journal has its backups |
| `SetupEngine` | the managed setup: its journal, phases, reboot, rollback, forward recovery, watchdog and boot hold |
| `SetupEngineProofs` | types, accepted journals, what a rollback restores and removes, backups, kept commits |
| `ProvenanceLedger` | the ledger of interface ids, with the generations that are compiled, tried, published and restored by it |
| `OperatorBackup` | `nftfw backup`, over `ProvenanceLedger`: the bundle it copies in pieces |
| `OfflineMigration` | `nftfw state migrate`, beside a process of the older release that writes the source |
| `OperatorState` | the composition of the three on one host |
| `OperatorStateProofs` | types, one meaning per id, restorations are never refused, bundles restore, migrations are exact |
| `BootSequence` | the tables, gates and units between the initramfs and the committed ruleset, over several boots |
| `BootSequenceProofs` | type correctness, and that the host is never open on the way |
| `MCSafeApply`, `MCClaimPublication`, `MCMutationLocks`, `MCManagedChange`, `MCSetupEngine`, `MCOperatorState`, `MCBootSequence` | constants and symmetries for TLC |

Operators whose comment begins with "Mutant" are plausible bugs of the operator they stand next to. They are not part
of any specification; substituting one for its neighbour must break the property named for it in `PROJECT.json`.

### SafeApply

`status`, `deadline`, `hash` are columns of the generations table; `script`, `snapshot`, `prev`, `thisBoot` are the
immutable files; `ptr` is the pointer as readers see it and `ptrDisk` what a power loss would leave; `kernel` names the
generation whose script is installed, or nothing, emergency deny, or something foreign. Every transaction holds the
mutation lock, so one program counter `pc` with its generation `cur` and its process `actor` is enough, and
concurrency is what happens between transactions: deaths, reboots, passing deadlines, drift, and whichever transaction
comes next. Actions are named for the functions they model (`PrepareCommit`, `FinalizeCommit`, `RollbackLocked`,
`RecoverPending`, ...). A failed step is a disjunct of that step which uses up one of `MaxFaults`; where the code
cannot know whether the effect happened, both outcomes are there. A generation's script is a model value and its
fingerprint the generation's number. Checks that reject damaged files are failures of the step that reads them.

Abstracted: the lock itself (see `MutationLocks`), the mutable sets (one step, `RestoreRuntime`, that may end in
emergency deny; see `ClaimPublication`), script text, audit rows.

### ClaimPublication

`claims` and `expired` are the rows; `revision` says whether applied_revision equals desired_revision, and `prepared`
whether desired_revision is still the one that the publication in progress prepared; `live` and `table` are the
kernel. The revisions themselves are unbounded counters of which the code only ever compares these two facts. A
refresh is five steps (`Purge`, `Prepare`, `Read`, `Replace`, `Mark`) and `undo` says what its failure takes back: an
added or removed claim, a set of feeds, an apply, or, inside the manager, the ruleset itself (emergency deny). The
manager's transactions appear as what they may do to the ruleset (`Installed`): a compiled generation carries the
block claims it was compiled with and none of the leases. `unmarked` is history: a rollback, which marks the
publication pending only after it has succeeded, failed since the last publication. The retirement of feeds that were
removed from the configuration is not modelled.

### MutationLocks

Each actor is at a label; the label that is the name of a lock means waiting for it. Handlers of control requests give
up when their context ends, except at `Manager.mu`; the loop and the service wait for ever. The service has a manager
of its own and shares only the lock file.

### ManagedChange

`intent` and `config` are the two managed files, each as the policy it says; `oldIntent`, `oldConfig` and `journal` are
the files of the managed-change directory; `pc`, `want`, `rec`, `failed` are the command that holds the setup lock,
which may be `managed-recover` started by the timer. The daemon is the register of `EnforcementRegister` (whose
`Propose`, `Accept` and `Reject` are instantiated, and which `SafeApply` implements) with the policy each generation was
compiled from. Each write of a file is a step that can fail with or without its effect. A request is one step for a
client that gets its answer; `lateApply` and `lateCommit` are requests whose client died or gave up. The journal's phase
is left out because nothing reads it. Not modelled: other clients that commit or roll back a generation of a managed
change, edits of the files by hand, damage of journal or backups, and the daemon's rebind of a renamed Docker bridge
(`internal/app/runtime.go:1233`), which commits a generation of its own and rewrites `nftfw.toml` without the setup
lock. `lost` is history: a commit was accepted, or may still be, although its client saw an error or is gone; finding 3
is about that case.

### SetupEngine

`journal` is `setup/journal.json` and `archive` its history; a journal has a transaction, a phase, a status, the
generation, the committed flag and what its backup holds. `pc` and `mem` are the process that has the setup lock:
`nftfw setup`, `setup rollback` of the operator or of the watchdog's timer, or the boot hold. `files`, `boot` and
`kernel` are the managed files, the boot loader with the initramfs, and what the running kernel was booted with, each
as it was before, as setup wants it, or half changed. `enabled` and `active` are the units that matter; `rows` and
`policy` the generations of the daemon and the one in the kernel (`SafeApply` has their details).

A phase of `Engine.Run` is `Enter` (deadline, write of the phase), its own action (`Backup`, `PrepareBoot`,
`StartGuard`, ...) and `Leave` (write of the result). `Engine.fail` and the recovery half of `setupRollbackCommand` do
the same to a journal and are the same actions: `Inspect` asks the daemon if a commit is undecided, `Decide` writes the
direction, then `RecoverCommitted` or the five `Rollback...` steps carry it out. The watchdog reads without the lock
(`WatchdogRead`) and looks again with it (`WatchdogLock`). `Retired` is what a second setup demands of the host.
`Prepared`, `RunningManaged`, `Restored` and `ResumeReady` are the looks at boot loader, kernel and backup on which these
commands decide; `Up` and `Down` are `internal/routing` as setup uses it.

Only setups with the managed boot policy are modelled, which include all phases of the others. Not modelled: the hold
on Docker (only that its failure ends a rollback early), the rules of the resume guard, discovery of the host, the text
of files and rules, and the refusals of `Prepare` that leave everything as it is.

### ProvenanceLedger, OperatorBackup, OfflineMigration, OperatorState

`alloc` and `retired` are the tables of `provenance-ledger.db` and `file` says how far its creation got. A compilation
(`StartCompile`, `AuditForeign`, `Reserve`, `Compile`, `WriteFiles`, `InsertRow`, `InstallCandidate`) belongs to an
apply or to a plan, which ends after `Compile`; commit, rollback, reconciliation and boot recovery are the steps of
`SafeApply` as far as they write rows, pointer and kernel. `meanings` collects every assignment that was ever in the
kernel, because a connection keeps its mark when the ruleset changes. `MergeFrom` is modelled although nothing calls
it yet.

`OperatorBackup` takes the mutation lock like the daemon's transactions and copies pointer, generation files, database
and ledger one after the other into `copy`, which `VerifyBundle` checks and `PublishBundle` renames. A death leaves the
name used. `OfflineMigration` reads the source in two pages, as many as it takes for a reader to see half of a write;
each reading (hash, copy, second reading, final hash) is two steps between which `WriteSource`, a process of the older
release, may write. `OperatorState` composes them: one lock, one kernel, one count of faults; daemon and backup run on a
host of this release, the migration on one that still has the older database.

### BootSequence

`host` is what is on the disk (the pieces `PrepareBoot` publishes, the producers' drop-ins, enabled units, the
pointer) and what goes with a boot (tables, the hold's ready file, the dependencies that systemd has loaded). `hold`,
`early`, `ready` are the three units and `net`, `need` the start jobs of the producers with what they still wait for.
`pc` and `mode` are the setup, its forward recovery or its rollback, whose steps are those of `SetupEngine` that touch
tables, gates or units; the journal is reduced to what boot and recovery decide on (`prepared` is `reboot_required`,
`rolling_back` includes `rollback_failed`, `committed` every status with the committed flag, `rolled_back` also
`rollback_reboot_required`). systemd itself is external: a start job waits for the units it requires and is refused
when one fails; `daemon-reload` runs the generator. `calm` is history: since the boot nothing failed and no command
began. Not modelled: the hold on Docker, the single steps of `HandoffBootPolicy` (a step of `SetupEngine`), the rules
in the tables, and the daemon after the completed setup.

## Runs

| run | shows | bounds |
|---|---|---|
| `safe_apply` | types, one candidate, a live candidate is tracked, recovery never meets a state it refuses, the pointer is the last committed generation and only advances, `SafeApply` implements `EnforcementRegister`; a stale candidate is decided and enforcement comes back | 3 generations, 1 script, 3 faults |
| `power_loss` | decisions are final and the pointer never names a candidate that was given up, also when a power loss may undo an unsynchronised rename | 3 generations, 2 scripts, 3 faults |
| `unsynced_rename` | finding 1 | the same as `power_loss` |
| `claims` | a confirmed revision is in the kernel unless a rollback failed since, failed changes are taken back exactly, feeds fit back under the limit, the limit holds, diverging sets are put right | a block and a lease that can expire, 2 feeds of 1 claim, limit 2, 2 faults |
| `locks` | no circular wait, no leaked lock, every request ends | 3 requests, the loop, the service |
| `rebind_in_restore` | finding 2 | 2 requests, the loop, the service |
| `managed_change` | a file differs from the policy in force only under a running journal, which has its backups; a committed change keeps its files, and an expired one is finished or taken back by the timer, both unless a commit went astray | 3 policies, 3 generations, 3 faults |
| `uncertain_commit` | finding 3 | 1 fault |
| `setup` | recovery accepts every journal that a setup, a recovery or a death can leave; a committed setup is kept; one closed as rolled back is undone, its generation included; a retry never backs up leftovers; the watchdog ends an expired one unless something fails again, the boot hold has the lock or the daemon is down | 2 setups, 2 faults, 2 reboots |
| `setup_degraded` | finding 4 | 2 setups, 2 faults, 2 reboots |
| `operator_state` | an id never means two interfaces, restorable generations verify, a bundle is one state of the host, a migrated database is exact | 2 names, 2 ids, 2 generations, 2 faults, 2 files in a bundle, 2 backup names, 1 foreign write |
| `boot_sequence` | a managed boot is never without a table and its network waits for the hand-over; in a boot where nothing fails the network comes up | 2 producers, 3 boots, 2 faults, 2 restarts |

Why the bounds are enough: three generations give a candidate with a committed predecessor that itself had one, and a
first generation that was rolled back before. Two scripts are the least that lets a retried number meet a file with
other content (`power_loss`); nothing that `safe_apply` checks depends on what the scripts say. Three faults let an
operation fail, its recovery fail, and the recovery of that fail. With two feeds of one claim, a block and a limit of
two, one feed can grow exactly by what the other gave up, which is when the order of restoration matters. Three policies
let an abandoned apply compile the files of a later change, which differ from both the old and the abandoned ones. Two
setups are a failed one and its retry; two faults let a phase fail and its rollback fail, or a death follow a lost
answer; two reboots are the one that a setup asks for and one more, which may be the one that its rollback asks for.
Three requests give one holder, one waiter for each lock and one that competes with the waiter. Two names and two ids
are an assignment and one that conflicts with it; two generations are a published one and a candidate, whose files fit
into a bundle, so that the refusal of too many files is reached only through its other cause, debris among them; one
write is enough to tear a reading of two pages. Two producers let one start while the other is still held or gated;
three boots are the one the setup asks for, one in the middle of its completion or rollback, and one afterwards.

`CHECK_DEADLOCK FALSE` stands where the numbers or faults run out and the system may rest; `MutationLocks`, `OperatorState` and
`ManagedChange` are checked for deadlock as well.

**Fairness.** `SafeApply`: a transaction in progress continues (weak fairness), and the tickers of the daemon loop (5 s,
30 s) and of the systemd timer, which poll the lock and start again after every error, start their transactions again
and again (strong fairness, because a competing transaction may hold the lock each time they look).
`ClaimPublication`: the same for the claim ticker (15 s), the reconciliation ticker and systemd's restart of the
daemon. Faults are finite in both, so what is shown is recovery after the last of them. Operators are never assumed to
do anything. `ManagedChange`: a command goes on (each request has a time limit), deadlines pass, the daemon decides what expired
(`safe_apply`), and the timer's `managed-recover --expired` finds the setup lock free again and again.
`SetupEngine`: a process that does not die goes on (every call it makes has a time limit), and systemd starts the
watchdog every 15 seconds (weak fairness of both; deaths, failures and reboots are finite). `ExpiredEnds` says of every
number of faults and reboots so far that the transaction ends or another one comes.
`BootSequence`: systemd runs the jobs of a boot (weak fairness of the three units' steps and of each producer's
start); setups and rollbacks may stop at any step. `NetworkReturns` speaks only of boots in which nothing fails and no
command begins.
`MutationLocks`: running code runs on and contexts time out; nothing is assumed about who obtains a
polled lock.

## Findings

1. `unsynced_rename` (`internal/reconcile/manager.go:448`): a rollback that finds the pointer already published
   finalizes the commit without the synchronisation that the other recovery paths do first. After a failed directory
   synchronisation and a power loss the row is committed and the pointer still names its predecessor, which boot
   recovery refuses.
2. `rebind_in_restore` (`internal/app/runtime.go:1219`): a restoration that finds a renamed Docker bridge applies a
   generation and waits for `Manager.mu`, which its own thread holds. It keeps the mutation lock for ever.
3. `uncertain_commit` (`cmd/nftfw/managed.go:1062`): a managed change treats every error of its commit request as if
   nothing had been committed and restores the old files. The daemon also reports an error when it has committed and
   the refresh of the sets behind it fails. The old files then stand under the new generation, recovery refuses that
   with MANAGED_RECOVERY_FILE_IDENTITY_MISMATCH at every attempt, and later changes are kept out.

4. `setup_degraded` (`internal/setup/system.go:1813`): the question whether a generation was committed is answered from
   a health report. A daemon that answers but cannot read nftables, or sees drift, reports nothing active, which is
   taken for "not committed": with a lost answer to the commit, recovery restores the old files, stops the daemon and
   removes the guard under a committed row. `docs/RECOVERY.md:91` promises SETUP_COMMIT_STATE_UNKNOWN and no rollback.

Limits that the models show and that no run states as a violation:

* the rollback of an applied first generation deletes the tables, although the comment at
  `internal/reconcile/manager.go:509` says that emergency deny was published before;
* the rollback of an expired candidate marks the claim publication pending after the fact (`internal/app/runtime.go:930`,
  `cmd/nftfwd/main.go:188`); after a death in between, the status reports a confirmed revision over stale sets until the
  next refresh. `ClaimsConfirmed` therefore excepts `unmarked`, and `DivergenceHeals` shows that the refresh puts it right;
* a setup that dies after its apply and before the journal has the generation's number (`internal/setup/engine.go:235`)
  is rolled back without it; the pending row makes `Retired` refuse a retry;
* a rollback that could not reach the daemon stops it all the same, so a retry cannot reach it either and stays at
  `rollback_failed` until someone starts the daemon; so does `commit_state_unknown` after a reboot;
* a rollback stops and disables the watchdog before it closes the journal (`internal/setup/system.go:1994`): after a
  death or a reboot in between, the journal stays at `rolling_back` until an operator runs `setup rollback`.
  `ExpiredEnds` does not take a stopped watchdog for an end, and excuses only what fails or reboots after the expiry;
* after a reboot in a phase between the resume and the handoff, the boot hold keeps the setup lock without a time limit
  over a journal it cannot resume, and `setup rollback` finds the lock taken. `ExpiredEnds` excepts it. A reboot in the
  middle of a rollback, with the hold marker still on the disk, and a producer that is restarted under a leftover or
  freshly generated hold (a package's `daemon-reload` before the setup's reboot is enough) start the same wait;
* a death between the rebuilding of the initramfs and the update of GRUB (`internal/setup/system.go:547`) leaves an
  initramfs that requires a kernel argument nobody passes: the next boot stays in `block_boot`, closed, until someone is
  at the console;
* a reboot after the final gates and before the units are enabled finds readiness required and `nftfw-early` not
  started: the network stays down until the watchdog's recovery has completed the setup;
* during a setup a restarted producer is refused, because the hold it requires finds the setup lock taken;
* a plan reserves ids like an apply (`internal/app/runtime.go:651`), and a reservation outlives a refused or rolled-back
  apply: a name that such a configuration leaves out is retired for good, and the committed configuration that uses it
  can be restored but not compiled again;
* the temporary file of a dead writer among the generation files makes every later backup fail
  (`internal/operatorbackup/backup.go:422`), and generation files are never pruned below `maxFiles`;
* a directory synchronisation that fails after the rename or link reports an error over a result that is in place
  (`internal/operatorbackup/backup.go:212`, `internal/state/offline_migration.go:659`);
* `MigratedExact` says that the migrated bytes were the source's at one moment; if the older release had itself written
  half of something then, and the half passes SQLite's checks, so does its migration. The mutation lock does not keep
  a process of the older release out;
* a death between the immutable files and the row (`internal/state/store.go:494`) leaves files under a number that the
  next apply reuses; other content is then refused (`power_loss` reaches this), and `writeImmutable` accepts an existing
  file without synchronising it again (`internal/state/active.go:479`), which the models do not distinguish;
* an applied row of a direct apply has no deadline and is not stale in the boot it was made in
  (`internal/reconcile/recovery.go:150`), so after a death it waits for the operator; `StalePendingResolved` speaks of
  stale rows;
* the daemon's rebind of a renamed Docker bridge (`internal/app/runtime.go:1219`) reads the configuration from the disk
  and holds the mutation lock only, so it can fall between the files of a managed change and its apply. What
  `managed_change` shows is for hosts on which no bridge is renamed meanwhile;
* `nftfwd --handoff-initramfs-guard` does not look at the ruleset again (`cmd/nftfwd/main.go:122`). `NetworkGuarded` rests
  on nothing of nftfw removing a committed ruleset; a foreign program that removes it after the verification is not
  modelled;
* the managed-change directory is created anew for every change and its parent is never synchronised
  (`cmd/nftfw/managed_recovery.go:228`): `ManagedChange` has deaths, not power losses.

## Proofs

Checked by TLAPS, for every value of the constants that satisfies the named `ASSUME`s:

* `SafeApplyProofs`: `TypeCorrect`, `OneCandidate` (`AtMostOneInFlight`) and `DecidedForGood` (`DecisionsAreFinal`), for
  any number of generations, scripts and faults, with or without power loss. `AtMostOneInFlight` is not inductive:
  `InsertRow` adds a row long after `StartApply` looked for one, and `FinalizeCommit` or `MarkRolledBack` would reverse
  a decision if `cur` were already decided. `StatusInv` adds what each step knows of its row (`StatusAtPc`): no
  candidate between the look and the insertion, in flight at every step that decides. `SetStatusStep` treats once what
  all status updates share, and one step per action does the rest. `PointerAccepted` (`PointerIsCommitted`) covers the
  pointer that a power loss brings back. `DurableInv` says the same of `ptrDisk`, and that a prepared generation which has
  reached the disk is also the one readers see; without that, a rollback that finds the candidate unpublished could mark
  the row of the durable pointer. No fact about predecessors is needed, so it holds where `PointerIsLatest` does not.
* `SafeApplyPointerProofs`, for `PowerLoss = FALSE`: `RecoveryNeverAmbiguous` (`RecoveryUnambiguous`), `KernelAccounted`
  (`CandidateTracked`), `PointerIsLatest` (`PointerIsLatestCommitted`), `PointerForwardOnly` (`PointerOnlyAdvances`) and
  the refinement `LifecycleIsRegister` (`ImplementsRegister`). They all rest on `PointerInv`: a candidate's predecessor is
  the last committed generation and is older than it (`ChainInv`), a recorded fingerprint is that of the generation's own
  ruleset and a prepared or committed one has it (`HashInv`), and each step knows where the pointer stands and what the
  kernel holds (`PointerAtPc`). The part that is easy to miss is that the kernel still holds the candidate between the
  health check and the rename: without it the rename could leave the predecessor's ruleset live and unaccounted for.
  `DecisiveSteps` lists the steps that move the abstract register, and `RegisterStep` shows which move each one is.
  The assumption is needed: `SafeApplyUnsyncedRename` is the counterexample without it.
* `MutationLocksProofs`: `LocksReleased` (`NoLeak`) and, if no restoration rebinds a bridge, `NoCircularWait`
  (`NoWaitCycle`), for any number of concurrent requests. The invariant `HoldInv` says that an actor's position
  determines the locks it holds. A group that waits for itself is then impossible because its member with the innermost
  lock (mu, else the lock file, else the service, else claimMu) waits for nobody in the group.
* `ManagedChangeProofs`: `FilesFollowGeneration` (`NoUnjournaledChange`) and `ChangeRestorable` (`BackupsIntact`), for any
  number of policies, generations and faults, with uncertain and late commits; `CommittedForward`
  (`CommittedKeepsFiles`), which excepts the commits that finding 3 is about; `ChangeTypes`. None is
  inductive: a journal may be closed as rolled back only because no request, late or not, can still bring its generation
  into force. `ChangeInv` says so: the policy in force is the journal's old one or its generation made it the new one
  (`JournalInv`), a late commit can only hit the generation of a running journal (`LateInv`), the command's record is the
  journal (`RecordInv`), and after a rollback that succeeded the generation is neither tried nor in force (`FilesInv`).
* `ClaimPublicationProofs`: `ClaimTypes`, `ClaimsAreConfirmed` (`ClaimsConfirmed`), `RequestsAreTakenBack` (`TakenBack`),
  `FeedsAlwaysFitBack` (`FeedsFitBack`) and `ClaimsWithinLimit` (`WithinLimit`), for any claims, feeds, limit and faults.
  `ClaimInv` adds what a publication knows of its revision and of what it read (`ReadInv`), `ClaimsConfirmed` for every
  state but those of a rollback on its way (`PublishedInv`), and what taking a change back would restore at each step
  until then (`UndoInv`): a replaced feed's claims are in `prior`, all others still in force. `FeedsFitBack` compares the
  sizes of several feeds at once; the proof needs no sum, because it maps the claims after one restoration one to one
  into those from before the request, feed by feed, shrinking sources first.
* `SetupEngineProofs`: `SetupTypes`, `JournalsAreAccepted` (`JournalAccepted`), `RollbackRestores`
  (`RolledBackIsRestored`), `BackupsHoldPrior` (`BackupsArePrior`) and `RollbackRemovesGeneration` (`GenerationGone`), for
  any number of setups, reboots and faults and whatever the daemon reports; `CommitIsKept` (`CommittedStays`) if the report
  has looked at nftables, which `setup_degraded` shows to be needed. The properties speak of the journal on the disk and
  of the host, and every step acts on the journal in memory. `SetupInv` ties the three together: which journals can be on
  the disk at all (`DiskInv`), what the process has in memory next to what it has written (`MemInv`, `StageInv`), which
  generation belongs to which transaction (`CountInv`, `GenInv`), what the journal says of the host (`HostInv`), and what
  a rollback has undone so far if none of its steps failed (`UndoneInv`). The last is what makes it safe to write
  `rolled_back` at the end: `broken` is the only memory that the code has of a step that went wrong. `KeepInv` adds that
  no direction other than forward is ever written over a commit.
* `OperatorStateProofs`: `MarksKeepMeaning` (`OneMeaning`) and `RestorationNeverRefused` (`RestorableVerifies`), for any
  names, ids, generations and faults. `OneMeaning` is about the history of the kernel and says nothing of the ledger;
  `LedgerInv` adds that the ledger is one-to-one, only grows and contains whatever was compiled, installed or saved
  (`LedgerHolds`). `UnionOneToOne` is the fact on which reservations and merges rest. `MigrationExact` (`MigratedExact`)
  rests on what each step of the migration knows of its digest, buffer and work file: the work file is a copy of a
  backup whose bytes were read twice with the same result and compared with a digest of one moment. `OperatorTypes`
  (`TypeOK`) needs that invariant as well, because a backup is typed by what was read. `BundlesRestore`
  (`BundleRestorable`) is about copies made at different times. `BundleInv` says that the holders of the mutation lock
  exclude each other (`LockInv`), so what has been copied is still what the host has (`CopyInv`); that pointer and rows
  agree in every state in between, a candidate being the newest generation (`RowsInv`); and that the files a bundle's
  pointer names are never written again (`BundlesInv`), because `WriteFiles` accepts an existing file only unchanged.
* `BootSequenceProofs`: `BootTypes` and `NetworkNeverOpen` (`NetworkGuarded`), for any number of producers, boots,
  restarts and faults. The property says nothing of what is about to start; `BootInv` adds what the journal says of the
  disk (`DiskInv`: a prepared journal has every piece, a committed one the hold marker or all gates), what each step
  of a command knows (`StepInv`: gates are published only after readiness), and what stands before the network
  (`GuardInv`: systemd has loaded the hold or all gates, a verified readiness means the rules are in the kernel, and a
  producer that nothing holds back any more implies that the deny-all guard is gone).

Every invariant and every action property that a passing run checks is also proved. Only model-checked is liveness
(`StalePendingResolved`, `EnforcementRestored`, `DivergenceHeals`, `RequestsEnd`, `ExpiredResolved`, `NetworkReturns`,
`ExpiredEnds`): it rests on fairness and ENABLED, which the prover does not treat. The types of `MutationLocks` are proved
(`LockTypes`) and not checked by a run. The inductive invariants were checked by TLC on the instances of the runs before
they were proved.

## Plan

Done: `EnforcementRegister`, `SafeApply`, `ClaimPublication`, `MutationLocks`, `ManagedChange`, `SetupEngine`,
`ProvenanceLedger`, `OperatorBackup`, `OfflineMigration`, `OperatorState`, `BootSequence`, and the proofs above. Next:

1. `RoutingTransaction` (`internal/routing`: rules and routes one by one; two tunnels brought up at the same time take
   no lock) and `EndpointCache` (`internal/wireguard`: ages of resolved endpoints).

## Not modelled

* Text generation and parsing (compiler, configuration, intent, WireGuard profiles, GRUB and unit files): functions
  from text to text that keep no state another step depends on. A script, a configuration and a unit are values.
* Reports and read-only inspection (health, discovery, adoption, audit, the read-only store): they change nothing. Where
  a decision rests on a report (`GenerationCommitted`), the report is part of that model.
* Request framing, peer credentials and connection limits of the control API, and the web page, which only reads.
* Downloading and parsing of feeds and GeoIP data; the claims they produce are inputs of `ClaimPublication`.
* The single routes and rules of `internal/routing`, the endpoint cache of `internal/wireguard` and the reading of the
  Docker API: planned, or only inputs of the models that use them.
* The hold on Docker during a setup: its failure is a failed step of `SetupEngine`.
* Permission, ownership and link-count checks of files: a file that fails one is the failure of the step that reads it.
