--------------------------- MODULE ClaimPublication ---------------------------
(***************************************************************************)
(* Runtime claims: the blocked and temporarily trusted addresses that the  *)
(* daemon (internal/app) keeps as rows of the claims table and publishes   *)
(* to sets of the installed ruleset.  Two revisions say whether the kernel *)
(* has what the table has: every change of the table, and every operation  *)
(* that may replace the ruleset, raises the desired one, and a completed   *)
(* publication makes the applied one equal.                                *)
(*                                                                         *)
(* Every transaction holds the mutation lock; pc = "free" means nobody     *)
(* does.  A step is one database transaction or one nft batch.             *)
(***************************************************************************)
EXTENDS Naturals, FiniteSets

CONSTANTS Claims,      \* the claims anybody may ask for
          Source,      \* Source[c]: "manual", "allow" or the name of a feed
          Feeds,       \* the configured threat feeds and GeoIP sets
          Temporary,   \* the claims that have an expiry
          MaxClaims,   \* runtime.max_block_claims
          MaxFaults    \* bound: failed operations, deaths and reboots

ASSUME ClaimConstants ==
    /\ IsFiniteSet(Claims)
    /\ Source \in [Claims -> Feeds \cup {"manual", "allow"}]
    /\ Temporary \subseteq Claims
    /\ {c \in Claims : Source[c] = "allow"} \subseteq Temporary
    /\ {c \in Temporary : Source[c] \in Feeds} = {}
    /\ MaxClaims \in Nat \ {0} /\ MaxFaults \in Nat

VARIABLES
    claims,     \* the rows of the claims table
    expired,    \* those whose expires_at has passed
    revision,   \* "published" if applied_revision = desired_revision
    prepared,   \* "valid" while desired_revision is the one Prepare returned
    read,       \* the claims that the publication in progress has read
    live,       \* the claims in the sets of the kernel
    table,      \* the owned filter table: "absent", "policy" or "deny"
    daemon,     \* "down", "starting" or "up"
    pc,         \* next step of the transaction that holds the lock
    undo,       \* what a failed publication has to take back
    prior,      \* the old claims of each feed this transaction replaced
    target,     \* the claim of an operator's request
    before,     \* history: the claims in force when the transaction began that
                \*   have not expired since
    unmarked,   \* history: a rollback, which marks the publication only when it
                \*   has succeeded, failed since the last publication
    faults

session == <<pc, undo, prior, target, before>>
kernel == <<live, table>>
trouble == <<unmarked, faults>>
vars == <<claims, expired, revision, prepared, read, kernel, daemon, session, trouble>>

Labels == {"free", "feeds", "purge", "prepare", "read", "replace", "mark",
           "compensate", "refeed", "install", "unapply", "rollback", "rolled_back", "endpoints"}

\* A refresh is the tail of a request that can take back its change, of an
\* apply that is rolled back if the refresh fails, of a restoration inside the
\* Manager ("runtime", "expired" for that of an expired candidate), or of
\* nothing.  "done" is the second refresh, after the change was taken back.
Undo == {"nothing", "remove", "restore", "feeds", "done", "apply", "runtime", "expired"}

Active == claims \ expired
Of(f) == {c \in Claims : Source[c] = f}
Operators == {c \in Claims : Source[c] \in {"manual", "allow"}}
\* What a compiled generation can hold: trusted addresses are left out of it.
Compiled == {c \in Claims : Source[c] # "allow"}

NoPrior == [f \in {} |-> {}]

-----------------------------------------------------------------------------
(* Building blocks. *)

\* A failure, which leaves a rollback unmarked.
Fault ==
    /\ faults > 0 /\ faults' = faults - 1
    /\ unmarked' = (unmarked \/ undo \in {"runtime", "expired"}
                             \/ pc \in {"unapply", "rollback", "rolled_back"})

Goto(l) == pc' = l /\ UNCHANGED <<undo, prior, target, before>>

\* The transaction ends and releases the lock.
End(up) ==
    /\ pc' = "free" /\ undo' = "nothing" /\ prior' = NoPrior
    /\ target' = {} /\ before' = {}
    /\ daemon' = IF daemon = "starting" THEN up ELSE daemon

Begin(l, u, cs) ==
    /\ pc = "free" /\ pc' = l
    /\ undo' = u /\ target' = cs /\ prior' = NoPrior /\ before' = Active

\* markClaimPublicationDirtyTx, in the transaction of every change of a row.
Dirty == revision' = "pending" /\ prepared' = "stale"

\* restoreRuntimeOrDeny after an error: emergency deny, unless that fails too.
DenyOr(lives) ==
    \/ table' = "deny" /\ live' = {}
    \/ table' = table /\ live' \in lives

\* An error during a refresh, with one of lives in the sets.
Failed(lives) ==
    \/ /\ undo \in {"nothing", "done"}
       /\ End("down")
       /\ live' \in lives /\ UNCHANGED table
    \/ /\ undo \in {"remove", "restore", "feeds"}
       /\ Goto("compensate")
       /\ live' \in lives /\ UNCHANGED <<table, daemon>>
    \/ /\ undo = "apply"
       /\ Goto("unapply")
       /\ live' \in lives /\ UNCHANGED <<table, daemon>>
    \/ /\ undo \in {"runtime", "expired"}
       /\ DenyOr(lives)
       /\ End("down")

\* The refresh is done; inside the Manager the other runtime sets follow.
Refreshed ==
    IF undo \in {"runtime", "expired"} THEN Goto("endpoints") /\ UNCHANGED daemon
                                      ELSE End("up")

-----------------------------------------------------------------------------
(* refreshClaimSetsLocked. *)

\* The periodic refresh.
ClaimTick ==
    /\ daemon = "up"
    /\ Begin("purge", "nothing", {})
    /\ UNCHANGED <<claims, expired, revision, prepared, read, kernel, daemon, trouble>>

\* PurgeExpiredClaims.
Purge ==
    /\ pc = "purge"
    /\ \/ /\ claims' = Active /\ expired' = {}
          /\ IF expired = {} THEN UNCHANGED <<revision, prepared>> ELSE Dirty
          /\ Goto("prepare")
          /\ UNCHANGED <<kernel, daemon, trouble>>
       \/ UNCHANGED <<claims, expired, revision, prepared>> /\ Failed({live}) /\ Fault
    /\ UNCHANGED read

\* PrepareClaimPublication: until MarkClaimsPublished the revisions differ.
Prepare ==
    /\ pc = "prepare"
    /\ \/ /\ revision' = "pending" /\ prepared' = "valid"
          /\ Goto("read")
          /\ UNCHANGED <<kernel, daemon, trouble>>
       \/ UNCHANGED <<revision, prepared>> /\ Failed({live}) /\ Fault
    /\ UNCHANGED <<claims, expired, read>>

\* ClaimsWithPublication and the computation of the sets.
Read ==
    /\ pc = "read"
    /\ \/ read' = Active /\ Goto("replace") /\ UNCHANGED <<kernel, daemon, trouble>>
       \/ UNCHANGED read /\ Failed({live}) /\ Fault
    /\ UNCHANGED <<claims, expired, revision, prepared>>

\* Mutant: the sets are not flushed before the new elements are added.
ReplaceUnflushed ==
    /\ pc = "replace" /\ table = "policy"
    /\ live' = live \cup read /\ Goto("mark")
    /\ UNCHANGED <<claims, expired, revision, prepared, read, table, daemon, trouble>>

\* ReplaceClaimSets.  Without the filter table there is nothing to do, and the
\* emergency-deny table has no sets.
Replace ==
    /\ pc = "replace"
    /\ \/ /\ table = "policy"
          /\ live' = read /\ Goto("mark")
          /\ UNCHANGED <<table, daemon, trouble>>
       \/ table = "policy" /\ Failed({live, read}) /\ Fault
       \/ table = "deny" /\ Failed({live}) /\ UNCHANGED trouble
       \/ /\ table = "absent"
          /\ Refreshed
          /\ UNCHANGED <<kernel, trouble>>
    /\ UNCHANGED <<claims, expired, revision, prepared, read>>

\* MarkClaimsPublished.
Mark ==
    /\ pc = "mark"
    /\ \/ /\ prepared = "valid" /\ revision' = "published"
          /\ Refreshed
          /\ unmarked' = FALSE /\ UNCHANGED <<kernel, faults>>
       \/ /\ revision' \in {revision, "published"}
          /\ prepared = "valid"
          /\ Failed({live}) /\ Fault
    /\ UNCHANGED <<claims, expired, prepared, read>>

-----------------------------------------------------------------------------
(* Requests of the operator: block-add, allow-add, block-remove, allow-remove. *)

\* Mutant: the claim that is added is not counted.
AddOverLimit(c) ==
    /\ daemon = "up" /\ c \in Operators \ claims
    /\ Cardinality(Active) <= MaxClaims
    /\ Begin("purge", "remove", {c})
    /\ claims' = claims \cup {c}
    /\ Dirty
    /\ UNCHANGED <<expired, read, kernel, daemon, trouble>>

\* AddClaimBounded.
Add(c) ==
    /\ daemon = "up" /\ c \in Operators \ claims
    /\ Cardinality(Active) < MaxClaims
    /\ Begin("purge", "remove", {c})
    /\ claims' = claims \cup {c}
    /\ Dirty
    /\ UNCHANGED <<expired, read, kernel, daemon, trouble>>

\* RemoveOperatorClaim of a claim that operatorClaimLocked found.
Remove(c) ==
    /\ daemon = "up" /\ c \in Operators \cap Active
    /\ Begin("purge", "restore", {c})
    /\ claims' = claims \ {c}
    /\ Dirty
    /\ UNCHANGED <<expired, read, kernel, daemon, trouble>>

\* Mutant: only the durable add is taken back, never the removal.
CompensateAdds ==
    /\ pc = "compensate" /\ undo \in {"remove", "restore"}
    /\ claims' = IF undo = "remove" THEN claims \ target ELSE claims
    /\ expired' = expired \ target
    /\ Dirty
    /\ pc' = "purge" /\ undo' = "done"
    /\ UNCHANGED <<prior, target, before, daemon, trouble, read, kernel>>

\* The compensation of an operator's request, and the second refresh.  A claim
\* that expired meanwhile cannot be removed any more: the request just fails.
Compensate ==
    /\ pc = "compensate" /\ undo \in {"remove", "restore"}
    /\ \/ /\ undo = "restore" \/ target \subseteq claims
          /\ claims' = IF undo = "remove" THEN claims \ target ELSE claims \cup target
          /\ expired' = expired \ target
          /\ Dirty
          /\ pc' = "purge" /\ undo' = "done"
          /\ UNCHANGED <<prior, target, before, daemon, trouble>>
       \/ /\ undo = "remove" /\ ~(target \subseteq claims)
          /\ End("down")
          /\ UNCHANGED <<claims, expired, revision, prepared, trouble>>
       \/ End("down") /\ Fault /\ UNCHANGED <<claims, expired, revision, prepared>>
    /\ UNCHANGED <<read, kernel>>

-----------------------------------------------------------------------------
(* refreshIntegrationsLocked. *)

StartIntegrations ==
    /\ daemon = "up" /\ Feeds # {}
    /\ Begin("feeds", "feeds", {})
    /\ UNCHANGED <<claims, expired, revision, prepared, read, kernel, daemon, trouble>>

\* ReplaceSourceClaimsBounded: the claims of f become cs, if the limit allows.
Fits(f, cs) == Cardinality(Active \ Of(f)) + Cardinality(cs) <= MaxClaims

\* Mutant: the old claims are read without their source.
ReplaceFeedOfAll(f, cs) ==
    /\ pc = "feeds" /\ f \notin DOMAIN prior
    /\ Fits(f, cs)
    /\ claims' = (claims \ Of(f)) \cup cs
    /\ prior' = [g \in DOMAIN prior \cup {f} |-> IF g = f THEN Active ELSE prior[g]]
    /\ Dirty
    /\ UNCHANGED <<expired, read, kernel, daemon, pc, undo, target, before, trouble>>

\* One source that is due; one that does not fit keeps its claims.
ReplaceFeed(f, cs) ==
    /\ pc = "feeds" /\ f \notin DOMAIN prior
    /\ Fits(f, cs)
    /\ claims' = (claims \ Of(f)) \cup cs
    /\ prior' = [g \in DOMAIN prior \cup {f} |-> IF g = f THEN Active \cap Of(f) ELSE prior[g]]
    /\ Dirty
    /\ UNCHANGED <<expired, read, kernel, daemon, pc, undo, target, before, trouble>>

\* The sources are done: publish if one of them changed.
FeedsReplaced ==
    /\ pc = "feeds"
    /\ IF DOMAIN prior = {} THEN End("up") ELSE Goto("purge") /\ UNCHANGED daemon
    /\ UNCHANGED <<claims, expired, revision, prepared, read, kernel, trouble>>

StartRestoreFeeds ==
    /\ pc = "compensate" /\ undo = "feeds"
    /\ Goto("refeed")
    /\ UNCHANGED <<claims, expired, revision, prepared, read, kernel, daemon, trouble>>

Growth(f) == Cardinality(prior[f]) + Cardinality(Claims) - Cardinality(claims \cap Of(f))

\* Mutant: the sources are restored in any order.
NextToRestoreAny(f) == f \in DOMAIN prior

\* restoreIntegrationClaims takes the sources that shrink most first.
NextToRestore(f) ==
    /\ f \in DOMAIN prior
    /\ \A g \in DOMAIN prior : Growth(f) <= Growth(g)

\* One source back to its old claims.  A source that cannot be restored is
\* reported and left as it is.
RestoreFeed(f) ==
    /\ pc = "refeed" /\ NextToRestore(f)
    /\ \/ /\ Fits(f, prior[f])
          /\ claims' = (claims \ Of(f)) \cup prior[f]
          /\ Dirty
          /\ UNCHANGED <<undo, trouble>>
       \/ /\ UNCHANGED <<claims, revision, prepared>>
          /\ undo' = "nothing"
          /\ IF Fits(f, prior[f]) THEN Fault ELSE UNCHANGED trouble
    /\ prior' = [g \in DOMAIN prior \ {f} |-> prior[g]]
    /\ UNCHANGED <<expired, read, kernel, daemon, pc, target, before>>

FeedsRestored ==
    /\ pc = "refeed" /\ prior = NoPrior
    /\ pc' = "purge"
    /\ undo' = IF undo = "feeds" THEN "done" ELSE undo
    /\ UNCHANGED <<prior, target, before>>
    /\ UNCHANGED <<claims, expired, revision, prepared, read, kernel, daemon, trouble>>

-----------------------------------------------------------------------------
(* Operations of the Manager, seen from the claims. *)

\* Mutant: the revisions are not touched before the ruleset may change.
StartGenerationUnmarked ==
    /\ daemon \in {"down", "up"}
    /\ Begin("install", "nothing", {})
    /\ daemon' = IF daemon = "down" THEN "starting" ELSE daemon
    /\ UNCHANGED <<claims, expired, revision, prepared, read, kernel, trouble>>

\* apply, commit, rollback, reconcile and the rebinding of Docker bridges, and
\* the reconciliation with which the daemon starts: PrepareClaimPublication
\* comes first.
StartGeneration ==
    /\ daemon \in {"down", "up"}
    /\ \E u \in {"nothing", "apply"} : (u = "apply" => daemon = "up") /\ Begin("install", u, {})
    /\ daemon' = IF daemon = "down" THEN "starting" ELSE daemon
    /\ revision' = "pending" /\ prepared' = "valid"
    /\ UNCHANGED <<claims, expired, read, kernel, trouble>>

\* A generation is installed with the claims it was compiled with, or nothing
\* happens, or the first generation's tables are removed.
Installed ==
    \/ table' = "policy" /\ live' \in SUBSET Compiled
    \/ UNCHANGED kernel
    \/ table' = "absent" /\ live' = {}

\* The operation succeeds and is followed by a refresh, or it restores an older
\* generation and rebuilds the runtime sets itself, or it fails.
Install ==
    /\ pc = "install" /\ Installed
    /\ \/ Goto("purge") /\ UNCHANGED <<daemon, trouble>>
       \/ /\ table' = "policy"
          /\ pc' = "purge" /\ undo' = "runtime"
          /\ UNCHANGED <<prior, target, before, daemon, trouble>>
       \/ End("down") /\ Fault
    /\ UNCHANGED <<claims, expired, revision, prepared, read>>

\* The rest of RestoreRuntimeState: the endpoint and container sets.  If they
\* fail, emergency deny replaces the ruleset; otherwise the operation goes on
\* to the refresh or the mark that follows it, or to an error.
Endpoints ==
    /\ pc = "endpoints"
    /\ \/ /\ pc' = IF undo = "expired" THEN "rolled_back" ELSE "purge"
          /\ undo' = "nothing"
          /\ UNCHANGED <<prior, target, before, kernel, daemon, trouble>>
       \/ daemon = "up" /\ End("up") /\ UNCHANGED <<kernel, trouble>>
       \/ Failed({live}) /\ Fault
    /\ UNCHANGED <<claims, expired, revision, prepared, read>>

\* The rollback of an applied generation whose claims could not be published,
\* with the restoration of the predecessor's runtime sets; a first generation's
\* tables are removed, and a committed generation stays.
Unapply ==
    /\ pc = "unapply"
    /\ \/ /\ table' = "policy" /\ live' \in SUBSET Compiled
          /\ pc' = "purge" /\ undo' = "runtime"
          /\ UNCHANGED <<prior, target, before, daemon, trouble>>
       \/ table' = "absent" /\ live' = {} /\ End("up") /\ UNCHANGED trouble
       \/ UNCHANGED kernel /\ End("up") /\ UNCHANGED trouble
       \/ Installed /\ End("up") /\ Fault
    /\ UNCHANGED <<claims, expired, revision, prepared, read>>

\* RollbackExpired, in the daemon or in the static timer, which takes the lock
\* whether the daemon is up or not.
StartExpired ==
    /\ daemon # "starting"
    /\ Begin("rollback", "nothing", {})
    /\ UNCHANGED <<claims, expired, revision, prepared, read, kernel, daemon, trouble>>

\* The predecessor is installed or the first tables are removed, which the
\* daemon takes for an error.  After an installation the daemon's manager
\* restores the runtime sets; the timer's has no PostRestore.  In both, the
\* publication is marked only after success.  A commit that is found published
\* and is finalized may have to be installed again, and is not marked.
RollbackExpired ==
    /\ pc = "rollback"
    /\ \/ Installed /\ Goto("rolled_back") /\ UNCHANGED <<daemon, trouble>>
       \/ /\ daemon = "up" /\ table' = "policy"
          /\ \/ live' \in SUBSET Compiled
             \/ live' = live /\ table = "policy"
          /\ pc' = "purge" /\ undo' = "expired"
          /\ UNCHANGED <<prior, target, before, daemon, trouble>>
       \/ table' = "absent" /\ live' = {} /\ End("down") /\ UNCHANGED trouble
       \/ UNCHANGED kernel /\ End("down") /\ UNCHANGED trouble
       \/ Installed /\ End("down") /\ Fault
    /\ UNCHANGED <<claims, expired, revision, prepared, read>>

\* PrepareClaimPublication after the rollback; the daemon then refreshes.
RolledBack ==
    /\ pc = "rolled_back"
    /\ \/ /\ revision' = "pending" /\ prepared' = "valid"
          /\ \/ Goto("purge") /\ daemon = "up" /\ UNCHANGED daemon
             \/ End("down")
          /\ UNCHANGED trouble
       \/ End("down") /\ Fault /\ UNCHANGED <<revision, prepared>>
    /\ UNCHANGED <<claims, expired, read, kernel>>

-----------------------------------------------------------------------------
(* The environment. *)

Expire(c) ==
    /\ c \in Temporary \cap Active
    /\ expired' = expired \cup {c} /\ before' = before \ {c}
    /\ UNCHANGED <<claims, revision, prepared, read, kernel, daemon>>
    /\ UNCHANGED <<pc, undo, prior, target, trouble>>

\* The daemon dies, in the middle of a transaction or not.
Die ==
    /\ daemon # "down" /\ Fault
    /\ pc' = "free" /\ undo' = "nothing" /\ prior' = NoPrior /\ target' = {} /\ before' = {}
    /\ daemon' = "down"
    /\ UNCHANGED <<claims, expired, revision, prepared, read, kernel>>

Reboot ==
    /\ Fault
    /\ pc' = "free" /\ undo' = "nothing" /\ prior' = NoPrior /\ target' = {} /\ before' = {}
    /\ daemon' = "down"
    /\ table' = "absent" /\ live' = {}
    /\ UNCHANGED <<claims, expired, revision, prepared, read>>

-----------------------------------------------------------------------------
\* The migration creates the revisions as 1 and 0.
Init ==
    /\ claims = {} /\ expired = {}
    /\ revision = "pending" /\ prepared = "stale" /\ read = {}
    /\ live = {} /\ table = "absent"
    /\ daemon = "down"
    /\ pc = "free" /\ undo = "nothing" /\ prior = NoPrior /\ target = {} /\ before = {}
    /\ unmarked = FALSE /\ faults = MaxFaults

Refresh == Purge \/ Prepare \/ Read \/ Replace \/ Mark

FeedSteps ==
    \/ \E f \in Feeds : (\E cs \in SUBSET Of(f) : ReplaceFeed(f, cs)) \/ RestoreFeed(f)
    \/ FeedsReplaced \/ StartRestoreFeeds \/ FeedsRestored

Step ==
    \/ Refresh \/ Compensate \/ FeedSteps
    \/ Install \/ Endpoints \/ Unapply \/ RollbackExpired \/ RolledBack

Request == \E c \in Claims : Add(c) \/ Remove(c)

Environment == (\E c \in Claims : Expire(c)) \/ Die \/ Reboot

Next ==
    \/ Step \/ Request \/ ClaimTick \/ StartIntegrations \/ StartGeneration \/ StartExpired
    \/ Environment

Spec == Init /\ [][Next]_vars

\* The claim ticker (15 s), the reconciliation ticker (30 s) and systemd's
\* restart of the daemon keep coming, and poll the lock.
Fairness ==
    /\ WF_vars(Step)
    /\ SF_vars(ClaimTick)
    /\ SF_vars(StartGeneration)

LiveSpec == Spec /\ Fairness

-----------------------------------------------------------------------------
(* Properties. *)

\* The variables keep their types; in particular only rows of the table are
\* expired, and what a feed may be restored to are claims of its own source.
TypeOK ==
    /\ claims \subseteq Claims /\ expired \subseteq claims \cap Temporary
    /\ revision \in {"published", "pending"} /\ prepared \in {"valid", "stale"}
    /\ read \subseteq Claims
    /\ live \subseteq Claims /\ table \in {"absent", "policy", "deny"}
    /\ daemon \in {"down", "starting", "up"}
    /\ pc \in Labels /\ undo \in Undo
    /\ DOMAIN prior \subseteq Feeds /\ \A f \in DOMAIN prior : prior[f] \subseteq Of(f)
    /\ target \subseteq Claims /\ before \subseteq Claims
    /\ unmarked \in BOOLEAN /\ faults \in Nat

\* What the status API reports as the revision "confirmed in the kernel" is:
\* whenever the daemon serves requests, nobody is changing anything and the two
\* revisions are equal, the sets hold exactly the claims that are in force,
\* unless a rollback failed since they were published (it marks them too late).
ClaimsConfirmed ==
    pc = "free" /\ daemon = "up" /\ table = "policy" /\ revision = "published" /\ ~unmarked
        => live \ expired = Active

\* A request that failed and was taken back leaves the claims in force as they
\* were when it began, whatever step of it failed and whatever expired meanwhile.
TakenBack ==
    undo = "done" /\ pc \in {"purge", "prepare", "read", "replace", "mark"}
        => Active = before

\* Taking back a refresh of several feeds never runs into the limit on claims,
\* because the sources that shrink are restored first (restoreIntegrationClaims),
\* as long as the database restored each of them.
FeedsFitBack ==
    pc = "refeed" /\ undo = "feeds" =>
        \A f \in DOMAIN prior : NextToRestore(f) => Fits(f, prior[f])

\* RestoreClaim does not count, and still the claims in force never exceed the
\* configured limit.
WithinLimit == Cardinality(Active) <= MaxClaims

\* Sets that differ from the claims in force, for whatever reason, are put
\* right while the daemon and its policy stay.
DivergenceHeals ==
    (daemon = "up" /\ table = "policy" /\ live \ expired # Active)
        ~> (live \ expired = Active \/ daemon # "up" \/ table # "policy")

=============================================================================
