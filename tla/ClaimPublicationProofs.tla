---------------------- MODULE ClaimPublicationProofs ----------------------
(***************************************************************************)
(* The safety properties of ClaimPublication for any set of claims, any    *)
(* feeds, any limit and any number of faults: type correctness, what the   *)
(* published revision says of the kernel, what a failed request leaves,    *)
(* the limit on claims, and that the claims of the feeds fit back.         *)
(*                                                                         *)
(* One inductive invariant, ClaimInv, carries all five.  Its conjuncts are *)
(* preserved one by one, one step per action.  FeedsFitBack is about the   *)
(* cardinalities of all the feeds left to restore at once; instead of a    *)
(* sum over them, FitsBack maps the claims after one restoration one to    *)
(* one into those before the transaction, feed by feed.                    *)
(***************************************************************************)
EXTENDS ClaimPublication, FunctionTheorems, FiniteSetTheorems, TLAPS

\* What the publication in progress knows: the revisions differ until it marks
\* them, and what it read is what is in force.
ReadInv ==
  /\ pc \in {"read", "replace", "mark"} => prepared = "valid" /\ revision = "pending"
  /\ pc \in {"replace", "mark"} => read \ expired = Active
  /\ pc = "mark" => live = read
  /\ pc = "install" => revision = "pending"

\* A rollback has replaced the ruleset and the publication is not marked yet.
Rebuilding ==
  \/ pc = "rolled_back"
  \/ undo \in {"runtime", "expired"} /\ pc \in {"purge", "prepare"}

\* ClaimsConfirmed in every state but those of a rollback on its way.
PublishedInv ==
  revision = "published" /\ table = "policy" /\ ~unmarked /\ ~Rebuilding
    => live \ expired = Active

\* What taking back the change would restore, at every step until then: the
\* claims of a replaced feed are in prior, the others are in force.
UndoInv ==
  /\ pc = "feeds" => undo = "feeds"
  /\ pc = "refeed" => undo \in {"feeds", "nothing"}
  /\ undo = "remove" => Active \ target = before
  /\ undo = "restore" => target \cap claims = {} /\ Active \cup target = before
  /\ undo = "feeds" =>
       \A c \in Claims : c \in before <=> IF Source[c] \in DOMAIN prior THEN c \in prior[Source[c]]
                                                                     ELSE c \in Active
  /\ undo = "done" => Active = before

\* The limit holds now, and held of the claims that may be restored uncounted.
LimitInv == Cardinality(Active) <= MaxClaims /\ Cardinality(before) <= MaxClaims

\* The inductive invariant.
ClaimInv == TypeOK /\ ReadInv /\ PublishedInv /\ UndoInv /\ LimitInv


-----------------------------------------------------------------------------
(* Types. *)

\* The claims of a feed have no expiry.
LEMMA FeedClaimsStay ==
  ASSUME NEW f \in Feeds
  PROVE  Of(f) \cap Temporary = {} /\ Of(f) \subseteq Claims
BY ClaimConstants DEF Of


\* The part of TypeOK about faults, a number and a Boolean.
TroubleOK == unmarked \in BOOLEAN /\ faults \in Nat

\* Every step leaves them alone, is a failure, or marks the publication.
LEMMA TroubleStep ==
  ASSUME TypeOK, [Next]_vars
  PROVE  TroubleOK'
<1>1. UNCHANGED trouble \/ Fault \/ (unmarked' = FALSE /\ faults' = faults)
  BY DEF Next, Step, Refresh, FeedSteps, Request, Environment, vars, trouble,
         ClaimTick, Purge, Prepare, Read, Replace, Mark, Add, Remove, Compensate,
         StartIntegrations, ReplaceFeed, FeedsReplaced, StartRestoreFeeds, RestoreFeed,
         FeedsRestored, StartGeneration, Install, Endpoints, Unapply, StartExpired,
         RollbackExpired, RolledBack, Expire, Die, Reboot
<1>2. faults' \in Nat
  BY <1>1 DEF trouble, Fault, TypeOK
<1>3. unmarked' \in BOOLEAN
  BY <1>1, Zenon DEF trouble, Fault, TypeOK
<1> QED
  BY <1>2, <1>3 DEF TroubleOK

\* Every step keeps the types.
LEMMA TypeStep ==
  ASSUME TypeOK, [Next]_vars
  PROVE  TypeOK'
<1>0. TroubleOK'
  BY TroubleStep
<1> USE DEF TypeOK, Active, Labels, Undo, NoPrior, vars, Failed, End, Goto, Begin, Dirty,
            DenyOr, Refreshed, Installed, kernel, session, trouble, TroubleOK, Compiled,
            Operators
<1>1. CASE ClaimTick
  BY <1>0, <1>1 DEF ClaimTick
<1>2. CASE Purge
  BY <1>0, <1>2 DEF Purge
<1>3. CASE Prepare
  BY <1>0, <1>3 DEF Prepare
<1>4. CASE Read
  BY <1>0, <1>4 DEF Read
<1>5. CASE Replace
  BY <1>0, <1>5 DEF Replace
<1>6. CASE Mark
  BY <1>0, <1>6 DEF Mark
<1>7. ASSUME NEW c \in Claims, Add(c) PROVE TypeOK'
  BY <1>0, <1>7 DEF Add
<1>8. ASSUME NEW c \in Claims, Remove(c) PROVE TypeOK'
  BY <1>0, <1>8 DEF Remove
<1>9. CASE Compensate
  BY <1>0, <1>9 DEF Compensate
<1>10. CASE StartIntegrations
  BY <1>0, <1>10 DEF StartIntegrations
<1>11. ASSUME NEW f \in Feeds, NEW cs \in SUBSET Of(f), ReplaceFeed(f, cs) PROVE TypeOK'
  BY <1>0, <1>11, FeedClaimsStay DEF ReplaceFeed
<1>12. CASE FeedsReplaced
  BY <1>0, <1>12 DEF FeedsReplaced
<1>13. CASE StartRestoreFeeds
  BY <1>0, <1>13 DEF StartRestoreFeeds
<1>14. ASSUME NEW f \in Feeds, RestoreFeed(f) PROVE TypeOK'
  <2>1. f \in DOMAIN prior /\ prior[f] \subseteq Of(f)
    BY <1>0, <1>14 DEF RestoreFeed, NextToRestore
  <2> QED
    BY <1>0, <1>0, <1>14, <2>1, FeedClaimsStay DEF RestoreFeed
<1>15. CASE FeedsRestored
  BY <1>0, <1>15 DEF FeedsRestored
<1>16. CASE StartGeneration
  BY <1>0, <1>16 DEF StartGeneration
<1>17. CASE Install
  BY <1>0, <1>17 DEF Install
<1>18. CASE Endpoints
  BY <1>0, <1>18 DEF Endpoints
<1>19. CASE Unapply
  BY <1>0, <1>19 DEF Unapply
<1>20. CASE StartExpired
  BY <1>0, <1>20 DEF StartExpired
<1>21. CASE RollbackExpired
  BY <1>0, <1>21 DEF RollbackExpired
<1>22. CASE RolledBack
  BY <1>0, <1>22 DEF RolledBack
<1>23. ASSUME NEW c \in Claims, Expire(c) PROVE TypeOK'
  BY <1>0, <1>23 DEF Expire
<1>24. CASE Die
  BY <1>0, <1>24 DEF Die
<1>25. CASE Reboot
  BY <1>0, <1>25 DEF Reboot
<1>26. CASE UNCHANGED vars
  BY <1>0, <1>26 DEF vars
<1> QED
  BY <1>0, <1>1, <1>2, <1>3, <1>4, <1>5, <1>6, <1>7, <1>8, <1>9, <1>10, <1>11, <1>12, <1>13,
     <1>14, <1>15, <1>16, <1>17, <1>18, <1>19, <1>20, <1>21, <1>22, <1>23, <1>24, <1>25,
     <1>26 DEF Next, Step, Refresh, FeedSteps, Request, Environment

-----------------------------------------------------------------------------
(* Publication. *)

\* No step publishes sets other than the claims in force, and none makes them
\* differ while the revisions stay equal.
LEMMA PublishedStep ==
  ASSUME TypeOK, ReadInv, PublishedInv, [Next]_vars
  PROVE  ReadInv' /\ PublishedInv'
<1> USE DEF TypeOK, Active, Labels, Undo, NoPrior, vars, Failed, End, Goto, Begin, Dirty,
            DenyOr, Fault, Refreshed, Installed, kernel, session, trouble, ReadInv,
            PublishedInv, Rebuilding
<1>1. CASE ClaimTick
  BY <1>1 DEF ClaimTick
<1>2. CASE Purge
  BY <1>2 DEF Purge
<1>3. CASE Prepare
  BY <1>3 DEF Prepare
<1>4. CASE Read
  BY <1>4 DEF Read
<1>5. CASE Replace
  BY <1>5 DEF Replace
<1>6. CASE Mark
  BY <1>6 DEF Mark
<1>7. ASSUME NEW c \in Claims, Add(c) PROVE ReadInv' /\ PublishedInv'
  BY <1>7 DEF Add
<1>8. ASSUME NEW c \in Claims, Remove(c) PROVE ReadInv' /\ PublishedInv'
  BY <1>8 DEF Remove
<1>9. CASE Compensate
  BY <1>9 DEF Compensate
<1>10. CASE StartIntegrations
  BY <1>10 DEF StartIntegrations
<1>11. ASSUME NEW f \in Feeds, NEW cs \in SUBSET Of(f), ReplaceFeed(f, cs)
       PROVE  ReadInv' /\ PublishedInv'
  BY <1>11, FeedClaimsStay DEF ReplaceFeed
<1>12. CASE FeedsReplaced
  BY <1>12 DEF FeedsReplaced
<1>13. CASE StartRestoreFeeds
  BY <1>13 DEF StartRestoreFeeds
<1>14. ASSUME NEW f \in Feeds, RestoreFeed(f) PROVE ReadInv' /\ PublishedInv'
  BY <1>14, FeedClaimsStay DEF RestoreFeed
<1>15. CASE FeedsRestored
  BY <1>15 DEF FeedsRestored
<1>16. CASE StartGeneration
  BY <1>16 DEF StartGeneration
<1>17. CASE Install
  BY <1>17 DEF Install
<1>18. CASE Endpoints
  BY <1>18 DEF Endpoints
<1>19. CASE Unapply
  BY <1>19 DEF Unapply
<1>20. CASE StartExpired
  BY <1>20 DEF StartExpired
<1>21. CASE RollbackExpired
  BY <1>21 DEF RollbackExpired
<1>22. CASE RolledBack
  BY <1>22 DEF RolledBack
<1>23. ASSUME NEW c \in Claims, Expire(c) PROVE ReadInv' /\ PublishedInv'
  BY <1>23 DEF Expire
<1>24. CASE Die
  BY <1>24 DEF Die
<1>25. CASE Reboot
  BY <1>25 DEF Reboot
<1>26. CASE UNCHANGED vars
  BY <1>26 DEF vars
<1> QED
  BY <1>1, <1>2, <1>3, <1>4, <1>5, <1>6, <1>7, <1>8, <1>9, <1>10, <1>11, <1>12, <1>13,
     <1>14, <1>15, <1>16, <1>17, <1>18, <1>19, <1>20, <1>21, <1>22, <1>23, <1>24, <1>25,
     <1>26 DEF Next, Step, Refresh, FeedSteps, Request, Environment

-----------------------------------------------------------------------------
(* Compensation. *)

\* Until a request is done, what it would take back to is what it began with.
LEMMA UndoStep ==
  ASSUME TypeOK, UndoInv, [Next]_vars
  PROVE  UndoInv'
<1> USE DEF TypeOK, Active, Labels, Undo, NoPrior, vars, Failed, End, Goto, Begin, Dirty,
            DenyOr, Fault, Refreshed, Installed, kernel, session, trouble, UndoInv
<1>1. CASE ClaimTick
  BY <1>1 DEF ClaimTick
<1>2. CASE Purge
  BY <1>2 DEF Purge
<1>3. CASE Prepare
  BY <1>3 DEF Prepare
<1>4. CASE Read
  BY <1>4 DEF Read
<1>5. CASE Replace
  BY <1>5 DEF Replace
<1>6. CASE Mark
  BY <1>6 DEF Mark
<1>7. ASSUME NEW c \in Claims, Add(c) PROVE UndoInv'
  BY <1>7 DEF Add
<1>8. ASSUME NEW c \in Claims, Remove(c) PROVE UndoInv'
  BY <1>8 DEF Remove
<1>9. CASE Compensate
  BY <1>9 DEF Compensate
<1>10. CASE StartIntegrations
  BY <1>10 DEF StartIntegrations
<1>11. ASSUME NEW f \in Feeds, NEW cs \in SUBSET Of(f), ReplaceFeed(f, cs) PROVE UndoInv'
  <2> USE <1>11
  <2>0. f \notin DOMAIN prior /\ DOMAIN prior' = DOMAIN prior \cup {f} /\ prior'[f] = Active \cap Of(f)
        /\ \A g \in DOMAIN prior : prior'[g] = prior[g]
    BY DEF ReplaceFeed
  <2>1. undo = "feeds" /\ undo' = undo /\ pc' = pc /\ before' = before /\ pc = "feeds"
    BY DEF ReplaceFeed
  <2>2. ASSUME NEW c \in Claims
        PROVE  c \in before' <=> IF Source[c] \in DOMAIN prior' THEN c \in prior'[Source[c]] ELSE c \in Active'
    <3>1. CASE Source[c] = f
      BY <2>0, <2>1, <2>2, <3>1 DEF Of
    <3>2. CASE Source[c] # f
      <4>1. c \in Active' <=> c \in Active
        BY <2>2, <3>2 DEF ReplaceFeed, Of
      <4> HIDE DEF Active
      <4> QED
        BY <2>0, <2>1, <2>2, <3>2, <4>1
    <3> QED
      BY <3>1, <3>2
  <2> QED
    BY <2>1, <2>2
<1>12. CASE FeedsReplaced
  BY <1>12 DEF FeedsReplaced
<1>13. CASE StartRestoreFeeds
  BY <1>13 DEF StartRestoreFeeds
<1>14. ASSUME NEW f \in Feeds, RestoreFeed(f) PROVE UndoInv'
  <2> USE <1>14
  <2>0. DOMAIN prior' = DOMAIN prior \ {f} /\ f \in DOMAIN prior
        /\ \A g \in DOMAIN prior' : prior'[g] = prior[g]
    BY DEF RestoreFeed, NextToRestore
  <2>1. undo' \in {undo, "nothing"} /\ pc' = pc /\ before' = before /\ pc = "refeed"
    BY DEF RestoreFeed
  <2>2. undo' = "feeds" => undo = "feeds" /\ claims' = (claims \ Of(f)) \cup prior[f] /\ expired' = expired
    BY DEF RestoreFeed
  <2>3. ASSUME undo' = "feeds", NEW c \in Claims
        PROVE  c \in before' <=> IF Source[c] \in DOMAIN prior' THEN c \in prior'[Source[c]] ELSE c \in Active'
    <3>1. CASE Source[c] = f
      <4>1. c \in Active' <=> c \in prior[f]
        BY <2>0, <2>2, <2>3, <3>1, FeedClaimsStay DEF Of
      <4> HIDE DEF Active
      <4> QED
        BY <2>0, <2>1, <2>2, <2>3, <3>1, <4>1
    <3>2. CASE Source[c] # f
      <4>1. c \in Active' <=> c \in Active
        BY <2>0, <2>2, <2>3, <3>2 DEF Of
      <4> HIDE DEF Active
      <4> QED
        BY <2>0, <2>1, <2>2, <2>3, <3>2, <4>1
    <3> QED
      BY <3>1, <3>2
  <2> QED
    BY <2>1, <2>3
<1>15. CASE FeedsRestored
  BY <1>15 DEF FeedsRestored
<1>16. CASE StartGeneration
  BY <1>16 DEF StartGeneration
<1>17. CASE Install
  BY <1>17 DEF Install
<1>18. CASE Endpoints
  BY <1>18 DEF Endpoints
<1>19. CASE Unapply
  BY <1>19 DEF Unapply
<1>20. CASE StartExpired
  BY <1>20 DEF StartExpired
<1>21. CASE RollbackExpired
  BY <1>21 DEF RollbackExpired
<1>22. CASE RolledBack
  BY <1>22 DEF RolledBack
<1>23. ASSUME NEW c \in Claims, Expire(c) PROVE UndoInv'
  <2> USE <1>23
  <2>1. /\ c \in Temporary /\ c \in Active /\ before' = before \ {c}
        /\ Active' = Active \ {c}
        /\ UNCHANGED <<claims, pc, undo, prior, target>>
    BY DEF Expire
  <2>2. Source[c] \notin DOMAIN prior
    BY <2>1, ClaimConstants
  <2>3. undo = "feeds" =>
          \A d \in Claims : d \in before' <=> IF Source[d] \in DOMAIN prior THEN d \in prior[Source[d]]
                                                                       ELSE d \in Active'
    <3> HIDE DEF Active
    <3> SUFFICES ASSUME undo = "feeds", NEW d \in Claims
                 PROVE  d \in before' <=> IF Source[d] \in DOMAIN prior THEN d \in prior[Source[d]]
                                                                        ELSE d \in Active'
      OBVIOUS
    <3>1. CASE d = c
      BY <2>1, <2>2, <3>1
    <3>2. CASE d # c
      BY <2>1, <3>2
    <3> QED
      BY <3>1, <3>2
  <2>4. target \cap claims = {} => c \notin target
    BY <2>1
  <2> HIDE DEF Active
  <2> QED
    BY <2>1, <2>3, <2>4
<1>24. CASE Die
  BY <1>24 DEF Die
<1>25. CASE Reboot
  BY <1>25 DEF Reboot
<1>26. CASE UNCHANGED vars
  BY <1>26 DEF vars
<1> QED
  BY <1>1, <1>2, <1>3, <1>4, <1>5, <1>6, <1>7, <1>8, <1>9, <1>10, <1>11, <1>12, <1>13,
     <1>14, <1>15, <1>16, <1>17, <1>18, <1>19, <1>20, <1>21, <1>22, <1>23, <1>24, <1>25,
     <1>26 DEF Next, Step, Refresh, FeedSteps, Request, Environment


-----------------------------------------------------------------------------
(* The limit. *)

\* Sets of claims are finite.
LEMMA FiniteClaims ==
  ASSUME NEW S \in SUBSET Claims
  PROVE  /\ IsFiniteSet(S) /\ Cardinality(S) \in Nat
         /\ \A T \in SUBSET S : Cardinality(T) <= Cardinality(S)
<1>1. IsFiniteSet(S)
  BY ClaimConstants, FS_Subset
<1> QED
  BY <1>1, FS_CardinalityType, FS_Subset

\* The bound that Fits computes.
LEMMA UnionBound ==
  ASSUME NEW S \in SUBSET Claims, NEW T \in SUBSET Claims
  PROVE  Cardinality(S \cup T) <= Cardinality(S) + Cardinality(T)
<1>1. /\ IsFiniteSet(S) /\ IsFiniteSet(T) /\ Cardinality(S) \in Nat /\ Cardinality(T) \in Nat
      /\ Cardinality(S \cap T) \in Nat
  BY FiniteClaims
<1>2. Cardinality(S \cup T) = Cardinality(S) + Cardinality(T) - Cardinality(S \cap T)
  BY <1>1, FS_Union
<1> QED
  BY <1>1, <1>2

\* How the claims in force can change in a step: they shrink, a failed removal is
\* taken back, one is added under the limit, or a feed is replaced that fits.
Grown ==
  \/ Active' \subseteq Active
  \/ Active' \subseteq before
  \/ \E c \in Claims : Cardinality(Active) < MaxClaims /\ Active' = Active \cup {c}
  \/ \E f \in Feeds : \E cs \in SUBSET Of(f) : Fits(f, cs) /\ Active' = (Active \ Of(f)) \cup cs

\* Every step is one of these.
LEMMA GrownStep ==
  ASSUME TypeOK, UndoInv, [Next]_vars
  PROVE  Grown
<1> USE DEF TypeOK, Active, Labels, Undo, NoPrior, vars, Failed, End, Goto, Begin, Dirty,
            DenyOr, Fault, Refreshed, Installed, kernel, session, trouble, UndoInv, Grown
<1>1. CASE ClaimTick
  BY <1>1 DEF ClaimTick
<1>2. CASE Purge
  BY <1>2 DEF Purge
<1>3. CASE Prepare
  BY <1>3 DEF Prepare
<1>4. CASE Read
  BY <1>4 DEF Read
<1>5. CASE Replace
  BY <1>5 DEF Replace
<1>6. CASE Mark
  BY <1>6 DEF Mark
<1>7. ASSUME NEW c \in Claims, Add(c) PROVE Grown
  BY <1>7 DEF Add
<1>8. ASSUME NEW c \in Claims, Remove(c) PROVE Grown
  BY <1>8 DEF Remove
<1>9. CASE Compensate
  BY <1>9 DEF Compensate
<1>10. CASE StartIntegrations
  BY <1>10 DEF StartIntegrations
<1>11. ASSUME NEW f \in Feeds, NEW cs \in SUBSET Of(f), ReplaceFeed(f, cs) PROVE Grown
  <2>1. Fits(f, cs) /\ Active' = (Active \ Of(f)) \cup cs
    BY <1>11, FeedClaimsStay DEF ReplaceFeed
  <2> QED
    BY <2>1
<1>12. CASE FeedsReplaced
  BY <1>12 DEF FeedsReplaced
<1>13. CASE StartRestoreFeeds
  BY <1>13 DEF StartRestoreFeeds
<1>14. ASSUME NEW f \in Feeds, RestoreFeed(f) PROVE Grown
  <2>1. f \in DOMAIN prior /\ prior[f] \subseteq Of(f)
    BY <1>14 DEF RestoreFeed, NextToRestore
  <2>2. UNCHANGED <<claims, expired>> \/ (Fits(f, prior[f]) /\ Active' = (Active \ Of(f)) \cup prior[f])
    BY <1>14, <2>1, FeedClaimsStay DEF RestoreFeed
  <2> QED
    BY <2>1, <2>2
<1>15. CASE FeedsRestored
  BY <1>15 DEF FeedsRestored
<1>16. CASE StartGeneration
  BY <1>16 DEF StartGeneration
<1>17. CASE Install
  BY <1>17 DEF Install
<1>18. CASE Endpoints
  BY <1>18 DEF Endpoints
<1>19. CASE Unapply
  BY <1>19 DEF Unapply
<1>20. CASE StartExpired
  BY <1>20 DEF StartExpired
<1>21. CASE RollbackExpired
  BY <1>21 DEF RollbackExpired
<1>22. CASE RolledBack
  BY <1>22 DEF RolledBack
<1>23. ASSUME NEW c \in Claims, Expire(c) PROVE Grown
  BY <1>23 DEF Expire
<1>24. CASE Die
  BY <1>24 DEF Die
<1>25. CASE Reboot
  BY <1>25 DEF Reboot
<1>26. CASE UNCHANGED vars
  BY <1>26 DEF vars
<1> QED
  BY <1>1, <1>2, <1>3, <1>4, <1>5, <1>6, <1>7, <1>8, <1>9, <1>10, <1>11, <1>12, <1>13,
     <1>14, <1>15, <1>16, <1>17, <1>18, <1>19, <1>20, <1>21, <1>22, <1>23, <1>24, <1>25,
     <1>26 DEF Next, Step, Refresh, FeedSteps, Request, Environment

\* A transaction begins with the claims in force, and they only expire.
LEMMA BeforeStep ==
  ASSUME TypeOK, [Next]_vars
  PROVE  before' \subseteq before \/ before' \subseteq Active
<1> USE DEF TypeOK, Active, Labels, Undo, NoPrior, vars, Failed, End, Goto, Begin, Dirty,
            DenyOr, Fault, Refreshed, Installed, kernel, session, trouble
<1>1. CASE ClaimTick
  BY <1>1 DEF ClaimTick
<1>2. CASE Purge
  BY <1>2 DEF Purge
<1>3. CASE Prepare
  BY <1>3 DEF Prepare
<1>4. CASE Read
  BY <1>4 DEF Read
<1>5. CASE Replace
  BY <1>5 DEF Replace
<1>6. CASE Mark
  BY <1>6 DEF Mark
<1>7. ASSUME NEW c \in Claims, Add(c)
       PROVE  before' \subseteq before \/ before' \subseteq Active
  BY <1>7 DEF Add
<1>8. ASSUME NEW c \in Claims, Remove(c)
       PROVE  before' \subseteq before \/ before' \subseteq Active
  BY <1>8 DEF Remove
<1>9. CASE Compensate
  BY <1>9 DEF Compensate
<1>10. CASE StartIntegrations
  BY <1>10 DEF StartIntegrations
<1>11. ASSUME NEW f \in Feeds, NEW cs \in SUBSET Of(f), ReplaceFeed(f, cs)
       PROVE  before' \subseteq before \/ before' \subseteq Active
  BY <1>11 DEF ReplaceFeed
<1>12. CASE FeedsReplaced
  BY <1>12 DEF FeedsReplaced
<1>13. CASE StartRestoreFeeds
  BY <1>13 DEF StartRestoreFeeds
<1>14. ASSUME NEW f \in Feeds, RestoreFeed(f)
       PROVE  before' \subseteq before \/ before' \subseteq Active
  BY <1>14 DEF RestoreFeed
<1>15. CASE FeedsRestored
  BY <1>15 DEF FeedsRestored
<1>16. CASE StartGeneration
  BY <1>16 DEF StartGeneration
<1>17. CASE Install
  BY <1>17 DEF Install
<1>18. CASE Endpoints
  BY <1>18 DEF Endpoints
<1>19. CASE Unapply
  BY <1>19 DEF Unapply
<1>20. CASE StartExpired
  BY <1>20 DEF StartExpired
<1>21. CASE RollbackExpired
  BY <1>21 DEF RollbackExpired
<1>22. CASE RolledBack
  BY <1>22 DEF RolledBack
<1>23. ASSUME NEW c \in Claims, Expire(c)
       PROVE  before' \subseteq before \/ before' \subseteq Active
  BY <1>23 DEF Expire
<1>24. CASE Die
  BY <1>24 DEF Die
<1>25. CASE Reboot
  BY <1>25 DEF Reboot
<1>26. CASE UNCHANGED vars
  BY <1>26 DEF vars
<1> QED
  BY <1>1, <1>2, <1>3, <1>4, <1>5, <1>6, <1>7, <1>8, <1>9, <1>10, <1>11, <1>12, <1>13,
     <1>14, <1>15, <1>16, <1>17, <1>18, <1>19, <1>20, <1>21, <1>22, <1>23, <1>24, <1>25,
     <1>26 DEF Next, Step, Refresh, FeedSteps, Request, Environment


\* No step exceeds the limit, counted or not.
LEMMA LimitStep ==
  ASSUME TypeOK, UndoInv, LimitInv, [Next]_vars
  PROVE  LimitInv'
<1>1. Active \subseteq Claims /\ before \subseteq Claims
  BY DEF TypeOK, Active
<1>2. Cardinality(before') <= MaxClaims
  <2>1. before' \subseteq before \/ before' \subseteq Active
    BY BeforeStep
  <2>2. Cardinality(before') \in Nat
    BY <1>1, <2>1, FiniteClaims
  <2> QED
    BY <1>1, <2>1, <2>2, FiniteClaims, ClaimConstants DEF LimitInv
<1>3. Cardinality(Active') <= MaxClaims
  <2>1. CASE Active' \subseteq Active \/ Active' \subseteq before
    <3>1. Cardinality(Active') \in Nat
      BY <1>1, <2>1, FiniteClaims
    <3> QED
      BY <1>1, <2>1, <3>1, FiniteClaims, ClaimConstants DEF LimitInv
  <2>2. ASSUME NEW c \in Claims, Cardinality(Active) < MaxClaims, Active' = Active \cup {c}
        PROVE  Cardinality(Active') <= MaxClaims
    <3>1. IsFiniteSet(Active) /\ Cardinality(Active) \in Nat
      BY <1>1, FiniteClaims
    <3>2. Cardinality(Active \cup {c}) = IF c \in Active THEN Cardinality(Active) ELSE Cardinality(Active) + 1
      BY <3>1, FS_AddElement
    <3>3. Cardinality(Active \cup {c}) \in Nat
      BY <1>1, FiniteClaims
    <3> QED
      BY <2>2, <3>1, <3>2, <3>3, ClaimConstants
  <2>3. ASSUME NEW f \in Feeds, NEW cs \in SUBSET Of(f), Fits(f, cs), Active' = (Active \ Of(f)) \cup cs
        PROVE  Cardinality(Active') <= MaxClaims
    <3>1. Active \ Of(f) \subseteq Claims /\ cs \subseteq Claims
      BY <1>1, FeedClaimsStay
    <3>2. Cardinality(Active') <= Cardinality(Active \ Of(f)) + Cardinality(cs)
      BY <2>3, <3>1, UnionBound
    <3>3. Cardinality(Active') \in Nat /\ Cardinality(Active \ Of(f)) \in Nat /\ Cardinality(cs) \in Nat
      BY <2>3, <3>1, FiniteClaims
    <3> QED
      BY <2>3, <3>2, <3>3, ClaimConstants DEF Fits
  <2> QED
    BY GrownStep, <2>1, <2>2, <2>3 DEF Grown
<1> QED
  BY <1>2, <1>3 DEF LimitInv


\* A set with no more elements than another is mapped into it one to one.
LEMMA SmallerInjects ==
  ASSUME NEW S \in SUBSET Claims, NEW T \in SUBSET Claims, Cardinality(S) <= Cardinality(T)
  PROVE  \E i : i \in Injection(S, T)
<1> DEFINE n == Cardinality(S)
           m == Cardinality(T)
<1>1. n \in Nat /\ m \in Nat /\ ExistsBijection(1..n, S) /\ ExistsBijection(1..m, T)
  BY FiniteClaims, FS_CardinalityType
<1>2. ExistsInjection(1..n, 1..m)
  BY <1>1, Fun_NatInjLeq
<1>3. ExistsInjection(S, 1..n)
  <2>1. ExistsBijection(S, 1..n)
    BY <1>1, Fun_ExistsBijSymmetric
  <2> QED
    BY <2>1, Fun_ExistsBijEquiv
<1>4. ExistsInjection(1..m, T)
  BY <1>1, Fun_ExistsBijEquiv
<1>5. ExistsInjection(S, T)
  <2>1. ExistsInjection(S, 1..m)
    BY <1>2, <1>3, Fun_ExistsInjTransitive
  <2> QED
    BY <2>1, <1>4, Fun_ExistsInjTransitive
<1> QED
  BY <1>5, Fun_ExistsInj

\* A source that grows least fits: if it shrinks, so do the claims; if it grows,
\* every other one grows too, so that the claims after restoring this one are no
\* more than those the transaction began with.
LEMMA FitsBack ==
  ASSUME TypeOK, UndoInv, LimitInv, undo = "feeds", NEW f \in DOMAIN prior, NextToRestore(f)
  PROVE  Fits(f, prior[f])
<1> DEFINE Now(h) == Active \cap Of(h)
           Others == Active \ Of(f)
           X == Others \cup prior[f]
<1>1. /\ Active \subseteq Claims /\ before \subseteq Claims /\ DOMAIN prior \subseteq Feeds
      /\ \A h \in DOMAIN prior : /\ prior[h] \subseteq Claims /\ prior[h] \subseteq Of(h)
                                 /\ Now(h) \subseteq Claims /\ Now(h) = claims \cap Of(h)
  BY FeedClaimsStay DEF TypeOK, Active
<1>2. /\ \A h \in DOMAIN prior : Cardinality(prior[h]) \in Nat /\ Cardinality(Now(h)) \in Nat
      /\ Cardinality(Active) \in Nat /\ Cardinality(before) \in Nat /\ Cardinality(Others) \in Nat
      /\ Cardinality(Claims) \in Nat
  BY <1>1, FiniteClaims
<1>3. \A c \in Claims : c \in before <=> IF Source[c] \in DOMAIN prior THEN c \in prior[Source[c]]
                                                                       ELSE c \in Active
  BY DEF UndoInv
<1>4. Cardinality(Others) = Cardinality(Active) - Cardinality(Now(f))
  BY <1>1, FiniteClaims, FS_Difference
<1>5. CASE Cardinality(prior[f]) <= Cardinality(Now(f))
  BY <1>2, <1>4, <1>5, ClaimConstants DEF LimitInv, Fits
<1>6. CASE Cardinality(Now(f)) < Cardinality(prior[f])
  <2>1. \A h \in DOMAIN prior : Cardinality(Now(h)) <= Cardinality(prior[h])
    <3> SUFFICES ASSUME NEW h \in DOMAIN prior
                 PROVE  Cardinality(Now(h)) <= Cardinality(prior[h])
      OBVIOUS
    <3>1. Growth(f) <= Growth(h)
      BY DEF NextToRestore
    <3>2. /\ Growth(f) = Cardinality(prior[f]) + Cardinality(Claims) - Cardinality(Now(f))
          /\ Growth(h) = Cardinality(prior[h]) + Cardinality(Claims) - Cardinality(Now(h))
      BY <1>1 DEF Growth
    <3> HIDE DEF Now
    <3> QED
      BY <1>2, <1>6, <3>1, <3>2
  <2> DEFINE into == [h \in DOMAIN prior |-> CHOOSE i : i \in Injection(Now(h), prior[h])]
             F == [c \in X |-> IF Source[c] \in DOMAIN prior \ {f} THEN into[Source[c]][c] ELSE c]
  <2>2. ASSUME NEW h \in DOMAIN prior
        PROVE  into[h] \in Injection(Now(h), prior[h])
    <3>1. \E i : i \in Injection(Now(h), prior[h])
      BY <1>1, <2>1, SmallerInjects
    <3> QED
      BY <3>1
  <2>3. ASSUME NEW c \in X
        PROVE  /\ c \in Claims
               /\ Source[c] \in DOMAIN prior \ {f} =>
                    c \in Now(Source[c]) /\ F[c] = into[Source[c]][c] /\ F[c] \in prior[Source[c]]
               /\ Source[c] \notin DOMAIN prior \ {f} => F[c] = c
    <3>1. c \in Claims
      BY <1>1, <2>3
    <3>2. CASE Source[c] \in DOMAIN prior \ {f}
      <4>1. c \in Now(Source[c])
        BY <1>1, <2>3, <3>1, <3>2 DEF Of
      <4>2. into[Source[c]] \in [Now(Source[c]) -> prior[Source[c]]]
        BY <2>2, <3>2, Fun_InjectionProperties
      <4> HIDE DEF into, Now
      <4> QED
        BY <2>3, <3>1, <3>2, <4>1, <4>2
    <3>3. CASE Source[c] \notin DOMAIN prior \ {f}
      BY <2>3, <3>1, <3>3
    <3> QED
      BY <3>2, <3>3
  <2>4. ASSUME NEW c \in X
        PROVE  F[c] \in before /\ Source[F[c]] = Source[c]
    <3>1. CASE Source[c] \in DOMAIN prior \ {f}
      <4>1. F[c] \in prior[Source[c]] /\ F[c] \in Claims /\ Source[F[c]] = Source[c]
        BY <1>1, <2>3, <2>4, <3>1 DEF Of
      <4> HIDE DEF F
      <4> QED
        BY <1>3, <3>1, <4>1
    <3>2. CASE Source[c] \notin DOMAIN prior \ {f}
      <4>1. F[c] = c /\ c \in Claims
        BY <2>3, <2>4, <3>2
      <4>2. c \in before
        BY <1>1, <1>3, <2>4, <3>2, <4>1 DEF Of
      <4> HIDE DEF F
      <4> QED
        BY <4>1, <4>2
    <3> QED
      BY <3>1, <3>2
  <2>5. F \in Injection(X, before)
    <3>1. F \in [X -> before]
      BY <2>4
    <3>2. ASSUME NEW a \in X, NEW b \in X, F[a] = F[b]
          PROVE  a = b
      <4>1. Source[a] = Source[b]
        BY <2>4, <3>2
      <4>2. CASE Source[a] \in DOMAIN prior \ {f}
        <5>1. \A c, d \in Now(Source[a]) : into[Source[a]][c] = into[Source[a]][d] => c = d
          BY <2>2, <4>2, Fun_InjectionProperties
        <5> HIDE DEF F, into, Now
        <5> QED
          BY <2>3, <3>2, <4>1, <4>2, <5>1
      <4>3. CASE Source[a] \notin DOMAIN prior \ {f}
        BY <2>3, <3>2, <4>1, <4>3
      <4> QED
        BY <4>2, <4>3
    <3> HIDE DEF F
    <3> QED
      BY <3>1, <3>2, Fun_IsInj
  <2>6. Cardinality(X) <= Cardinality(before)
    <3>1. IsFiniteSet(before)
      BY <1>1, FiniteClaims
    <3> HIDE DEF F, X
    <3> QED
      BY <2>5, <3>1, FS_Injection
  <2>7. Cardinality(X) = Cardinality(Others) + Cardinality(prior[f])
    <3>1. IsFiniteSet(Others) /\ IsFiniteSet(prior[f])
      BY <1>1, FiniteClaims
    <3>2. Others \cap prior[f] = {}
      BY <1>1
    <3>3. Cardinality(X) = Cardinality(Others) + Cardinality(prior[f]) - Cardinality(Others \cap prior[f])
      BY <3>1, FS_Union
    <3>4. Cardinality(Others \cap prior[f]) = 0
      BY <3>2, FS_EmptySet
    <3>5. Cardinality(Others) \in Nat /\ Cardinality(prior[f]) \in Nat
      BY <1>2
    <3> HIDE DEF Others, X
    <3> QED
      BY <3>3, <3>4, <3>5
  <2>8. /\ Cardinality(Others) \in Nat /\ Cardinality(prior[f]) \in Nat /\ Cardinality(before) \in Nat
        /\ Cardinality(before) <= MaxClaims /\ MaxClaims \in Nat
    BY <1>2, ClaimConstants DEF LimitInv
  <2>9. Cardinality(Others) + Cardinality(prior[f]) <= MaxClaims
    <3> HIDE DEF X, Others
    <3> QED
      BY <2>6, <2>7, <2>8
  <2> QED
    BY <2>9 DEF Fits
<1> QED
  BY <1>2, <1>5, <1>6


-----------------------------------------------------------------------------
(* The theorems. *)

\* The inductive invariant holds of every behaviour of the daemon, its deaths and
\* reboots included.
THEOREM ClaimInvariant == Spec => []ClaimInv
<1>1. Init => ClaimInv
  <2>1. Cardinality({}) = 0
    BY FS_EmptySet
  <2>2. Init => TypeOK /\ ReadInv /\ PublishedInv /\ UndoInv
    BY ClaimConstants DEF Init, TypeOK, Labels, Undo, NoPrior, ReadInv, PublishedInv, Rebuilding, UndoInv, Active
  <2>3. Init => LimitInv
    BY <2>1, ClaimConstants DEF Init, LimitInv, Active
  <2> QED
    BY <2>2, <2>3 DEF ClaimInv
<1>2. ClaimInv /\ [Next]_vars => ClaimInv'
  BY TypeStep, PublishedStep, UndoStep, LimitStep DEF ClaimInv
<1> QED
  BY <1>1, <1>2, PTL DEF Spec

\* Type correctness: only rows of the claims table are expired, and a feed is only
\* ever restored to claims of its own source.
THEOREM ClaimTypes == Spec => []TypeOK
<1>1. ClaimInv => TypeOK
  BY DEF ClaimInv
<1> QED
  BY <1>1, ClaimInvariant, PTL

\* Equal revisions mean that the sets of the kernel hold exactly the claims in
\* force (PrepareClaimPublication, ReplaceClaimSets, MarkClaimsPublished), unless
\* a rollback failed before it marked the publication.
THEOREM ClaimsAreConfirmed == Spec => []ClaimsConfirmed
<1>1. ClaimInv => ClaimsConfirmed
  BY DEF ClaimInv, PublishedInv, Rebuilding, ClaimsConfirmed
<1> QED
  BY <1>1, ClaimInvariant, PTL

\* A block, a lease, a removal or a refresh of the feeds that could not be
\* published and was taken back leaves the claims in force as it found them.
THEOREM RequestsAreTakenBack == Spec => []TakenBack
<1>1. ClaimInv => TakenBack
  BY DEF ClaimInv, UndoInv, TakenBack
<1> QED
  BY <1>1, ClaimInvariant, PTL

\* restoreIntegrationClaims never runs into the limit, whatever the feeds were
\* replaced by: it takes the sources in the order of their growth.
THEOREM FeedsAlwaysFitBack == Spec => []FeedsFitBack
<1>1. ClaimInv => FeedsFitBack
  BY FitsBack DEF ClaimInv, FeedsFitBack
<1> QED
  BY <1>1, ClaimInvariant, PTL

\* The claims in force never exceed max_block_claims, although RestoreClaim does
\* not count.
THEOREM ClaimsWithinLimit == Spec => []WithinLimit
<1>1. ClaimInv => WithinLimit
  BY DEF ClaimInv, LimitInv, WithinLimit
<1> QED
  BY <1>1, ClaimInvariant, PTL

=============================================================================
