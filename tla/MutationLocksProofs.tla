------------------------- MODULE MutationLocksProofs -------------------------
(***************************************************************************)
(* Proofs about MutationLocks, for any number of concurrent requests.      *)
(***************************************************************************)
EXTENDS MutationLocks, TLAPS

-----------------------------------------------------------------------------
(* Type correctness. *)

\* Every step of a thread or of the service keeps the types.
LEMMA LockTypeStep == TypeOK /\ [Next]_vars => TypeOK'
<1> SUFFICES ASSUME TypeOK, [Next]_vars PROVE TypeOK'
    OBVIOUS
<1> USE LockConstants DEF TypeOK, Threads, Actors, Locks, Labels
<1>1. ASSUME NEW t \in Threads, Request(t) PROVE TypeOK'
      BY <1>1 DEF Request, Goto
<1>2. ASSUME NEW t \in Threads, StartService(t) PROVE TypeOK'
      BY <1>2 DEF StartService
<1>3. ASSUME NEW t \in Threads, PreflightTimeout(t) PROVE TypeOK'
      BY <1>3 DEF PreflightTimeout, Goto
<1>4. ASSUME NEW t \in Threads, NEW l \in Locks, Acquire(t, l) PROVE TypeOK'
  <2>1. CASE l = "claimMu"
        BY <1>4, <2>1 DEF Acquire, Goto
  <2>2. CASE l = "flock"
        BY <1>4, <2>2 DEF Acquire, Goto
  <2>3. CASE l = "mu"
        BY <1>4, <2>3 DEF Acquire, Goto
  <2> QED
        BY <2>1, <2>2, <2>3
<1>5. ASSUME NEW t \in Threads, Cancel(t) PROVE TypeOK'
      BY <1>5 DEF Cancel, Goto, Release
<1>6. ASSUME NEW t \in Threads, Enter(t) PROVE TypeOK'
      BY <1>6 DEF Enter, Goto
<1>7. ASSUME NEW t \in Threads, StartRestore(t) PROVE TypeOK'
      BY <1>7 DEF StartRestore, Goto
<1>8. ASSUME NEW t \in Threads, PostRestore(t) PROVE TypeOK'
      BY <1>8 DEF PostRestore, Goto
<1>9. ASSUME NEW t \in Threads, Leave(t) PROVE TypeOK'
      BY <1>9 DEF Leave, Goto, Release
<1>10. ASSUME NEW t \in Threads, RollBack(t) PROVE TypeOK'
      BY <1>10 DEF RollBack, Goto
<1>11. ASSUME NEW t \in Threads, Finish(t) PROVE TypeOK'
      BY <1>11 DEF Finish, Goto, Release
<1>12. CASE Tick
      BY <1>12 DEF Tick, Goto
<1>13. CASE ServiceLock
      BY <1>13 DEF ServiceLock, Goto
<1>14. CASE ServiceEnd
      BY <1>14 DEF ServiceEnd, Release
<1>15. CASE UNCHANGED vars
      BY <1>15 DEF vars
<1> QED
      BY <1>1, <1>2, <1>3, <1>4, <1>5, <1>6, <1>7, <1>8, <1>9, <1>10, <1>11,
         <1>12, <1>13, <1>14, <1>15 DEF Next, Inside, GiveUp, Serve

\* The locks and the positions of all actors keep their types, however many
\* requests run at once.
THEOREM LockTypes == Spec => []TypeOK
<1>1. Init => TypeOK
      BY LockConstants DEF Init, TypeOK, Threads, Actors, Locks, Labels
<1> QED
      BY <1>1, LockTypeStep, PTL DEF Spec

-----------------------------------------------------------------------------
(* Which locks an actor holds follows from where it is. *)

InClaim == {"flock", "held", "mu", "manager", "restore", "restored", "again", "after"}
InFlock == InClaim \ {"flock"}
InMu == {"manager", "restore", "restored", "again"}

HoldInv ==
    /\ \A t \in Threads : /\ owner["claimMu"] = t <=> pc[t] \in InClaim
                          /\ owner["flock"] = t <=> pc[t] \in InFlock
                          /\ owner["mu"] = t <=> pc[t] \in InMu
    /\ owner["flock"] = Service <=> pc[Service] = "held"

\* Every step keeps the correspondence of locks and positions.
LEMMA HoldStep == TypeOK /\ HoldInv /\ [Next]_vars => HoldInv'
<1> SUFFICES ASSUME TypeOK, HoldInv, [Next]_vars PROVE HoldInv'
    OBVIOUS
<1> USE LockConstants DEF TypeOK, HoldInv, Threads, Actors, Locks, InClaim, InFlock, InMu
<1>1. ASSUME NEW t \in Threads, Request(t) PROVE HoldInv'
      BY <1>1 DEF Request, Goto
<1>2. ASSUME NEW t \in Threads, StartService(t) PROVE HoldInv'
      BY <1>2 DEF StartService
<1>3. ASSUME NEW t \in Threads, PreflightTimeout(t) PROVE HoldInv'
      BY <1>3 DEF PreflightTimeout, Goto
<1>4. ASSUME NEW t \in Threads, NEW l \in Locks, Acquire(t, l) PROVE HoldInv'
  <2>1. CASE l = "claimMu"
        BY <1>4, <2>1 DEF Acquire, Goto
  <2>2. CASE l = "flock"
        BY <1>4, <2>2 DEF Acquire, Goto
  <2>3. CASE l = "mu"
        BY <1>4, <2>3 DEF Acquire, Goto
  <2> QED
        BY <2>1, <2>2, <2>3
<1>5. ASSUME NEW t \in Threads, Cancel(t) PROVE HoldInv'
      BY <1>5 DEF Cancel, Goto, Release
<1>6. ASSUME NEW t \in Threads, Enter(t) PROVE HoldInv'
      BY <1>6 DEF Enter, Goto
<1>7. ASSUME NEW t \in Threads, StartRestore(t) PROVE HoldInv'
      BY <1>7 DEF StartRestore, Goto
<1>8. ASSUME NEW t \in Threads, PostRestore(t) PROVE HoldInv'
      BY <1>8 DEF PostRestore, Goto
<1>9. ASSUME NEW t \in Threads, Leave(t) PROVE HoldInv'
      BY <1>9 DEF Leave, Goto, Release
<1>10. ASSUME NEW t \in Threads, RollBack(t) PROVE HoldInv'
      BY <1>10 DEF RollBack, Goto
<1>11. ASSUME NEW t \in Threads, Finish(t) PROVE HoldInv'
      BY <1>11 DEF Finish, Goto, Release
<1>12. CASE Tick
      BY <1>12 DEF Tick, Goto
<1>13. CASE ServiceLock
      BY <1>13 DEF ServiceLock, Goto
<1>14. CASE ServiceEnd
      BY <1>14 DEF ServiceEnd, Release
<1>15. CASE UNCHANGED vars
      BY <1>15 DEF vars
<1> QED
      BY <1>1, <1>2, <1>3, <1>4, <1>5, <1>6, <1>7, <1>8, <1>9, <1>10, <1>11,
         <1>12, <1>13, <1>14, <1>15 DEF Next, Inside, GiveUp, Serve

\* The correspondence holds in every reachable state.
LEMMA HoldInvariant == Spec => [](TypeOK /\ HoldInv)
<1>1. Init => HoldInv
      BY LockConstants DEF Init, HoldInv, Threads, Actors, Locks, InClaim, InFlock, InMu
<1> QED
      BY <1>1, LockTypes, HoldStep, PTL DEF Spec

-----------------------------------------------------------------------------
(* No lock is leaked. *)

\* Whoever owns a lock is inside a transaction: no return, error or
\* cancellation leaves a lock behind, however many requests compete.
THEOREM LocksReleased == Spec => []NoLeak
<1>1. TypeOK /\ HoldInv => NoLeak
      BY LockConstants
         DEF TypeOK, HoldInv, NoLeak, Threads, Actors, Locks, InClaim, InFlock, InMu
<1> QED
      BY <1>1, HoldInvariant, PTL

-----------------------------------------------------------------------------
(* No circular wait. *)

\* No thread asks for the manager's mutex from inside a restoration.
NoAgain == \A t \in Threads : pc[t] # "again"

\* Without a rebinding in a restoration nobody gets there.
LEMMA NoAgainStep == ASSUME RebindInRestore = FALSE
                     PROVE TypeOK /\ NoAgain /\ [Next]_vars => NoAgain'
<1> SUFFICES ASSUME TypeOK, NoAgain, [Next]_vars PROVE NoAgain'
    OBVIOUS
<1> USE LockConstants DEF TypeOK, NoAgain, Threads, Actors, Locks
<1>1. ASSUME NEW t \in Threads, Request(t) PROVE NoAgain'
      BY <1>1 DEF Request, Goto
<1>2. ASSUME NEW t \in Threads, StartService(t) PROVE NoAgain'
      BY <1>2 DEF StartService
<1>3. ASSUME NEW t \in Threads, GiveUp(t) PROVE NoAgain'
      BY <1>3 DEF GiveUp, PreflightTimeout, Cancel, Goto
<1>4. ASSUME NEW t \in Threads, NEW l \in Locks, Acquire(t, l) PROVE NoAgain'
      BY <1>4 DEF Acquire, Goto
<1>5. ASSUME NEW t \in Threads, Enter(t) \/ StartRestore(t) \/ PostRestore(t) PROVE NoAgain'
      BY <1>5 DEF Enter, StartRestore, PostRestore, Goto
<1>6. ASSUME NEW t \in Threads, Leave(t) \/ RollBack(t) \/ Finish(t) PROVE NoAgain'
      BY <1>6 DEF Leave, RollBack, Finish, Goto
<1>7. CASE Tick
      BY <1>7 DEF Tick, Goto
<1>8. CASE Serve
      BY <1>8 DEF Serve, ServiceLock, ServiceEnd, Goto
<1>9. CASE UNCHANGED vars
      BY <1>9 DEF vars
<1> QED
      BY <1>1, <1>2, <1>3, <1>4, <1>5, <1>6, <1>7, <1>8, <1>9 DEF Next, Inside

\* The member of a group that holds the innermost lock waits for nobody in it.
LEMMA InnermostIsFree == TypeOK /\ HoldInv /\ NoAgain => NoWaitCycle
<1> SUFFICES ASSUME TypeOK, HoldInv, NoAgain, NEW group \in (SUBSET Actors) \ {{}}
             PROVE \E a \in group : WaitsFor(a) \cap group = {}
    BY DEF NoWaitCycle
<1> USE LockConstants DEF TypeOK, HoldInv, NoAgain, Threads, Actors, Locks, InClaim, InFlock, InMu
<1>1. CASE owner["mu"] \in group
  <2>1. pc[owner["mu"]] \in InMu
        BY <1>1
  <2>2. WaitsFor(owner["mu"]) = {}
        BY <1>1, <2>1 DEF WaitsFor
  <2> QED
        BY <1>1, <2>2
<1>2. CASE owner["mu"] \notin group /\ owner["flock"] \in group
  <2>1. pc[owner["flock"]] \in InFlock \cup {"held"}
        BY <1>2
  <2>2. WaitsFor(owner["flock"]) \subseteq {owner["mu"]}
        BY <1>2, <2>1 DEF WaitsFor
  <2> QED
        BY <1>2, <2>2
<1>3. CASE owner["mu"] \notin group /\ owner["flock"] \notin group /\ Service \in group
  <2>1. WaitsFor(Service) \subseteq {owner["flock"]}
        BY DEF WaitsFor
  <2> QED
        BY <1>3, <2>1
<1>4. CASE /\ owner["mu"] \notin group /\ owner["flock"] \notin group
           /\ Service \notin group /\ owner["claimMu"] \in group
  <2>1. pc[owner["claimMu"]] \in InClaim
        BY <1>4
  <2>2. WaitsFor(owner["claimMu"]) \subseteq {owner["flock"], owner["mu"]}
        BY <1>4, <2>1 DEF WaitsFor
  <2> QED
        BY <1>4, <2>2
<1>5. CASE /\ owner["mu"] \notin group /\ owner["flock"] \notin group
           /\ Service \notin group /\ owner["claimMu"] \notin group
  <2>1. PICK a \in group : TRUE
        OBVIOUS
  <2>2. WaitsFor(a) \subseteq {owner["claimMu"], owner["flock"], owner["mu"], Service}
        BY <1>5 DEF WaitsFor
  <2> QED
        BY <1>5, <2>1, <2>2
<1> QED
    BY <1>1, <1>2, <1>3, <1>4, <1>5

\* As long as no restoration rebinds a bridge, the daemon's threads and the
\* rollback service never wait for each other in a circle, for any number of
\* concurrent requests.
THEOREM NoCircularWait == ASSUME RebindInRestore = FALSE
                          PROVE Spec => []NoWaitCycle
<1>1. Init => NoAgain
      BY LockConstants DEF Init, NoAgain, Threads, Actors
<1>2. Spec => []NoAgain
      BY <1>1, LockTypes, NoAgainStep, PTL DEF Spec
<1> QED
      BY <1>2, HoldInvariant, InnermostIsFree, PTL

=============================================================================
