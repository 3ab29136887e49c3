---------------------------- MODULE MutationLocks ----------------------------
(***************************************************************************)
(* Who waits for whom.  The threads of the daemon serialise their          *)
(* transactions with claimMu, then with a lock file that they share with   *)
(* the rollback service, and enter the reconcile manager with its mutex    *)
(* mu.  A safe apply first starts the rollback service and waits for it.   *)
(* A restoration inside the manager calls back into the runtime, which     *)
(* holds all three locks by then.                                          *)
(***************************************************************************)
EXTENDS FiniteSets

CONSTANTS Requests,   \* the handlers of control requests, which have a timeout
          Loop,       \* the daemon's loop, which waits for ever
          Service,    \* the process of nftfw-rollback.service
          NoOne,
          RebindInRestore \* whether restorations find that a Docker bridge has
                      \*   another name than the configuration says

ASSUME LockConstants ==
    /\ IsFiniteSet(Requests) /\ Loop \notin Requests
    /\ Service \notin Requests \cup {Loop}
    /\ NoOne \notin Requests \cup {Loop, Service}
    /\ RebindInRestore \in BOOLEAN

Threads == Requests \cup {Loop}
Actors == Threads \cup {Service}
Locks == {"claimMu", "flock", "mu"}

VARIABLES
    pc,     \* where each actor is; the name of a lock: it waits for that lock
    op,     \* what a thread's transaction does
    owner   \* who holds each lock

vars == <<pc, op, owner>>

Labels == {"idle", "preflight", "await", "claimMu", "flock", "held", "mu",
           "manager", "restore", "restored", "again", "after"}

Goto(t, l) == pc' = [pc EXCEPT ![t] = l]

Release(t, ls) == owner' = [l \in Locks |-> IF l \in ls /\ owner[l] = t THEN NoOne ELSE owner[l]]

-----------------------------------------------------------------------------
(* The threads of the daemon. *)

\* "publish" changes runtime sets only, "manage" calls the manager.  A safe
\* apply is a "manage" that starts with the preflight.
Request(t) ==
    /\ pc[t] = "idle"
    /\ \/ op' = [op EXCEPT ![t] = "publish"] /\ Goto(t, "claimMu")
       \/ op' = [op EXCEPT ![t] = "manage"] /\ Goto(t, "claimMu")
       \/ op' = [op EXCEPT ![t] = "manage"] /\ Goto(t, "preflight") /\ t # Loop
    /\ UNCHANGED owner

\* SystemdGuard.Preflight: "systemctl start" joins a run in progress.
StartService(t) ==
    /\ pc[t] = "preflight"
    /\ pc' = [pc EXCEPT ![t] = "await", ![Service] = IF @ = "idle" THEN "flock" ELSE @]
    /\ UNCHANGED <<op, owner>>

\* The ten seconds of the preflight are over.
PreflightTimeout(t) ==
    /\ pc[t] = "await"
    /\ Goto(t, "idle")
    /\ UNCHANGED <<op, owner>>

\* acquireClaimPublicationLock, then AcquireMutationLock; mu in the manager.
Acquire(t, l) ==
    /\ pc[t] = l /\ owner[l] = NoOne
    /\ owner' = [owner EXCEPT ![l] = t]
    /\ Goto(t, CASE l = "claimMu" -> "flock" [] l = "flock" -> "held" [] l = "mu" -> "manager")
    /\ UNCHANGED op

\* Mutant: the wait for the lock file is given up and claimMu stays locked.
CancelKeeping(t) ==
    /\ t \in Requests /\ pc[t] \in {"claimMu", "flock"}
    /\ Goto(t, "idle")
    /\ UNCHANGED <<op, owner>>

\* The request's context ends while it polls a lock; mu cannot be given up.
Cancel(t) ==
    /\ t \in Requests /\ pc[t] \in {"claimMu", "flock"}
    /\ Goto(t, "idle") /\ Release(t, Locks)
    /\ UNCHANGED op

\* Mutant: the rollback service is started under the lock that it needs.
EnterPreflight(t) ==
    /\ pc[t] = "held"
    /\ Goto(t, "preflight")
    /\ UNCHANGED <<op, owner>>

\* The transaction proper.  A refresh of the container sets applies a new
\* generation when a bridge has changed its name.
Enter(t) ==
    /\ pc[t] = "held"
    /\ Goto(t, "mu") \/ (op[t] = "publish" /\ Goto(t, "after"))
    /\ UNCHANGED <<op, owner>>

\* The manager has to bring back an older generation, and calls PostRestore.
StartRestore(t) ==
    /\ pc[t] = "manager"
    /\ Goto(t, "restore")
    /\ UNCHANGED <<op, owner>>

\* Mutant: a changed bridge is always applied from here.
PostRestoreRebinding(t) ==
    /\ pc[t] = "restore"
    /\ Goto(t, "again")
    /\ UNCHANGED <<op, owner>>

\* RestoreRuntimeState.  Its context says that claimMu and the lock file are
\* held; nothing says so of mu.  A mutex is not reentrant: "again" has no next
\* step while this thread owns mu.
PostRestore(t) ==
    /\ pc[t] = "restore"
    /\ Goto(t, IF RebindInRestore THEN "again" ELSE "restored")
    /\ UNCHANGED <<op, owner>>

Leave(t) ==
    /\ pc[t] \in {"manager", "restored"}
    /\ Goto(t, "after") /\ Release(t, {"mu"})
    /\ UNCHANGED op

\* An apply whose claims cannot be published enters the manager once more, to
\* roll back.
RollBack(t) ==
    /\ pc[t] = "after" /\ op[t] = "manage"
    /\ Goto(t, "mu") /\ op' = [op EXCEPT ![t] = "rollback"]
    /\ UNCHANGED owner

Finish(t) ==
    /\ pc[t] = "after"
    /\ Goto(t, "idle") /\ Release(t, Locks)
    /\ UNCHANGED op

-----------------------------------------------------------------------------
(* The rollback service, a process with a manager of its own. *)

\* The timer of systemd.
Tick ==
    /\ pc[Service] = "idle"
    /\ Goto(Service, "flock")
    /\ UNCHANGED <<op, owner>>

ServiceLock ==
    /\ pc[Service] = "flock" /\ owner["flock"] = NoOne
    /\ owner' = [owner EXCEPT !["flock"] = Service]
    /\ Goto(Service, "held")
    /\ UNCHANGED op

\* The run ends and so does the preflight of everybody who waits for it,
\* successfully or not.
ServiceEnd ==
    /\ pc[Service] = "held"
    /\ Release(Service, {"flock"})
    /\ \E l \in {"claimMu", "idle"} :
           pc' = [a \in Actors |-> IF a = Service THEN "idle"
                                   ELSE IF pc[a] = "await" THEN l ELSE pc[a]]
    /\ UNCHANGED op

-----------------------------------------------------------------------------
Init ==
    /\ pc = [a \in Actors |-> "idle"]
    /\ op = [t \in Threads |-> "publish"]
    /\ owner = [l \in Locks |-> NoOne]

Inside(t) ==
    \/ StartService(t) \/ Enter(t) \/ StartRestore(t) \/ PostRestore(t)
    \/ Leave(t) \/ RollBack(t) \/ Finish(t)
    \/ \E l \in Locks : Acquire(t, l)

GiveUp(t) == PreflightTimeout(t) \/ Cancel(t)

Serve == ServiceLock \/ ServiceEnd

Next ==
    \/ \E t \in Threads : Request(t) \/ Inside(t) \/ GiveUp(t)
    \/ Tick \/ Serve

Spec == Init /\ [][Next]_vars

\* Running code runs on and contexts time out.  Nothing says that a polled
\* lock is ever obtained.
Fairness == \A t \in Threads : WF_vars(Inside(t)) /\ WF_vars(GiveUp(t))

LiveSpec == Spec /\ Fairness /\ WF_vars(Serve)

-----------------------------------------------------------------------------
(* Properties. *)

\* The variables keep their types: the service never enters the daemon's
\* manager, and no lock has an owner that is not a thread of its process.
TypeOK ==
    /\ pc \in [Actors -> Labels] /\ pc[Service] \in {"idle", "flock", "held"}
    /\ op \in [Threads -> {"publish", "manage", "rollback"}]
    /\ owner \in [Locks -> Actors \cup {NoOne}]
    /\ owner["claimMu"] # Service /\ owner["mu"] # Service

WaitsFor(a) ==
    {b \in Actors : \/ pc[a] \in Locks /\ owner[pc[a]] = b
                    \/ pc[a] = "again" /\ owner["mu"] = b
                    \/ pc[a] = "await" /\ b = Service /\ pc[Service] # "idle"}

\* There is no group of threads and processes of which each waits for another
\* one of the group: the two mutexes and the lock file are always taken in the
\* same order, and a safe apply waits for the service before it takes any.
NoWaitCycle ==
    \A group \in (SUBSET Actors) \ {{}} : \E a \in group : WaitsFor(a) \cap group = {}

\* No path, cancelled or not, ends a transaction with a lock still held.
NoLeak ==
    \A l \in Locks : owner[l] # NoOne => pc[owner[l]] \notin {"idle", "preflight", "await"}

\* Every control request ends, with an answer or an error, even if it meets a
\* restoration: the control socket's timeouts reach every wait of it.
RequestsEnd == \A t \in Requests : pc[t] # "idle" ~> pc[t] = "idle"

\* A restoration that the manager starts comes back to the manager, with the
\* runtime sets restored or with an error that installs emergency deny.
RestorationReturns ==
    \A t \in Threads : pc[t] = "restore" ~> pc[t] \notin {"restore", "again"}

=============================================================================
