------------------------- MODULE EnforcementRegister -------------------------
(***************************************************************************)
(* What the generation lifecycle promises, without rows, files, kernel or  *)
(* failures: a register that holds the generation in force.  One candidate *)
(* at a time is proposed under a fresh number; it is either accepted, and  *)
(* is then the one in force, or rejected for good.                         *)
(***************************************************************************)
EXTENDS Integers

CONSTANT MaxGen

VARIABLES current,    \* the generation in force, 0 if there is none
          candidate,  \* the generation being tried, 0 if there is none
          used        \* the numbers that were ever proposed

vars == <<current, candidate, used>>

Init == current = 0 /\ candidate = 0 /\ used = {}

Propose(g) ==
    /\ candidate = 0
    /\ \A h \in used : h < g
    /\ candidate' = g
    /\ used' = used \cup {g}
    /\ UNCHANGED current

Accept ==
    /\ candidate # 0
    /\ current' = candidate
    /\ candidate' = 0
    /\ UNCHANGED used

Reject ==
    /\ candidate # 0
    /\ candidate' = 0
    /\ UNCHANGED <<current, used>>

Next == (\E g \in 1 .. MaxGen : Propose(g)) \/ Accept \/ Reject

Spec == Init /\ [][Next]_vars

=============================================================================
