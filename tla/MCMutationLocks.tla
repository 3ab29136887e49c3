--------------------------- MODULE MCMutationLocks ---------------------------
(* MutationLocks for TLC: up to three requests, the loop and the service. *)
EXTENDS MutationLocks

CONSTANTS r1, r2, r3

=============================================================================
