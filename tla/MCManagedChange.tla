--------------------------- MODULE MCManagedChange ---------------------------
(* ManagedChange for TLC: the policies are interchangeable. *)
EXTENDS ManagedChange, TLC

PolicySymmetry == Permutations(Policies)

=============================================================================
