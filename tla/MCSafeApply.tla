----------------------------- MODULE MCSafeApply -----------------------------
(* SafeApply for TLC: scripts are model values. *)
EXTENDS SafeApply, TLC

CONSTANTS p1, p2

\* The scripts are interchangeable: no step compares them but for equality.
PolicySymmetry == Permutations({p1, p2})

=============================================================================
