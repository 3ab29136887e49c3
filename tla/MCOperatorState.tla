--------------------------- MODULE MCOperatorState ---------------------------
(* The instance of OperatorState that TLC checks.                          *)
EXTENDS OperatorState, TLC

\* No action tells one interface name, id or backup name from another.
NameSymmetry ==
    Permutations(Names) \cup Permutations(Ids) \cup Permutations(BackupNames)

=============================================================================
