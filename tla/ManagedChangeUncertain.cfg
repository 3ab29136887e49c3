SPECIFICATION Spec
CONSTANTS
    Policies = {p1, p2, p3}
    NoPolicy = NoPolicy
    MaxGen = 3
    MaxFaults = 1
SYMMETRY PolicySymmetry
INVARIANTS
    CommittedHasFiles
