SPECIFICATION Spec
CONSTANTS
    MaxGen = 3
    Policies = {p1, p2}
    p1 = p1
    p2 = p2
    NoFile = NoFile
    MaxFaults = 3
    PowerLoss = TRUE
SYMMETRY PolicySymmetry
CHECK_DEADLOCK FALSE
INVARIANTS
    PointerIsLatestCommitted
