SPECIFICATION LiveSpec
CONSTANTS
    MaxGen = 3
    Policies = {p1}
    p1 = p1
    p2 = p2
    NoFile = NoFile
    MaxFaults = 3
    PowerLoss = FALSE
CHECK_DEADLOCK FALSE
INVARIANTS
    TypeOK
    AtMostOneInFlight
    CandidateTracked
    RecoveryUnambiguous
    PointerIsLatestCommitted
PROPERTIES
    PointerOnlyAdvances
    ImplementsRegister
    StalePendingResolved
    EnforcementRestored
