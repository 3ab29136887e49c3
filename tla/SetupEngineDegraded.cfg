SPECIFICATION Spec
CONSTANTS
    MaxTxn = 2
    MaxFaults = 2
    MaxBoots = 2
    DegradedStatus = TRUE
CHECK_DEADLOCK FALSE
INVARIANTS
    CommittedStays
