SPECIFICATION LiveSpec
CONSTANTS
    MaxTxn = 2
    MaxFaults = 2
    MaxBoots = 2
    DegradedStatus = FALSE
CHECK_DEADLOCK FALSE
INVARIANTS
    TypeOK
    JournalAccepted
    CommittedStays
    RolledBackIsRestored
    BackupsArePrior
    GenerationGone
PROPERTIES
    ExpiredEnds
