SPECIFICATION LiveSpec
CONSTANTS
    Policies = {p1, p2, p3}
    NoPolicy = NoPolicy
    MaxGen = 3
    MaxFaults = 3
INVARIANTS
    TypeOK
    NoUnjournaledChange
    BackupsIntact
    CommittedKeepsFiles
PROPERTIES
    ExpiredResolved
