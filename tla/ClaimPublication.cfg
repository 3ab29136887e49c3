SPECIFICATION LiveSpec
CONSTANTS
    m = m
    l = l
    a1 = a1
    b1 = b1
    FeedA = FeedA
    FeedB = FeedB
    Claims = {m, l, a1, b1}
    Source <- MCSource
    Feeds = {FeedA, FeedB}
    Temporary = {m, l}
    MaxClaims = 2
    MaxFaults = 2
CHECK_DEADLOCK FALSE
INVARIANTS
    TypeOK
    ClaimsConfirmed
    TakenBack
    FeedsFitBack
    WithinLimit
PROPERTIES
    DivergenceHeals
