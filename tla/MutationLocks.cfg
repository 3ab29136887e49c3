SPECIFICATION LiveSpec
CONSTANTS
    r1 = r1
    r2 = r2
    r3 = r3
    Loop = Loop
    Service = Service
    NoOne = NoOne
    Requests = {r1, r2, r3}
    RebindInRestore = FALSE
INVARIANTS
    NoWaitCycle
    NoLeak
PROPERTIES
    RequestsEnd
