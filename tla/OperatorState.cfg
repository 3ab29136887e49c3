SPECIFICATION Spec
CONSTANTS
    Names = {eth, vpn}
    Ids = {i1, i2}
    MaxActive = 2
    MaxGen = 2
    MaxFaults = 2
    Destinations = {d}
    MaxFiles = 2
    BackupNames = {b1, b2}
    MaxWrites = 1
INVARIANTS
    TypeOK
    OneMeaning
    RestorableVerifies
    BundleRestorable
    MigratedExact
SYMMETRY NameSymmetry
