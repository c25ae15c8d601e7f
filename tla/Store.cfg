CONSTANTS
    x = x
    y = y
    z = z
    LastTime = 7
    Key <- MCKey
    Times <- MCTimes
    Duration = 2
    Buckets = 2
    MaxEndpoints = 2
    MaxLiveBuckets = 3
SPECIFICATION Spec
INVARIANTS
    TypeOK
    CountsExact
    WithinCaps
    WindowExact
    FreshestKept
PROPERTIES
    ImplementsLog
