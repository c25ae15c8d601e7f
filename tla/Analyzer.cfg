CONSTANTS
    x = x
    y = y
    Key <- MCKey
    Times <- MCTimes
    LastTime = 7
    Duration = 2
    Buckets = 4
    MaxEndpoints = 2
    MaxLiveBuckets = 8
    CurrentFor = 2
    BaselineFor = 2
    FirstTick = 3
    PersistWindows = 2
    MaxTracked = 1
    MaxHeld = 3
SYMMETRY KeySymmetry
SPECIFICATION Spec
INVARIANTS
    TypeOK
    PublishedPersisted
    OnceCurrent
    NothingOverlooked
CHECK_DEADLOCK FALSE
