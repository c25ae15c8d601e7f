CONSTANTS
    orders = orders
    Path <- MCPath
    Value <- MCValue
    Body <- MCBody
    MaxPaths = 2
    MaxPerPath = 2
    MinValues = 2
    MaxPeriods = 2
SPECIFICATION Spec
INVARIANTS
    TypeOK
    PeriodsApart
    RoomFreed
    CandidatesGrounded
