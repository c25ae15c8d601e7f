CONSTANTS
    MaxLength = 5
    MaxBody = 3
    MaxRead = 2
SPECIFICATION TeeSpec
INVARIANTS
    TeeTypeOK
PROPERTIES
    KeepsPromise
CHECK_DEADLOCK FALSE
