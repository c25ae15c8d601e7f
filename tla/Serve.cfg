CONSTANTS
    r1 = r1
    r2 = r2
    r3 = r3
    Response <- MCTriple
    Depth = 2
SPECIFICATION Spec
INVARIANTS
    TypeOK
    NeverSendOnClosed
    CountedOnce
    DrainedBeforeExit
PROPERTIES
    ImplementsHandoff
    ShutdownTerminates
CHECK_DEADLOCK FALSE
