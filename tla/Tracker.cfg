CONSTANTS
    a = a
    b = b
    c = c
    Finding <- MCFinding
    Batches <- MCBatches
    PersistWindows = 2
    MaxTracked = 2
    MaxWindows = 4
SPECIFICATION Spec
INVARIANTS
    TypeOK
    NeverEarly
    MemoryBounded
PROPERTIES
    ImplementsPersistence
CHECK_DEADLOCK FALSE
