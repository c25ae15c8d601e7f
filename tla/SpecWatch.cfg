CONSTANTS
    MaxSchemaDepth = 3
    MaxRefDepth = 3
    JSONMedia = {"json"}
    StringPool = {1}
    ArrayLen = 1
    Start <- MCStart
    Property = {"x", "y"}
    NewSchema <- MCNewSchema
    Annotates = FALSE
    Body <- MCBody
    MaxEdits = 3
SPECIFICATION Spec
INVARIANTS
    TypeOK
    QuietWhenRewritten
    NoBreakMissed
CHECK_DEADLOCK FALSE
