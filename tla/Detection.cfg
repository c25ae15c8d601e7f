SPECIFICATION Spec
CONSTANTS
    Name <- MCName
    Names <- MCNames
    Steps <- MCSteps
    IDShaped <- MCIDShaped
    Text = {0, 1, 2}
    MaxEnumCardinality = 1
    MaxFields = 3
    MaxDepth = 2
    MinMapKeys = 2
    MapKeyIDFraction = 80
    MapKeyHardLimit = 4
    MinSamples = 2
    MinEffectSize = 40
    Critical <- MCCritical
    Document <- MCDocument
    Baseline <- MCBaseline
    Current <- MCCurrent
    Latest = 3
    MaxFiled = 4
    Node <- MCNode
    StringPool = {1, 2}
    ArrayLen = 2
INVARIANTS TypeOK CountsResponses FindingsReal NoRemovalMissed
CHECK_DEADLOCK FALSE
