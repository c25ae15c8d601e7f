CONSTANTS
    get = get
    post = post
    a = a
    b = b
    c = c
    n7 = n7
    Wild = Wild
    Overflow = Overflow
    Method <- MCMethod
    Segment <- MCSegment
    IDShaped <- MCIDShaped
    Requests <- MCRequests
    MinSamples = 2
    StatMinSamples = 3
    MinDistinctForVariable = 2
    IDFraction = 80
    GrowthRatio = 50
    MaxChildrenPerNode = 2
    MaxSegments = 2
    MaxNodes = 6
    MaxObservations = 6
SPECIFICATION Spec
INVARIANTS
    TypeOK
    TrieSound
PROPERTIES
    OnlyGeneralises
