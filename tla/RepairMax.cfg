CONSTANTS
    f = f
    g = g
    outside = outside
    b1 = b1
    b2 = b2
    LastVersion = 3
    File <- MCFile
    Text <- MCText
    Breaking <- MCBreaking
    Answers <- MCAnswers
    Findings <- MCFindings
    Paths <- MCPaths
    Original <- MCOriginal
    MaxFix = 1
    Branch <- MCBranch
    MaxRuns = 2
    Interferes = FALSE
    Keys = {"openrouter"}
SYMMETRY BranchSymmetry
SPECIFICATION Spec
INVARIANTS
    HandledIsAccounted
