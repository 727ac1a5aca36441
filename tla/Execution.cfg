SPECIFICATION FairSpec
CONSTANTS
    Inputs = {i1}
    PolicyDocs <- MCPolicyDocs
    MaxAmount = 2
    Cap = 1
    PipeCap = 1
    MaxWrites = 2
    Platform = "ps"
    MaxRuns = 2
    MaxCrashes = 1
CHECK_DEADLOCK FALSE
INVARIANTS
    OutcomeEarned
    EvidenceSealed

    
