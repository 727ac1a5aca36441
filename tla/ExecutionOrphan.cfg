SPECIFICATION Spec
CONSTANTS
    Inputs = {i1}
    PolicyDocs <- MCPolicyDocs
    MaxAmount = 2
    Cap = 1
    PipeCap = 1
    MaxWrites = 2
    Platform = "linux"
    MaxRuns = 1
    MaxCrashes = 0
CHECK_DEADLOCK FALSE
INVARIANTS
    OrphanIsViolation
