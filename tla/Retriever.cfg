SPECIFICATION FairSpec
CONSTANTS
    Procs = {p1, p2}
    Keys = {k1}
    small = small
    large = large
    Payloads = {small, large}
    Size <- MCSize
    Capacity = 1
    ByteBudget = 2
    CostBudget = 2
    MAX_RETRIES = 1
    Sleeps = TRUE
    MaxFetches = 3
    MaxGap = 1
    MaxCrashes = 1
    NoFile = NoFile
    Torn = Torn
INVARIANT
    RetrievalSound
PROPERTY
    FetchEnds
CHECK_DEADLOCK FALSE
