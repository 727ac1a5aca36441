SPECIFICATION FairSpec
CONSTANTS
    r1 = r1
    r2 = r2
    c1 = c1
    w1 = w1
    Workers = {w1}
    Clients = {c1}
    Requests = {r1, r2}
    Prio <- MCPrio
    Heavy <- MCHeavy
    Refusals <- MCOneRefusal
    MaxQueued = 1
    MayCancel = TRUE
    MayResubmit = FALSE
    Crashing = {w1}
    MaxCrashes = 1
INVARIANT
    QueueSound
PROPERTY
    ReachesTerminal
