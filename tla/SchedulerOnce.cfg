SPECIFICATION OrderSpec
CONSTANTS
    r3 = r3
    r2 = r2
    r1 = r1
    c1 = c1
    w1 = w1
    Workers = {w1}
    Clients = {c1}
    Requests = {r1, r2, r3}
    Prio <- MCEqual
    Heavy = {}
    Refusals <- MCOneRefusal
    MaxQueued = 2
    MayCancel = FALSE
    MayResubmit = FALSE
    Crashing = {w1}
    MaxCrashes = 2
INVARIANT
    RunsSound
PROPERTIES
    FinishedOnce
    EqualsInOrder
