SPECIFICATION LanesFairSpec
CONSTANTS
    a1 = a1
    a2 = a2
    l1 = l1
    l2 = l2
    t1 = t1
    t2 = t2
    Agents = {a1, a2}
    LaneIds = {l1, l2}
    Worktrees = {t1, t2}
    OwnedPaths <- MCPaths
    RequestsOf <- MCRequests
    Caps = {1, 2}
    Ttl = 1
    MaxLanes = 2
INVARIANT
    LedgerSound
PROPERTIES
    NeverRevived
    OrphanStopped
