SPECIFICATION FairSpec
CONSTANTS
    b1 = b1
    b2 = b2
    d1 = d1
    d2 = d2
    Procs = {p1, p2}
    Blobs = {b1, b2}
    Digests = {d1, d2}
    Digest <- MCDigest
    Times <- MCTimes
    Garbage = Garbage
    NoFile = NoFile
    Sources <- MCSources
    FaultyBlobs = {b2}
    p1 = p1
    MaxCrashes = 1
    MaxPowerLosses = 1
INVARIANTS
    TypeOK
    ObjectsIntact
    CommitSound
    LostRaceMeansPublished
PROPERTIES
    StagedThenPublished
    PromiseSpec
