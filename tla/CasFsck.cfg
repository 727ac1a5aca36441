SPECIFICATION FsckSpec
CONSTANTS
    b1 = b1
    b2 = b2
    d1 = d1
    d2 = d2
    Procs = {p1}
    Blobs = {b1, b2}
    Digests = {d1, d2}
    Digest <- MCDigest
    Times <- MCTimes
    Garbage = Garbage
    NoFile = NoFile
    Sources <- MCSources
    FaultyBlobs = {b1, b2}
    MaxCrashes = 2
    MaxPowerLosses = 2
INVARIANT
    SweepHonest
