\* The cleaner composed with the FUSE loop, no power loss, one mount.
SPECIFICATION SpecGc
CONSTANTS
    Ino = {1, 2}
    NSeg = 3
    SegBlocks = 4
    SummaryCap = 3
    InodesPerBlock = 1
    CkptInterval = 3
    CkptPeriod = 2
    MaxTime = 0
    MaxStamp = 3
    MaxCrashes = 0
    MaxMounts = 1
    MaxEpoch = 2
INVARIANT AppendInBounds
PROPERTY RequestsComplete
