\* The cleaner composed with the FUSE loop, no power loss: NoLiveBlockFreed.
SPECIFICATION SpecGc
CONSTANTS
    Ino = {1, 2}
    NSeg = 4
    SegBlocks = 4
    SummaryCap = 3
    InodesPerBlock = 1
    CkptInterval = 3
    CkptPeriod = 2
    MaxTime = 2
    MaxStamp = 5
    MaxCrashes = 0
    MaxMounts = 1
    MaxEpoch = 4
INVARIANT NoLiveBlockFreed
