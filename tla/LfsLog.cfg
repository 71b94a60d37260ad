CONSTANTS
    Ino = {1, 2}
    NSeg = 7
    SegBlocks = 4
    SummaryCap = 3
    InodesPerBlock = 1
    CkptInterval = 3
    CkptPeriod = 2
    MaxTime = 2
    MaxStamp = 6
    MaxCrashes = 0
    MaxMounts = 2
SPECIFICATION Spec
INVARIANT CheckpointReferencesLog
