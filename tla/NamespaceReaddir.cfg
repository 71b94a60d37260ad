CONSTANTS
    MaxInodes = 4
    InitCap = 2
    EntriesPerBlock = 1
    CkptBlocks = 4
    Loc = {1}
    RootLoc = 1
    BlockSize = 40
    NameLen <- MCNameLen
    Names <- MCNames
    MaxDirBlocks = 2
    Junk = Junk
    MaxRequests = 6
SPECIFICATION NsSpec
INVARIANT ReaddirExact
