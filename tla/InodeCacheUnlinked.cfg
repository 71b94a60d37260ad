\* As InodeCache.cfg, with a file unlinked while open and then written to: the
\* question is whether lsfs_inode_write of the freed entry maps its number again.
SPECIFICATION Spec
CONSTANTS
    MaxInodes = 4
    CacheSize = 2
    Buckets = 2
    MaxRequests = 4
    InodesPerBlock = 1
    ChangeUnlinked = TRUE
INVARIANT FreedStaysUnmapped
