\* Three inode numbers besides the root: the third allocation after a free
\* reuses a number, as the scan of lsfs_imap_alloc_ino does at
\* LSFS_MAX_INODES. A cache of three entries, so that a create evicts and a
\* freed entry can outlive the allocation that reuses its number. Two
\* buckets, so that 1 and 3 share a chain. ChangeUnlinked is FALSE: an
\* unlinked file is not changed again (InodeCacheUnlinked.cfg asks that
\* question).
SPECIFICATION Spec
CONSTANTS
    MaxInodes = 4
    CacheSize = 3
    Buckets = 2
    MaxRequests = 7
    InodesPerBlock = 1
    ChangeUnlinked = FALSE
INVARIANT NoUseAfterFree
INVARIANT GetReturnsNewest
