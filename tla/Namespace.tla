----------------------------- MODULE Namespace -----------------------------
(***************************************************************************)
(* The namespace handlers of fuse_ops.c over the directory layout of      *)
(* dir.c (Directory) and the inode map array of imap.c (Imap). FUSE runs  *)
(* one request at a time, so a handler is a queue q of steps taken in     *)
(* order; a step ends at each call that changes the inode map, so every   *)
(* step is one ImapAbs step. An early return that replies an error        *)
(* without changing anything is a stutter and is left out: a handler is   *)
(* started only when it gets past them. The kernel's VFS never passes     *)
(* "." or "..", a rename onto the same inode, a directory into its own    *)
(* subtree, or a rename across types; those are guards of the requests.   *)
(* The inode attributes the handlers read are kind (from mode) and nlink, *)
(* kept as the cached inode holds them. A directory block a handler       *)
(* writes goes to the segment buffer; lsfs_inode_read_block preads the    *)
(* disk, so until the next flush (unmount or fsync) that block reads as   *)
(* zeros: a handler's read-modify-write sees the disk, not the cache.     *)
(***************************************************************************)
EXTENDS Imap, Directory, FiniteSets

CONSTANTS Names,         \* the names a request may carry
          MaxDirBlocks,  \* a bound on a directory's size in blocks
          Junk,          \* a name no entry holds: what an uninitialized dirent may spell
          MaxRequests    \* a bound on the requests of a behaviour

VARIABLES dirs,     \* dirs[i]: the blocks of directory inode i, <<>> for others
          kind,     \* kind[i]: "dir", "file", or "none" with no inode
          nlink,
          q,        \* the steps left of the request in progress
          listing,  \* the names the kernel got from the readdir calls of a listing
          nreq,     \* the requests started so far, for the bound
          pend      \* pend[i]: the blocks of directory i written since the last flush

nsvars == <<vars, dirs, kind, nlink, q, listing, nreq, pend>>
imapvars == vars

NoListing == [d |-> 0, got |-> <<>>, done |-> FALSE]

\* the blocks a directory operation on the view v wrote to give r
Written(v, r) == {k \in 1 .. Len(r) : k > Len(v) \/ r[k] # v[k]}

(* A directory is the pair of its blocks and its pending set, so that a   *)
(* handler can chain operations. lsfs_inode_read_block of each block: a   *)
(* block written since the last segment flush lies only in the segment    *)
(* buffer, and the pread of its new address returns zeros.                *)
Dir(i) == [blk |-> dirs[i], pend |-> pend[i]]
ViewOf(s) == [k \in 1 .. Len(s.blk) |-> IF k \in s.pend THEN ZeroBlock ELSE s.blk[k]]
Read(i) == ViewOf(Dir(i))

\* lsfs_inode_write_block of each written block: the cache's copy replaced, the block pending
WriteBack(s, v, r) ==
    [blk |-> [k \in 1 .. Len(r) |-> IF k \in Written(v, r) THEN r[k] ELSE s.blk[k]],
     pend |-> s.pend \cup Written(v, r)]
AddTo(s, nm, ino, ft) == WriteBack(s, ViewOf(s), DirAdd(ViewOf(s), nm, ino, ft))
RemoveFrom(s, nm) == WriteBack(s, ViewOf(s), DirRemove(ViewOf(s), nm))

\* the state of every directory set back from the pairs
SetDirs(D) == dirs' = [i \in InoNum |-> D[i].blk] /\ pend' = [i \in InoNum |-> D[i].pend]
AllDirs == [i \in InoNum |-> Dir(i)]

\* the inode numbers a directory's named entries hold, of one type
Children(d, ft) ==
    {At(Read(d), p).ino : p \in {p \in Pos(Read(d)) :
        At(Read(d), p).ino # 0 /\ At(Read(d), p).name \in Names /\ At(Read(d), p).ft = ft}}

\* the directories reachable from S through named entries: the ones the kernel can name
RECURSIVE Reach(_)
Reach(S) ==
    LET T == S \cup UNION {Children(d, "dir") : d \in S}
    IN  IF T = S THEN S ELSE Reach(T)

ReachableDirs == Reach({RootIno})

\* the block address lsfs_segment_append_block returns: not the inode's current one, if Loc has another
CurLoc(i) == IF ImapFind(entries, i) >= 0 THEN entries[ImapFind(entries, i) + 1].loc ELSE 0
NewLoc(i) == IF Loc \ {CurLoc(i)} = {} THEN CurLoc(i) ELSE CHOOSE l \in Loc \ {CurLoc(i)} : TRUE

\* lsfs_inode_write of a dirty inode: appended, and lsfs_imap_set to its new address
InodeWrite(i) == IF ImapFind(entries, i) >= 0 THEN SetUpdate(i, NewLoc(i)) ELSE SetInsert(i, NewLoc(i))

\* the request in progress is at a step of kind op; Cur is that step
Running(op) == q # <<>> /\ Head(q).op = op
Cur == Head(q)

Step(op, p, nm, np, nn, ft) == [op |-> op, p |-> p, nm |-> nm, np |-> np, nn |-> nn, ft |-> ft]

-----------------------------------------------------------------------------
NsInit ==
    /\ Init
    /\ dirs = [i \in InoNum |-> IF i = RootIno THEN DirInit(RootIno, RootIno) ELSE <<>>]
    /\ kind = [i \in InoNum |-> IF i = RootIno THEN "dir" ELSE "none"]
    /\ nlink = [i \in InoNum |-> IF i = RootIno THEN 2 ELSE 0]
    /\ q = <<>>
    /\ listing = NoListing
    /\ nreq = 0
    /\ pend = [i \in InoNum |-> {}]

(* lsfs_inode_alloc: lsfs_imap_alloc_ino, and on a number the new inode   *)
(* in the cache with nlink 1; ENOSPC ends the request                     *)
Alloc ==
    /\ Running("alloc") /\ UNCHANGED nreq
    /\ AllocNext \/ AllocScan
    /\ IF ret' = 0
       THEN q' = <<>> /\ UNCHANGED <<kind, nlink>>
       ELSE /\ kind' = [kind EXCEPT ![ret'] = Cur.ft]
            /\ nlink' = [nlink EXCEPT ![ret'] = 1]
            /\ q' = Tail(q)
    /\ UNCHANGED <<dirs, listing, pend>>

(* create after lsfs_inode_alloc: lsfs_dir_add of the new inode, then     *)
(* lsfs_inode_write of it                                                 *)
CreateLink ==
    /\ Running("create") /\ UNCHANGED nreq
    /\ SetDirs([AllDirs EXCEPT ![Cur.p] = AddTo(@, Cur.nm, ret, "file")])
    /\ InodeWrite(ret)
    /\ q' = Tail(q)
    /\ UNCHANGED <<kind, nlink, listing>>

(* mkdir after lsfs_inode_alloc: lsfs_dir_init, lsfs_dir_add in the      *)
(* parent, the parent's nlink++ for "..", lsfs_inode_write of the new one *)
MkdirLink ==
    /\ Running("mkdir") /\ UNCHANGED nreq
    /\ SetDirs([AllDirs EXCEPT ![ret] = [blk |-> DirInit(ret, Cur.p), pend |-> {1}],
                              ![Cur.p] = AddTo(@, Cur.nm, ret, "dir")])
    /\ nlink' = [nlink EXCEPT ![ret] = 2, ![Cur.p] = @ + 1]
    /\ InodeWrite(ret)
    /\ q' = Tail(q)
    /\ UNCHANGED <<kind, listing>>

\* lsfs_inode_write of a parent the request changed
WriteParent ==
    /\ Running("write") /\ UNCHANGED nreq
    /\ InodeWrite(Cur.p)
    /\ q' = Tail(q)
    /\ UNCHANGED <<dirs, kind, nlink, listing, pend>>

(* lsfs_inode_free: lsfs_imap_remove, the data blocks released            *)
Free(i) ==
    /\ ImapRemove(i)
    /\ kind' = [kind EXCEPT ![i] = "none"]

(* unlink after the lookup and the EISDIR test: lsfs_dir_remove, nlink--, *)
(* and lsfs_inode_free at 0 or else lsfs_inode_write                      *)
UnlinkFile ==
    LET i == DirLookup(Read(Cur.p), Cur.nm).ino
    IN  /\ Running("unlink") /\ UNCHANGED nreq
        /\ SetDirs([AllDirs EXCEPT ![Cur.p] = RemoveFrom(@, Cur.nm)])
        /\ nlink' = [nlink EXCEPT ![i] = @ - 1]
        /\ IF nlink[i] = 1 THEN Free(i) ELSE InodeWrite(i) /\ UNCHANGED kind
        /\ q' = Tail(q)
        /\ UNCHANGED listing

(* rmdir after the lookup, ENOTDIR and ENOTEMPTY tests: lsfs_dir_remove,  *)
(* the parent's nlink--, lsfs_inode_free of the directory                 *)
RmdirDir ==
    LET i == DirLookup(Read(Cur.p), Cur.nm).ino
    IN  /\ Running("rmdir") /\ UNCHANGED nreq
        /\ SetDirs([AllDirs EXCEPT ![Cur.p] = RemoveFrom(@, Cur.nm), ![i] = [blk |-> <<>>, pend |-> {}]])
        /\ nlink' = [nlink EXCEPT ![Cur.p] = @ - 1, ![i] = 0]
        /\ Free(i)
        /\ q' = Tail(q)
        /\ UNCHANGED listing

(* rename after the source lookup: an existing destination is removed     *)
(* (lsfs_dir_remove, its nlink--, lsfs_inode_free at 0) when its inode    *)
(* can be got, else lsfs_dir_add finds the name and the request ends in   *)
(* EIO; then the new entry is added, the old one removed, and a directory *)
(* moved to another parent moves one nlink from the old parent to the new *)
(* one, its ".." entry left as it was                                     *)
RenameBody ==
    LET src  == DirLookup(Read(Cur.p), Cur.nm)
        dst  == DirLookup(Read(Cur.np), Cur.nn)
        gone == dst # <<>> /\ kind[dst.ino] # "none"
        d1   == IF gone THEN [AllDirs EXCEPT ![Cur.np] = RemoveFrom(@, Cur.nn)] ELSE AllDirs
        d2   == [d1 EXCEPT ![Cur.np] = AddTo(@, Cur.nn, src.ino, src.ft)]
        n1   == IF gone THEN [nlink EXCEPT ![dst.ino] = @ - 1] ELSE nlink
        moved == Cur.p # Cur.np /\ src.ft = "dir"
    IN  /\ Running("rename") /\ UNCHANGED nreq
        /\ IF dst # <<>> /\ ~gone
           THEN q' = <<>> /\ UNCHANGED <<imapvars, dirs, kind, nlink, listing, pend>>
           ELSE /\ SetDirs([d2 EXCEPT ![Cur.p] = RemoveFrom(@, Cur.nm)])
                /\ nlink' = IF moved THEN [n1 EXCEPT ![Cur.p] = @ - 1, ![Cur.np] = @ + 1] ELSE n1
                /\ IF gone /\ nlink[dst.ino] = 1 THEN Free(dst.ino)
                   ELSE UNCHANGED <<imapvars, kind>>
                /\ q' = Tail(q)
                /\ UNCHANGED listing

(* readdir from offset 0: every entry fits the reply, each tagged with    *)
(* its offset + 1 as the offset to resume at, so the kernel asks again    *)
(* from the last entry's offset + 1                                       *)
ReaddirFirst ==
    /\ Running("readdir") /\ UNCHANGED nreq
    /\ listing' = [listing EXCEPT !.got = ListedNames(Read(Cur.p))]
    /\ q' = <<Step("readdir_more", Cur.p, Junk, 0, Junk, "none")>>
    /\ UNCHANGED <<imapvars, dirs, kind, nlink, pend>>

(* readdir from the last offset + 1: lsfs_dir_iterate reads a block only  *)
(* at block_offset 0, so it parses its uninitialized block buffer at a    *)
(* misaligned offset. That is undefined; what the build does is stop at a *)
(* rec_len of 0 (an empty reply, the listing ends) or hand the callback   *)
(* an entry spelt by the stale bytes, after which the kernel asks again   *)
ReaddirMore ==
    /\ Running("readdir_more") /\ UNCHANGED nreq
    /\ \/ /\ listing' = [listing EXCEPT !.done = TRUE]
          /\ q' = <<>>
       \/ /\ Junk \notin Range(listing.got)
          /\ listing' = [listing EXCEPT !.got = Append(@, Junk)]
          /\ UNCHANGED q
    /\ UNCHANGED <<imapvars, dirs, kind, nlink, pend>>

\* unmount flushes the segment buffer, and its checkpoint saves the map (lsfs_imap_save)
Unmount ==
    /\ Running("unmount") /\ UNCHANGED nreq
    /\ pend' = [i \in InoNum |-> {}]
    /\ Save
    /\ q' = Tail(q)
    /\ UNCHANGED <<dirs, kind, nlink, listing>>

\* the next mount loads it (lsfs_imap_load); the cache starts empty
Remount ==
    /\ Running("mount") /\ UNCHANGED nreq
    /\ Mount
    /\ q' = Tail(q)
    /\ UNCHANGED <<dirs, kind, nlink, listing, pend>>

-----------------------------------------------------------------------------
(* The requests, started when none is in progress and it gets past the    *)
(* lookups that would reply an error unchanged. A directory may grow to   *)
(* MaxDirBlocks blocks.                                                   *)

Request(steps) ==
    /\ q = <<>> /\ nreq < MaxRequests
    /\ q' = steps /\ listing' = NoListing /\ nreq' = nreq + 1
    /\ UNCHANGED <<imapvars, dirs, kind, nlink, pend>>

Fits(d) == Len(d) <= MaxDirBlocks

\* lsfs_op_create and lsfs_op_mkdir past EEXIST
Create(p, nm) ==
    /\ DirLookup(Read(p), nm) = <<>> /\ Fits(DirAdd(Read(p), nm, 0, "file"))
    /\ Request(<<Step("alloc", p, nm, 0, nm, "file"), Step("create", p, nm, 0, nm, "file"),
                 Step("write", p, nm, 0, nm, "file")>>)

Mkdir(p, nm) ==
    /\ DirLookup(Read(p), nm) = <<>> /\ Fits(DirAdd(Read(p), nm, 0, "dir"))
    /\ Request(<<Step("alloc", p, nm, 0, nm, "dir"), Step("mkdir", p, nm, 0, nm, "dir"),
                 Step("write", p, nm, 0, nm, "dir")>>)

\* lsfs_op_unlink past ENOENT and EISDIR, lsfs_op_rmdir past ENOENT, ENOTDIR and ENOTEMPTY
Unlink(p, nm) ==
    /\ DirLookup(Read(p), nm) # <<>> /\ kind[DirLookup(Read(p), nm).ino] = "file"
    /\ Request(<<Step("unlink", p, nm, 0, nm, "file"), Step("write", p, nm, 0, nm, "file")>>)

Rmdir(p, nm) ==
    LET e == DirLookup(Read(p), nm)
    IN  /\ e # <<>> /\ kind[e.ino] = "dir" /\ DirIsEmpty(Read(e.ino))
        /\ Request(<<Step("rmdir", p, nm, 0, nm, "dir"), Step("write", p, nm, 0, nm, "dir")>>)

(* lsfs_op_rename past ENOENT and ENOTEMPTY, as the VFS sends it: not     *)
(* onto the same inode, not across types, not into the source's subtree   *)
Rename(p, nm, np, nn) ==
    LET src == DirLookup(Read(p), nm)
        dst == DirLookup(Read(np), nn)
        after == IF dst = <<>> THEN Read(np) ELSE DirRemove(Read(np), nn)
    IN  /\ src # <<>>
        /\ dst # <<>> => /\ dst.ino # src.ino /\ kind[dst.ino] = kind[src.ino]
                         /\ kind[dst.ino] = "dir" => DirIsEmpty(Read(dst.ino))
        /\ src.ft = "dir" => np \notin Reach({src.ino})
        /\ Fits(DirAdd(after, nn, 0, src.ft))
        /\ Request(<<Step("rename", p, nm, np, nn, src.ft), Step("write", p, nm, np, nn, src.ft)>>
                   \o (IF np # p THEN <<Step("write", np, nm, np, nn, src.ft)>> ELSE <<>>))

\* opendir and the getdents loop: lsfs_op_readdir from offset 0
Readdir(d) ==
    /\ q = <<>> /\ nreq < MaxRequests
    /\ q' = <<Step("readdir", d, Junk, 0, Junk, "none")>>
    /\ listing' = [NoListing EXCEPT !.d = d] /\ nreq' = nreq + 1
    /\ UNCHANGED <<imapvars, dirs, kind, nlink, pend>>

\* lsfs_op_fsync: lsfs_segment_flush puts every pending block on the disk
Fsync ==
    /\ q = <<>> /\ nreq < MaxRequests
    /\ pend' = [i \in InoNum |-> {}] /\ nreq' = nreq + 1
    /\ UNCHANGED <<imapvars, dirs, kind, nlink, q, listing>>

\* an unmount (lsfs_op_destroy) and the next mount
UnmountMount == Request(<<Step("unmount", 0, Junk, 0, Junk, "none"), Step("mount", 0, Junk, 0, Junk, "none")>>)

\* the bound on requests is reached between requests
Done == q = <<>> /\ nreq = MaxRequests /\ UNCHANGED nsvars

NsNext ==
    \/ Alloc \/ CreateLink \/ MkdirLink \/ WriteParent \/ UnlinkFile \/ RmdirDir
    \/ RenameBody \/ ReaddirFirst \/ ReaddirMore \/ Unmount \/ Remount
    \/ \E p \in ReachableDirs, nm \in Names :
          Create(p, nm) \/ Mkdir(p, nm) \/ Unlink(p, nm) \/ Rmdir(p, nm)
    \/ \E p, np \in ReachableDirs, nm, nn \in Names : Rename(p, nm, np, nn)
    \/ \E d \in ReachableDirs : Readdir(d)
    \/ UnmountMount
    \/ Fsync
    \/ Done

NsSpec == NsInit /\ [][NsNext]_nsvars

-----------------------------------------------------------------------------
(* Properties.                                                             *)

\* the sum of rec_len over a block's chain
RECURSIVE RecSum(_)
RecSum(b) == IF b = <<>> THEN 0 ELSE Head(b).rec + RecSum(Tail(b))

(* Every directory block stays tiled by its chain through any sequence of  *)
(* lsfs_dir_add splits, reuses and new blocks and lsfs_dir_remove merges:  *)
(* the rec_len fields sum to the block size and each holds at least its   *)
(* own entry. A walk by rec_len then never meets rec_len 0, never runs    *)
(* past the block, and an entry never overlaps the next.                  *)
DirsTiled ==
    \A i \in InoNum : \A k \in 1 .. Len(dirs[i]) :
        /\ RecSum(dirs[i][k]) = BlockSize
        /\ \A j \in 1 .. Len(dirs[i][k]) : dirs[i][k][j].rec >= DirentSize(dirs[i][k][j].nlen)

(* A listing, the readdir calls of one getdents loop until an empty reply, *)
(* names every entry of the directory once and nothing else.              *)
ReaddirExact ==
    listing.done => /\ IsInjective(listing.got)
                    /\ Range(listing.got) = Range(ListedNames(Read(listing.d)))

=============================================================================
