------------------------------- MODULE LfsLog -------------------------------
(***************************************************************************)
(* The LSFS storage engine as one foreground (FUSE) thread sees it: the    *)
(* segment writer (main.c, segment part), the in-memory inode map          *)
(* (imap.c), the segment usage table, inode writes (inode.c), the          *)
(* checkpoint protocol and roll-forward recovery (checkpoint.c), mount and *)
(* unmount (main.c), over a disk image whose unsynced writes may or may    *)
(* not survive a power loss.                                               *)
(*                                                                         *)
(* A FUSE handler is modelled by the work items it hands to the engine     *)
(* (one lsfs_inode_write, lsfs_inode_write_block, flush or checkpoint      *)
(* phase each); items run one per step, so a crash or a tick of the clock  *)
(* can fall between any two of them, as it can in the code.                *)
(***************************************************************************)
EXTENDS Integers, Sequences, FiniteSets

CONSTANTS
    Ino,             \* inode numbers the model may allocate (contains RootIno)
    NSeg,            \* sb.total_segments
    SegBlocks,       \* LSFS_SEGMENT_BLOCKS (block 0 of a segment is its summary)
    SummaryCap,      \* descriptors that fit beside the header in the summary block
    InodesPerBlock,  \* the 16 of "ino % 16" in lsfs_inode_get
    CkptInterval,    \* CHECKPOINT_INTERVAL (writes since the last checkpoint)
    CkptPeriod,      \* CHECKPOINT_TIME_SEC
    MaxTime,         \* bound on the clock
    MaxStamp,        \* bound on inode / data modifications
    MaxCrashes,      \* bound on power losses
    MaxMounts        \* bound on mounts

RootIno == 1                       \* LSFS_ROOT_INO
LogStart == 1                      \* LSFS_LOG_START; block 0 means "no block"
Seg == 0 .. NSeg - 1
Slots == 1 .. SegBlocks - 1        \* payload slots of a segment
Addr == LogStart .. LogStart + NSeg * SegBlocks - 1
Regions == {0, 1}                  \* the two checkpoint regions
(* The FUSE loop (fuse_session_loop is single-threaded) and the cleaner    *)
(* thread started by lsfs_gc_init. This module gives work only to "fuse";  *)
(* LfsCleaner adds the cleaner's.                                          *)
Threads == {"fuse", "gc"}

ASSUME /\ RootIno \in Ino /\ Ino \subseteq 1 .. 65535
       /\ NSeg >= 2 /\ SegBlocks >= 4 /\ SummaryCap >= 1
       /\ InodesPerBlock >= 1 /\ CkptInterval >= 1 /\ CkptPeriod >= 1

\* lsfs_segment_to_block / lsfs_block_to_segment
SegToBlock(s, off) == LogStart + s * SegBlocks + off
BlockSeg(b) == IF b < LogStart THEN 0 ELSE (b - LogStart) \div SegBlocks
BlockOff(b) == IF b < LogStart THEN 0 ELSE (b - LogStart) % SegBlocks

(* A log block: an inode record, a data/dirent block, or never written.    *)
(* stamp identifies one version of the contents; d0 is direct[0].          *)
(* A directory block is abstracted to the inode numbers its live entries   *)
(* name ("." and ".." of the root name the root itself).                   *)
Content == [kind : {"zero", "inode", "dir"}, ino : Ino \cup {0},
            stamp : 0 .. MaxStamp, d0 : {0} \cup Addr, ents : SUBSET Ino]
Zero == [kind |-> "zero", ino |-> 0, stamp |-> 0, d0 |-> 0, ents |-> {}]
\* struct lsfs_block_info: the type recorded by the appender
Desc == [ino : Ino \cup {0}, type : {"none", "inode", "data", "dirent"}]
NoDesc == [ino |-> 0, type |-> "none"]
Summary == [magic : BOOLEAN, ts : 0 .. MaxTime, count : 1 .. SegBlocks,
            desc : [Slots -> Desc]]
NoSummary == [magic |-> FALSE, ts |-> 0, count |-> 1, desc |-> [j \in Slots |-> NoDesc]]
SegStates == {"FREE", "ACTIVE", "FULL", "CLEANING"}
Usage == [state : SegStates, live : 0 .. SegBlocks - 1, ts : 0 .. MaxTime]
ImapFn == [Ino -> {0} \cup Addr]                   \* 0: no entry
(* epoch is not on disk: it numbers checkpoint writes for the properties.  *)
Header == [magic : BOOLEAN, complete : BOOLEAN, seq : Nat, ts : 0 .. MaxTime,
           log_head : Nat, epoch : Nat]
Image == [sum : [Seg -> Summary], blk : [Seg -> [Slots -> Content]],
          hdr : [Regions -> Header],
          cpimap : [Regions -> [map : ImapFn, epoch : Nat]],
          segtab : [Seg -> Usage]]
CachedInode == [cached : BOOLEAN, loc : {0} \cup Addr, stamp : 0 .. MaxStamp,
                d0 : {0} \cup Addr, dirty : BOOLEAN]
NotCached == [cached |-> FALSE, loc |-> 0, stamp |-> 0, d0 |-> 0, dirty |-> FALSE]

VARIABLES
    now,            \* time(NULL)
    up,             \* "down", "mounting" or "serving"
    wq,             \* thread -> the work items it still has to run
    wlock,          \* ctx->write_lock: "none" or the thread holding it
    gc_running,     \* ctx->gc_running
    disk,           \* the image as read back through the page cache
    durable,        \* the image a power loss would leave
    segbuf,         \* ctx->segbuf: [id, count, blk]
    segtable,       \* ctx->segtable.entries
    free_count,     \* ctx->segtable.free_count
    log_head,       \* ctx->sb.log_head
    imap,           \* ctx->imap entries (ino -> location)
    next_ino,       \* ctx->imap.next_ino
    icache,         \* ctx->icache
    checkpoint_seq, last_checkpoint, writes_since_checkpoint,
    active_checkpoint,  \* ctx->sb.active_checkpoint
    stamp,          \* last stamp handed out
    epoch,          \* checkpoint writes so far (numbers headers)
    crashes, mounts,
    promised,       \* ino -> stamp guaranteed durable by the last fsync/checkpoint
    recovered       \* [from, newest]: epochs of the loaded and newest valid header

memVars == <<segbuf, segtable, free_count, log_head, imap, next_ino, icache,
             checkpoint_seq, last_checkpoint, writes_since_checkpoint,
             active_checkpoint>>
thrVars == <<wlock, gc_running>>
vars == <<now, up, wq, thrVars, disk, durable, memVars, stamp, epoch, crashes, mounts,
          promised, recovered>>

-----------------------------------------------------------------------------
(* mkfs.lsfs (format_filesystem): segment 0 holds the root inode (slot 1)  *)
(* and the root directory block (slot 2); checkpoint 0 is complete.        *)
RootDirAddr == SegToBlock(0, 2)
MkfsImage ==
    [sum |-> [s \in Seg |->
                IF s = 0
                THEN [magic |-> TRUE, ts |-> 0, count |-> 3,
                      desc |-> [j \in Slots |->
                                 CASE j = 1 -> [ino |-> RootIno, type |-> "inode"]
                                   [] j = 2 -> [ino |-> RootIno, type |-> "dirent"]
                                   [] OTHER -> NoDesc]]
                ELSE NoSummary],
     blk |-> [s \in Seg |-> [j \in Slots |->
                IF s = 0 /\ j = 1
                THEN [kind |-> "inode", ino |-> RootIno, stamp |-> 1,
                      d0 |-> RootDirAddr, ents |-> {}]
                ELSE IF s = 0 /\ j = 2
                THEN [kind |-> "dir", ino |-> RootIno, stamp |-> 0, d0 |-> 0,
                      ents |-> {RootIno}]
                ELSE Zero]],
     hdr |-> [r \in Regions |->
                [magic |-> r = 0, complete |-> r = 0, seq |-> IF r = 0 THEN 1 ELSE 0,
                 ts |-> 0, log_head |-> IF r = 0 THEN SegToBlock(0, 3) ELSE 0,
                 epoch |-> 0]],
     cpimap |-> [r \in Regions |->
                [map |-> [i \in Ino |-> IF r = 0 /\ i = RootIno THEN SegToBlock(0, 1) ELSE 0],
                 epoch |-> 0]],
     segtab |-> [s \in Seg |->
                IF s = 0 THEN [state |-> "FULL", live |-> 2, ts |-> 0]
                ELSE [state |-> "FREE", live |-> 0, ts |-> 0]]]

EmptySegbuf(id) == [id |-> id, count |-> 1, blk |-> [j \in Slots |-> Zero],
                    info |-> [j \in Slots |-> NoDesc]]

\* the memory of an unmounted file system
DownMemory ==
    /\ segbuf' = EmptySegbuf(0)
    /\ segtable' = [s \in Seg |-> [state |-> "FREE", live |-> 0, ts |-> 0]]
    /\ free_count' = 0 /\ log_head' = 0
    /\ imap' = [i \in Ino |-> 0] /\ next_ino' = RootIno + 1
    /\ icache' = [i \in Ino |-> NotCached]
    /\ checkpoint_seq' = 0 /\ last_checkpoint' = 0
    /\ writes_since_checkpoint' = 0 /\ active_checkpoint' = 0

Init ==
    /\ now = 0 /\ up = "down" /\ wq = [t \in Threads |-> <<>>]
    /\ wlock = "none" /\ gc_running = FALSE
    /\ disk = MkfsImage /\ durable = MkfsImage
    /\ segbuf = EmptySegbuf(0)
    /\ segtable = [s \in Seg |-> [state |-> "FREE", live |-> 0, ts |-> 0]]
    /\ free_count = 0 /\ log_head = 0
    /\ imap = [i \in Ino |-> 0] /\ next_ino = RootIno + 1
    /\ icache = [i \in Ino |-> NotCached]
    /\ checkpoint_seq = 0 /\ last_checkpoint = 0
    /\ writes_since_checkpoint = 0 /\ active_checkpoint = 0
    /\ stamp = 1 /\ epoch = 0 /\ crashes = 0 /\ mounts = 0
    /\ promised = [i \in Ino |-> 0]
    /\ recovered = [from |-> 0, newest |-> 0]

-----------------------------------------------------------------------------
(* The engine state that a flush or an append changes, as one record, so   *)
(* that a step which flushes and then appends is the composition of both.  *)
Eng == [sb |-> segbuf, tab |-> segtable, fc |-> free_count, head |-> log_head,
        dk |-> disk, w |-> writes_since_checkpoint]

SetEng(e) ==
    /\ segbuf' = e.sb /\ segtable' = e.tab /\ free_count' = e.fc
    /\ log_head' = e.head /\ disk' = e.dk /\ writes_since_checkpoint' = e.w

LowestOf(S) == CHOOSE x \in S : \A y \in S : x <= y
HighestOf(S) == CHOOSE x \in S : \A y \in S : y <= x

\* lsfs_segment_alloc: the lowest FREE segment, unless free_count says none
Alloc(e) ==
    LET F == {x \in Seg : e.tab[x].state = "FREE"}
    IN IF e.fc = 0 \/ F = {}
       THEN [ok |-> FALSE, id |-> 0, e |-> e]
       ELSE [ok |-> TRUE, id |-> LowestOf(F),
             e |-> [e EXCEPT !.tab[LowestOf(F)] = [state |-> "ACTIVE", live |-> 0, ts |-> now],
                             !.fc = @ - 1]]

\* (mutation variant: the live count decremented without the > 0 test)
MarkDeadUnsaturated(e, b) ==
    IF b = 0 THEN e ELSE [e EXCEPT !.tab[BlockSeg(b)].live = @ - 1]

\* lsfs_gc_mark_block_dead (callers skip a zero address)
MarkDead(e, b) ==
    IF b = 0 THEN e
    ELSE [e EXCEPT !.tab[BlockSeg(b)].live = IF @ > 0 THEN @ - 1 ELSE 0]

(* lsfs_segment_flush with block_count > 1: summary and blocks written at  *)
(* the buffer's segment, which becomes FULL; log_head moves past it; a     *)
(* new segment is allocated or, when none is free, the buffer keeps the    *)
(* same segment id; the buffer is reset.                                   *)
Flush(e) ==
    LET id == e.sb.id
        n == e.sb.count
        sum == [magic |-> TRUE, ts |-> now, count |-> n,
                desc |-> IF n - 1 <= SummaryCap THEN e.sb.info
                         ELSE [j \in Slots |-> NoDesc]]
        e1 == [e EXCEPT !.dk.sum[id] = sum,
                        !.dk.blk[id] = [j \in Slots |-> IF j < n THEN e.sb.blk[j] ELSE @[j]],
                        !.tab[id] = [state |-> "FULL", live |-> n - 1, ts |-> now],
                        !.head = SegToBlock(id, n)]
        a == Alloc(e1)
    IN [a.e EXCEPT !.sb = EmptySegbuf(IF a.ok THEN a.id ELSE id)]

\* lsfs_checkpoint_needed
CkptNeeded(w) == w >= CkptInterval \/ now - last_checkpoint >= CkptPeriod

(* the lsfs_checkpoint_write lsfs_segment_flush calls after the reset,    *)
(* when needed, with both locks dropped: it tests block_count > 1 again,   *)
(* so a block the cleaner appended in between is flushed first            *)
FlushCkpt(e) == IF CkptNeeded(e.w) THEN <<[op |-> "ckpt"]>> ELSE <<>>

\* (mutation variant: the address computed after block_count++)
AppendAddrAfterIncrement(e) == SegToBlock(e.sb.id, e.sb.count + 1)

\* lsfs_segment_append_block once there is room: slot block_count
AppendAddr(e) == SegToBlock(e.sb.id, e.sb.count)
AppendBlock(e, c, d) ==
    [e EXCEPT !.sb.blk[e.sb.count] = c, !.sb.info[e.sb.count] = d,
              !.sb.count = @ + 1, !.w = @ + 1]

(* lsfs_read_block of a log block: what the disk (page cache) holds; the   *)
(* segment buffer is not consulted.                                        *)
DiskBlock(a) == IF BlockOff(a) \in Slots THEN disk.blk[BlockSeg(a)][BlockOff(a)] ELSE Zero
(* The newest contents written to an address: the segment buffer when the  *)
(* address is one of its filled slots, the disk otherwise.                 *)
LogBlock(a) ==
    IF BlockSeg(a) = segbuf.id /\ BlockOff(a) \in 1 .. segbuf.count - 1
    THEN segbuf.blk[BlockOff(a)] ELSE DiskBlock(a)

(* lsfs_inode_get's check on a block read at the imap location: the record *)
(* is looked for at slot ino % 16, lsfs_inode_write puts it at offset 0;   *)
(* the other slots hold bytes of the in-memory inode that follow the       *)
(* record, never a matching inode number for the small numbers modelled.   *)
Readable(c, i) == i % InodesPerBlock = 0 /\ c.kind = "inode" /\ c.ino = i

\* lsfs_inode_get: from the cache, or read through the imap
GetInodeOk(i) == icache[i].cached \/ (imap[i] # 0 /\ Readable(DiskBlock(imap[i]), i))
Loaded(i) ==
    IF icache[i].cached THEN icache[i]
    ELSE [cached |-> TRUE, loc |-> imap[i], stamp |-> DiskBlock(imap[i]).stamp,
          d0 |-> DiskBlock(imap[i]).d0, dirty |-> FALSE]

\* what an fsync or a completed checkpoint guarantees: each written inode's current version
Promise == [i \in Ino |-> IF icache[i].cached /\ icache[i].loc # 0
                         THEN icache[i].stamp ELSE promised[i]]

engVars == <<segbuf, segtable, free_count, log_head, disk, writes_since_checkpoint>>
ckptVars == <<checkpoint_seq, last_checkpoint, active_checkpoint, epoch>>
ghostVars == <<crashes, mounts, promised, recovered>>

-----------------------------------------------------------------------------
(* FUSE handlers, run by the single-threaded FUSE loop when it is idle.    *)

\* no request is in progress on the FUSE loop
FuseIdle == up = "serving" /\ wq["fuse"] = <<>>

\* the FUSE loop starts on the work items s
FuseRuns(s) == wq' = [wq EXCEPT !["fuse"] = s]

\* lsfs_op_setattr on a file that get_inode finds: the change, then lsfs_inode_write
Setattr(i) ==
    /\ FuseIdle /\ stamp < MaxStamp
    /\ GetInodeOk(i)
    /\ icache' = [icache EXCEPT ![i] = [Loaded(i) EXCEPT !.dirty = TRUE]]
    /\ FuseRuns(<<[op |-> "iwrite", ino |-> i]>>)
    /\ UNCHANGED <<now, up, thrVars, durable, engVars, imap, next_ino, ckptVars, stamp,
                   ghostVars>>

(* lsfs_dir_add to the root's block 0: a block that parses as a directory *)
(* gains the entry; one that does not (all zeros: rec_len 0 ends the scan) *)
(* is rewritten holding the new entry alone.                               *)
DirAdd(old, n) ==
    [kind |-> "dir", ino |-> RootIno, stamp |-> 0, d0 |-> 0,
     ents |-> IF old.kind = "dir" THEN old.ents \cup {n} ELSE {n}]

(* lsfs_op_create in the root directory: get the parent, allocate the next *)
(* inode number, lsfs_dir_add reads directory block 0 with                 *)
(* lsfs_inode_read_block and rewrites it with the new entry (a block that  *)
(* does not parse as a directory leaves only the new entry), then          *)
(* lsfs_inode_write of the new inode and of the parent.                    *)
Create ==
    /\ FuseIdle /\ stamp + 2 <= MaxStamp
    /\ GetInodeOk(RootIno)
    /\ next_ino \in Ino
    /\ LET n == next_ino
           root == Loaded(RootIno)
           old == DiskBlock(root.d0)
           blk == DirAdd(old, n)
       IN /\ next_ino' = next_ino + 1
          /\ icache' = [icache EXCEPT ![RootIno] = root,
                           ![n] = [cached |-> TRUE, loc |-> 0, stamp |-> 0, d0 |-> 0,
                                   dirty |-> TRUE]]
          /\ FuseRuns(<<[op |-> "dwrite", ino |-> RootIno, c |-> blk],
                        [op |-> "iwrite", ino |-> n], [op |-> "iwrite", ino |-> RootIno]>>)
    /\ UNCHANGED <<now, up, thrVars, durable, engVars, imap, ckptVars, stamp, ghostVars>>

\* lsfs_op_fsync: lsfs_segment_flush, then lsfs_sync
Fsync ==
    /\ FuseIdle
    /\ FuseRuns(<<[op |-> "flush"], [op |-> "sync"]>>)
    /\ UNCHANGED <<now, up, thrVars, durable, engVars, imap, next_ino, icache, ckptVars,
                   stamp, ghostVars>>

(* lsfs_cleanup_fs: lsfs_gc_destroy clears gc_running and joins the       *)
(* cleaner, then flush, final checkpoint, superblock and segment table.    *)
Unmount ==
    /\ FuseIdle
    /\ gc_running' = FALSE
    /\ FuseRuns(<<[op |-> "gcjoin"], [op |-> "flush"], [op |-> "ckpt"], [op |-> "umount"]>>)
    /\ UNCHANGED <<now, up, wlock, durable, engVars, imap, next_ino, icache, ckptVars,
                   stamp, ghostVars>>

-----------------------------------------------------------------------------
(* Work items, run by the thread t whose queue holds them.                 *)
Item(t, op) == wq[t] # <<>> /\ Head(wq[t]).op = op
It(t) == Head(wq[t])
\* thread t replaces the item it has run by the items s
Continue(t, s) == wq' = [wq EXCEPT ![t] = s \o Tail(@)]

\* the append of an inode record, lsfs_imap_set and the cache update
InodeAppend(e, i) ==
    LET a == AppendAddr(e)
        c == [kind |-> "inode", ino |-> i, stamp |-> stamp + 1, d0 |-> icache[i].d0,
              ents |-> {}]
    IN /\ SetEng(AppendBlock(e, c, [ino |-> i, type |-> "inode"]))
       /\ imap' = [imap EXCEPT ![i] = a]
       /\ icache' = [icache EXCEPT ![i].loc = a, ![i].stamp = stamp + 1, ![i].dirty = FALSE]
       /\ stamp' = stamp + 1

(* lsfs_inode_write of a dirty inode: the old location is marked dead;     *)
(* with room in the buffer the record is appended at once, otherwise the   *)
(* buffer is flushed (under write_lock, with the checkpoint the flush may  *)
(* start) and the append is left for a later step: append_block does not   *)
(* look at block_count again after its flush.                              *)
IWriteAppend(t) ==
    /\ Item(t, "iwrite") /\ icache[It(t).ino].dirty
    /\ segbuf.count < SegBlocks
    /\ InodeAppend(MarkDead(Eng, icache[It(t).ino].loc), It(t).ino)
    /\ Continue(t, <<>>)
    /\ UNCHANGED <<now, up, thrVars, durable, next_ino, ckptVars, ghostVars>>

IWriteFlush(t) ==
    /\ Item(t, "iwrite") /\ icache[It(t).ino].dirty
    /\ segbuf.count >= SegBlocks /\ wlock = "none"
    /\ LET e == Flush(MarkDead(Eng, icache[It(t).ino].loc))
       IN /\ SetEng(e)
          /\ Continue(t, FlushCkpt(e) \o <<[op |-> "iappend", ino |-> It(t).ino]>>)
    /\ UNCHANGED <<now, up, thrVars, durable, imap, next_ino, icache, ckptVars, stamp,
                   ghostVars>>

(* The append after a flush. Were another thread to fill the buffer in     *)
(* between, the code would write past its end; the model takes no step     *)
(* there, and AppendInBounds says whether such a state is reachable.       *)
IAppend(t) ==
    /\ Item(t, "iappend") /\ segbuf.count < SegBlocks
    /\ InodeAppend(Eng, It(t).ino)
    /\ Continue(t, <<>>)
    /\ UNCHANGED <<now, up, thrVars, durable, next_ino, ckptVars, ghostVars>>

\* the append of a directory block as block 0 of inode i (type DATA)
DataAppend(e, i, c) ==
    /\ SetEng(AppendBlock(e, c, [ino |-> i, type |-> "data"]))
    /\ icache' = [icache EXCEPT ![i].d0 = AppendAddr(e), ![i].dirty = TRUE]

(* lsfs_inode_write_block for block 0: direct[0] is marked dead, the block *)
(* appended (after a flush when the buffer is full), direct[0] updated.    *)
DWriteAppend(t) ==
    /\ Item(t, "dwrite")
    /\ segbuf.count < SegBlocks
    /\ DataAppend(MarkDead(Eng, icache[It(t).ino].d0), It(t).ino, It(t).c)
    /\ Continue(t, <<>>)
    /\ UNCHANGED <<now, up, thrVars, durable, imap, next_ino, ckptVars, stamp, ghostVars>>

DWriteFlush(t) ==
    /\ Item(t, "dwrite")
    /\ segbuf.count >= SegBlocks /\ wlock = "none"
    /\ LET e == Flush(MarkDead(Eng, icache[It(t).ino].d0))
       IN /\ SetEng(e)
          /\ Continue(t, FlushCkpt(e) \o <<[It(t) EXCEPT !.op = "dappend"]>>)
    /\ UNCHANGED <<now, up, thrVars, durable, imap, next_ino, icache, ckptVars, stamp,
                   ghostVars>>

DAppend(t) ==
    /\ Item(t, "dappend") /\ segbuf.count < SegBlocks
    /\ DataAppend(Eng, It(t).ino, It(t).c)
    /\ Continue(t, <<>>)
    /\ UNCHANGED <<now, up, thrVars, durable, imap, next_ino, ckptVars, stamp, ghostVars>>

\* lsfs_segment_flush takes write_lock; with only the summary slot in use it does nothing
FlushEmpty(t) ==
    /\ Item(t, "flush") /\ wlock = "none" /\ segbuf.count <= 1
    /\ Continue(t, <<>>)
    /\ UNCHANGED <<now, up, thrVars, durable, engVars, imap, next_ino, icache, ckptVars,
                   stamp, ghostVars>>

FlushItem(t) ==
    /\ Item(t, "flush") /\ wlock = "none" /\ segbuf.count > 1
    /\ SetEng(Flush(Eng))
    /\ Continue(t, FlushCkpt(Flush(Eng)))
    /\ UNCHANGED <<now, up, thrVars, durable, imap, next_ino, icache, ckptVars, stamp,
                   ghostVars>>

\* lsfs_sync after the flush of lsfs_op_fsync
Sync(t) ==
    /\ Item(t, "sync")
    /\ durable' = disk
    /\ promised' = Promise
    /\ Continue(t, <<>>)
    /\ UNCHANGED <<now, up, thrVars, engVars, imap, next_ino, icache, ckptVars, stamp,
                   crashes, mounts, recovered>>

(* lsfs_checkpoint_write, entered with data in the buffer: write_lock is   *)
(* released and the buffer flushed first (that flush may itself run a      *)
(* whole checkpoint_write). The FUSE thread alone always enters with an    *)
(* empty buffer (unmount flushes first, a flush resets before it           *)
(* checkpoints, a mount starts empty): only appends of another thread     *)
(* between its flush and its checkpoint make this step happen, so Next of  *)
(* this module leaves it out and LfsCleaner adds it.                       *)
CkptFlush(t) ==
    /\ Item(t, "ckpt") /\ wlock = "none" /\ segbuf.count > 1
    /\ SetEng(Flush(Eng))
    /\ Continue(t, FlushCkpt(Flush(Eng)) \o <<[op |-> "cpwrite"]>>)
    /\ UNCHANGED <<now, up, thrVars, durable, imap, next_ino, icache, ckptVars, stamp,
                   ghostVars>>

(* Fault-injection variants used by the mutation runs (each stands for a  *)
(* plausible slip in the line it replaces).                                *)
CpRegionSame == active_checkpoint
CkptHeaderNoIncrement ==
    [magic |-> TRUE, complete |-> FALSE, seq |-> checkpoint_seq, ts |-> now,
     log_head |-> log_head, epoch |-> epoch + 1]

\* cp_region = sb.active_checkpoint ^ 1
CpRegion == 1 - active_checkpoint
\* the header of the next checkpoint, complete = 0
CkptHeader ==
    [magic |-> TRUE, complete |-> FALSE, seq |-> checkpoint_seq + 1, ts |-> now,
     log_head |-> log_head, epoch |-> epoch + 1]
(* write_lock is taken; the write phase runs at once when the buffer holds *)
(* nothing to flush                                                        *)
CkptWriteEnabled(t) ==
    /\ wlock = "none"
    /\ Item(t, "cpwrite") \/ (Item(t, "ckpt") /\ segbuf.count <= 1)

(* lsfs_checkpoint_write, the write phase, under write_lock: the header    *)
(* with complete = 0, the inode map after it, the segment table in its     *)
(* single region; then the first lsfs_sync.                                *)
CpWrite(t) ==
    /\ CkptWriteEnabled(t)
    /\ wlock' = t
    /\ disk' = [disk EXCEPT !.hdr[CpRegion] = CkptHeader,
                            !.cpimap[CpRegion] = [map |-> imap, epoch |-> epoch + 1],
                            !.segtab = segtable]
    /\ Continue(t, <<[op |-> "cpsync", r |-> CpRegion, h |-> CkptHeader]>>)
    /\ checkpoint_seq' = CkptHeader.seq
    /\ epoch' = epoch + 1
    /\ UNCHANGED <<now, up, gc_running, durable, segbuf, segtable, free_count, log_head,
                   writes_since_checkpoint, imap, next_ino, icache, last_checkpoint,
                   active_checkpoint, stamp, ghostVars>>

CpSyncSkipped(t) ==
    /\ Item(t, "cpsync")
    /\ Continue(t, <<[It(t) EXCEPT !.op = "cpcommit"]>>)
    /\ UNCHANGED <<now, up, thrVars, durable, engVars, imap, next_ino, icache, ckptVars,
                   stamp, ghostVars>>

CpSync(t) ==
    /\ Item(t, "cpsync")
    /\ durable' = disk
    /\ Continue(t, <<[It(t) EXCEPT !.op = "cpcommit"]>>)
    /\ UNCHANGED <<now, up, thrVars, engVars, imap, next_ino, icache, ckptVars, stamp,
                   ghostVars>>

\* the header rewritten with complete = 1; sb.active_checkpoint = region
CpCommit(t) ==
    /\ Item(t, "cpcommit")
    /\ disk' = [disk EXCEPT !.hdr[It(t).r].complete = TRUE]
    /\ active_checkpoint' = It(t).r
    /\ Continue(t, <<[It(t) EXCEPT !.op = "cpdone"]>>)
    /\ UNCHANGED <<now, up, thrVars, durable, segbuf, segtable, free_count, log_head,
                   writes_since_checkpoint, imap, next_ino, icache, checkpoint_seq,
                   last_checkpoint, epoch, stamp, ghostVars>>

\* a mutant: an exit of lsfs_checkpoint_write that does not unlock write_lock
CpDoneKeepLock(t) ==
    /\ Item(t, "cpdone")
    /\ durable' = disk
    /\ last_checkpoint' = It(t).h.ts
    /\ writes_since_checkpoint' = 0
    /\ promised' = Promise
    /\ Continue(t, <<>>)
    /\ UNCHANGED <<now, up, gc_running, wlock, disk, segbuf, segtable, free_count, log_head, imap,
                   next_ino, icache, checkpoint_seq, active_checkpoint, epoch, stamp,
                   crashes, mounts, recovered>>

(* the final lsfs_sync; last_checkpoint and writes_since_checkpoint reset; *)
(* write_lock released                                                     *)
CpDone(t) ==
    /\ Item(t, "cpdone")
    /\ durable' = disk
    /\ last_checkpoint' = It(t).h.ts
    /\ writes_since_checkpoint' = 0
    /\ promised' = Promise
    /\ wlock' = "none"
    /\ Continue(t, <<>>)
    /\ UNCHANGED <<now, up, gc_running, disk, segbuf, segtable, free_count, log_head, imap,
                   next_ino, icache, checkpoint_seq, active_checkpoint, epoch, stamp,
                   crashes, mounts, recovered>>

\* lsfs_gc_destroy's pthread_join: the cleaner finishes the run it is in
GcJoin(t) ==
    /\ Item(t, "gcjoin") /\ wq["gc"] = <<>>
    /\ Continue(t, <<>>)
    /\ UNCHANGED <<now, up, thrVars, durable, engVars, imap, next_ino, icache, ckptVars,
                   stamp, ghostVars>>

(* lsfs_cleanup_fs after the checkpoint: clean superblock and lsfs_sync,   *)
(* then lsfs_segment_destroy saves the segment table (the buffer is empty  *)
(* after the checkpoint's flush) and lsfs_io_destroy fsyncs.               *)
UmountSync(t) ==
    /\ Item(t, "umount")
    /\ durable' = disk
    /\ disk' = [disk EXCEPT !.segtab = segtable]
    /\ Continue(t, <<[op |-> "close"]>>)
    /\ UNCHANGED <<now, up, thrVars, segbuf, segtable, free_count, log_head,
                   writes_since_checkpoint, imap, next_ino, icache, ckptVars, stamp,
                   ghostVars>>

Close(t) ==
    /\ Item(t, "close")
    /\ durable' = disk
    /\ up' = "down" /\ Continue(t, <<>>)
    /\ DownMemory
    /\ UNCHANGED <<now, thrVars, disk, epoch, stamp, ghostVars>>

-----------------------------------------------------------------------------
(* Mount: lsfs_init_fs.                                                    *)

\* lsfs_checkpoint_load: a region is valid when its magic is right and complete = 1
ValidRegions(img) == {r \in Regions : img.hdr[r].magic /\ img.hdr[r].complete}
Best(img) ==
    IF ValidRegions(img) = Regions
    THEN IF img.hdr[0].seq > img.hdr[1].seq THEN 0 ELSE 1
    ELSE CHOOSE r \in ValidRegions(img) : TRUE

\* lsfs_imap_load: next_ino is one past the highest loaded inode number
LoadNextIno(m) == HighestOf({i \in Ino : m[i] # 0} \cup {RootIno}) + 1

(* lsfs_checkpoint_recover's roll-forward, from the segment of log_head    *)
(* while a summary has the magic and a timestamp not before the           *)
(* checkpoint's: inode descriptors set the imap, log_head moves past the   *)
(* segment, which is marked FULL, and free_count drops if positive.        *)
RECURSIVE Replay(_, _, _)
Replay(seg, r, last) ==
    IF seg >= NSeg THEN r
    ELSE LET h == disk.sum[seg]
             k == IF h.count - 1 > SummaryCap THEN SummaryCap ELSE h.count - 1
             J(i) == {j \in 1 .. k : h.desc[j].type = "inode" /\ h.desc[j].ino = i}
         IN IF ~h.magic \/ h.ts < last THEN r
            ELSE Replay(seg + 1,
                   [imap |-> [i \in Ino |-> IF J(i) = {} THEN r.imap[i]
                                            ELSE SegToBlock(seg, HighestOf(J(i)))],
                    tab |-> [r.tab EXCEPT ![seg] = [state |-> "FULL", live |-> h.count - 1,
                                                    ts |-> h.ts]],
                    fc |-> IF r.fc > 0 THEN r.fc - 1 ELSE 0,
                    head |-> SegToBlock(seg, h.count)], last)

(* lsfs_segment_init: the segment table read from its region, its FREE     *)
(* entries counted, the first write segment allocated (a failure is        *)
(* ignored and leaves the buffer at segment 0).                            *)
SegmentInit(img) ==
    Alloc([sb |-> EmptySegbuf(0), tab |-> img.segtab, dk |-> img, head |-> 0, w |-> 0,
           fc |-> Cardinality({x \in Seg : img.segtab[x].state = "FREE"})])

(* lsfs_segment_init (segment table read from its region, FREE entries     *)
(* counted, the first write segment allocated), lsfs_checkpoint_init, and  *)
(* lsfs_checkpoint_recover (load, roll forward, then a checkpoint). With   *)
(* no valid checkpoint the load fails and the mount is refused: no step.   *)
Mount ==
    /\ up = "down" /\ mounts < MaxMounts
    /\ ValidRegions(disk) # {}
    /\ LET a == SegmentInit(disk)
           b == Best(disk)
           h == disk.hdr[b]
           rep == Replay(BlockSeg(h.log_head),
                         [imap |-> disk.cpimap[b].map, tab |-> a.e.tab, fc |-> a.e.fc,
                          head |-> h.log_head], h.ts)
       IN /\ segbuf' = EmptySegbuf(a.id)
          /\ segtable' = rep.tab /\ free_count' = rep.fc /\ log_head' = rep.head
          /\ imap' = rep.imap /\ next_ino' = LoadNextIno(disk.cpimap[b].map)
          /\ checkpoint_seq' = h.seq /\ last_checkpoint' = h.ts
          /\ active_checkpoint' = b
          /\ recovered' = [from |-> h.epoch,
                           newest |-> HighestOf({disk.hdr[r].epoch : r \in ValidRegions(disk)})]
    /\ icache' = [i \in Ino |-> NotCached]
    /\ writes_since_checkpoint' = 0
    /\ up' = "mounting" /\ mounts' = mounts + 1
    /\ FuseRuns(<<[op |-> "cpwrite"], [op |-> "mounted"]>>)
    /\ UNCHANGED <<now, thrVars, disk, durable, epoch, stamp, crashes, promised>>

(* the mount completes: lsfs_gc_init starts the cleaner (gc_running set),  *)
(* the superblock is marked dirty, the FUSE loop starts                    *)
Mounted(t) ==
    /\ Item(t, "mounted")
    /\ up' = "serving" /\ gc_running' = TRUE /\ Continue(t, <<>>)
    /\ UNCHANGED <<now, wlock, disk, durable, memVars, stamp, epoch, ghostVars>>

-----------------------------------------------------------------------------
(* Power loss. Of the blocks written since the last fsync, any subset      *)
(* reaches the disk; a unit is a segment's summary, a segment's payload,   *)
(* a checkpoint header, a checkpoint's inode map or the segment table.     *)
Units == {<<"sum", x>> : x \in Seg} \cup {<<"blk", x>> : x \in Seg}
         \cup {<<"hdr", r>> : r \in Regions} \cup {<<"cpimap", r>> : r \in Regions}
         \cup {<<"segtab", 0>>}
UnitOf(img, u) ==
    CASE u[1] = "sum" -> img.sum[u[2]]
      [] u[1] = "blk" -> img.blk[u[2]]
      [] u[1] = "hdr" -> img.hdr[u[2]]
      [] u[1] = "cpimap" -> img.cpimap[u[2]]
      [] OTHER -> img.segtab
Pending == {u \in Units : UnitOf(disk, u) # UnitOf(durable, u)}
Persist(T) ==
    LET P(u, x, y) == IF u \in T THEN x ELSE y
    IN [sum |-> [x \in Seg |-> P(<<"sum", x>>, disk.sum[x], durable.sum[x])],
        blk |-> [x \in Seg |-> P(<<"blk", x>>, disk.blk[x], durable.blk[x])],
        hdr |-> [r \in Regions |-> P(<<"hdr", r>>, disk.hdr[r], durable.hdr[r])],
        cpimap |-> [r \in Regions |-> P(<<"cpimap", r>>, disk.cpimap[r], durable.cpimap[r])],
        segtab |-> P(<<"segtab", 0>>, disk.segtab, durable.segtab)]

Crash ==
    /\ up \in {"mounting", "serving"} /\ crashes < MaxCrashes
    /\ \E T \in SUBSET Pending : disk' = Persist(T) /\ durable' = Persist(T)
    /\ up' = "down" /\ wq' = [t \in Threads |-> <<>>] /\ crashes' = crashes + 1
    /\ wlock' = "none" /\ gc_running' = FALSE
    /\ DownMemory
    /\ UNCHANGED <<now, stamp, epoch, mounts, promised, recovered>>

Tick ==
    /\ now < MaxTime /\ now' = now + 1
    /\ UNCHANGED <<up, wq, thrVars, disk, durable, memVars, stamp, epoch, ghostVars>>

\* the daemon has exited for good: no mounts left in the model
Done ==
    /\ up = "down" /\ mounts = MaxMounts
    /\ UNCHANGED vars

\* a step of thread t on the work items both threads share
ThreadStep(t) ==
    \/ IWriteAppend(t) \/ IWriteFlush(t) \/ IAppend(t)
    \/ DWriteAppend(t) \/ DWriteFlush(t) \/ DAppend(t)
    \/ FlushEmpty(t) \/ FlushItem(t) \/ Sync(t)
    \/ CpWrite(t) \/ CpSync(t) \/ CpCommit(t) \/ CpDone(t)
    \/ GcJoin(t) \/ UmountSync(t) \/ Close(t) \/ Mounted(t)

\* FUSE requests, the environment (mount, power loss, the clock) and the FUSE thread
Env ==
    \/ \E i \in Ino : Setattr(i)
    \/ Create \/ Fsync \/ Unmount
    \/ Mount \/ Crash \/ Tick \/ Done

Next == Env \/ ThreadStep("fuse")

Spec == Init /\ [][Next]_vars

-----------------------------------------------------------------------------
(* Properties.                                                             *)

TypeOK ==
    /\ up \in {"down", "mounting", "serving"}
    /\ disk \in Image /\ durable \in Image
    /\ segbuf \in [id : Seg, count : 1 .. SegBlocks, blk : [Slots -> Content],
                   info : [Slots -> Desc]]
    /\ segtable \in [Seg -> Usage] /\ free_count \in 0 .. NSeg
    /\ imap \in ImapFn /\ next_ino \in RootIno + 1 .. 65536
    /\ icache \in [Ino -> CachedInode]
    /\ active_checkpoint \in Regions
    /\ wlock \in {"none"} \cup Threads /\ gc_running \in BOOLEAN
    /\ stamp \in 1 .. MaxStamp /\ promised \in [Ino -> 0 .. MaxStamp]

DurableBlock(a) ==
    IF BlockOff(a) \in Slots THEN durable.blk[BlockSeg(a)][BlockOff(a)] ELSE Zero

(* The checkpoint lsfs_checkpoint_load would pick after a power loss      *)
(* carries the inode map written with its header: checkpoint_write syncs  *)
(* the map before complete = 1, and overwrites only the other region (an   *)
(* older header there may be left beside a newer map, but is never picked). *)
CheckpointIntact ==
    ValidRegions(durable) # {} =>
        durable.cpimap[Best(durable)].epoch = durable.hdr[Best(durable)].epoch

(* Whatever a power loss leaves, the disk holds a complete checkpoint, so  *)
(* lsfs_checkpoint_load can mount it (regions alternate with active ^ 1).  *)
AlwaysRecoverable == ValidRegions(durable) # {}

(* lsfs_checkpoint_load picks, of the valid checkpoints, the one written   *)
(* last: sequence numbers restored at mount keep growing across mounts.    *)
RecoveryLoadsNewest == recovered.from = recovered.newest

(* Every inode map entry of the checkpoint a power loss would leave for    *)
(* lsfs_checkpoint_load names a durable block holding that inode's record: *)
(* the checkpoint flushes the segment buffer and syncs before it commits,  *)
(* and no later flush writes over a segment the map refers to.             *)
CheckpointReferencesLog ==
    ValidRegions(durable) # {} =>
        \A i \in Ino :
            LET a == durable.cpimap[Best(durable)].map[i]
            IN a # 0 => DurableBlock(a).kind = "inode" /\ DurableBlock(a).ino = i

(* After an fsync or a checkpoint returns, a mounted file system finds     *)
(* each inode at that version or a later one, across power losses.        *)
FsyncDurable ==
    up = "serving" =>
        \A i \in Ino : promised[i] > 0 =>
            /\ imap[i] # 0
            /\ LogBlock(imap[i]).kind = "inode" /\ LogBlock(imap[i]).ino = i
            /\ LogBlock(imap[i]).stamp >= promised[i]

(* lsfs_imap_alloc_ino never hands out a number the inode map already has. *)
NextInoFresh == up = "serving" => \A i \in Ino : imap[i] # 0 => i < next_ino

=============================================================================
