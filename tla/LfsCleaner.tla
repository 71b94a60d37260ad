----------------------------- MODULE LfsCleaner -----------------------------
(***************************************************************************)
(* The cleaner thread of gc.c composed with the storage engine of LfsLog.  *)
(* The thread runs lsfs_gc_run when lsfs_gc_needed; its work is a queue   *)
(* of items, like a FUSE handler's, so that each step of the FUSE loop can *)
(* fall between two of its steps. Both threads share the segment buffer,   *)
(* the segment table, the inode map and the inode cache; the only lock     *)
(* that spans more than one item is write_lock, held from a checkpoint's   *)
(* write phase to its final sync (segbuf->lock, table->lock and the imap   *)
(* rwlock are held within one item only).                                  *)
(***************************************************************************)
EXTENDS LfsLog

CONSTANT MaxEpoch  \* the cleaner is woken while fewer checkpoints than this were written

ASSUME MaxEpoch \in Nat

GcLow == 10        \* GC_THRESHOLD_LOW
GcHigh == 20       \* GC_THRESHOLD_HIGH
GcUtil == 50       \* GC_UTILIZATION_THRESHOLD
GcBatch == 5       \* segments cleaned per lsfs_gc_run at most

\* the free percentage as lsfs_gc_needed and lsfs_gc_run compute it
FreePercent == (free_count * 100) \div NSeg

\* lsfs_gc_needed
GcNeeded == FreePercent < GcLow

(* segment_utility, age * (1 - u) / (1 + u) with u = live / (B - 1), as a *)
(* fraction num / den so that two utilities compare exactly               *)
UtilNum(x) == (now - segtable[x].ts) * (SegBlocks - 1 - segtable[x].live)
UtilDen(x) == SegBlocks - 1 + segtable[x].live
UtilGreater(x, y) == UtilNum(x) * UtilDen(y) > UtilNum(y) * UtilDen(x)

\* the segments lsfs_gc_select_segment considers: FULL, at most half live
Candidates ==
    {x \in Seg : segtable[x].state = "FULL"
                 /\ (segtable[x].live * 100) \div (SegBlocks - 1) <= GcUtil}

(* lsfs_gc_select_segment: a strictly greater utility replaces the best, *)
(* so of the best candidates the lowest-numbered wins; -1 is UINT32_MAX   *)
SelectSegment ==
    IF Candidates = {} THEN -1
    ELSE CHOOSE x \in Candidates :
            \A y \in Candidates : ~UtilGreater(y, x) /\ (y < x => UtilGreater(x, y))

(* the end of lsfs_gc_run: a run that cleaned a segment flushes and writes *)
(* a checkpoint                                                           *)
GcFinish(n) == IF n > 0 THEN <<[op |-> "flush"], [op |-> "ckpt"]>> ELSE <<>>

\* cleaned++ after a clean that returned OK, then the batch limit
GcNext(n) == IF n + 1 >= GcBatch THEN GcFinish(n + 1) ELSE <<[op |-> "gcloop", n |-> n + 1]>>

gcVars == <<now, up, durable, next_ino, ckptVars, stamp, ghostVars>>

-----------------------------------------------------------------------------
(* gc_thread_func: woken by the 5 s timeout or lsfs_gc_trigger, while      *)
(* gc_running, the thread starts lsfs_gc_run when lsfs_gc_needed. Each run *)
(* that cleans writes a checkpoint, and on a small disk the cleaner can    *)
(* clean for ever (the block it moves fills the next segment), so MaxEpoch *)
(* bounds the runs.                                                        *)
GcWake ==
    /\ gc_running /\ wq["gc"] = <<>> /\ GcNeeded /\ epoch < MaxEpoch
    /\ wq' = [wq EXCEPT !["gc"] = <<[op |-> "gcloop", n |-> 0]>>]
    /\ UNCHANGED <<thrVars, disk, memVars, gcVars>>

(* one turn of lsfs_gc_run's loop: stop at GC_THRESHOLD_HIGH or when no   *)
(* segment is selected, otherwise clean the selected one                  *)
GcLoop(t) ==
    /\ Item(t, "gcloop")
    /\ IF FreePercent >= GcHigh \/ SelectSegment = -1
       THEN Continue(t, GcFinish(It(t).n))
       ELSE Continue(t, <<[op |-> "gcclean", s |-> SelectSegment, n |-> It(t).n]>>)
    /\ UNCHANGED <<thrVars, disk, memVars, gcVars>>

(* lsfs_gc_clean_segment, up to its loop: a segment no longer FULL is left *)
(* alone, an empty one is freed at once, any other is marked CLEANING and *)
(* read; a summary without the magic puts it back to FULL and ends the run *)
(* (CORRUPT); otherwise one item per block the summary counts, then the    *)
(* segment is freed.                                                      *)
GcClean(t) ==
    /\ Item(t, "gcclean")
    /\ LET s == It(t).s
           n == It(t).n
           h == disk.sum[s]
           m == IF h.count > SegBlocks THEN SegBlocks ELSE h.count
           blks == [k \in 1 .. m - 1 |->
                      [op |-> "gcblk", a |-> SegToBlock(s, k), d |-> h.desc[k],
                       c |-> disk.blk[s][k]]]
       IN CASE segtable[s].state # "FULL" ->
                 Continue(t, GcNext(n)) /\ UNCHANGED <<segtable, free_count>>
            [] segtable[s].live = 0 ->
                 /\ segtable' = [segtable EXCEPT ![s].state = "FREE"]
                 /\ free_count' = free_count + 1
                 /\ Continue(t, GcNext(n))
            [] ~h.magic ->
                 Continue(t, GcFinish(n)) /\ UNCHANGED <<segtable, free_count>>
            [] OTHER ->
                 /\ segtable' = [segtable EXCEPT ![s].state = "CLEANING"]
                 /\ Continue(t, blks \o <<[op |-> "gcfree", s |-> s, n |-> n]>>)
                 /\ UNCHANGED free_count
    /\ UNCHANGED <<thrVars, disk, segbuf, log_head, imap, next_ino, icache,
                   checkpoint_seq, last_checkpoint, writes_since_checkpoint,
                   active_checkpoint, gcVars>>

(* One block of the cleaning loop. An inode block whose address is still  *)
(* the imap entry, and a data block at direct[offset] of its inode        *)
(* (lsfs_inode_get brings the inode into the cache), are moved; a block   *)
(* of any other type (a DIRENT block) and a free slot are skipped.        *)
GcBlk(t) ==
    /\ Item(t, "gcblk")
    /\ LET d == It(t).d
           a == It(t).a
           live == \/ d.type = "inode" /\ imap[d.ino] = a
                   \/ d.type = "data" /\ GetInodeOk(d.ino) /\ Loaded(d.ino).d0 = a
       IN /\ icache' = IF d.type = "data" /\ GetInodeOk(d.ino)
                       THEN [icache EXCEPT ![d.ino] = Loaded(d.ino)] ELSE icache
          /\ Continue(t, IF d.ino # 0 /\ live
                         THEN <<[It(t) EXCEPT !.op = "gcmove"]>> ELSE <<>>)
    /\ UNCHANGED <<thrVars, disk, segbuf, segtable, free_count, log_head, imap,
                   writes_since_checkpoint, gcVars>>

(* lsfs_segment_append_block of the block read from the cleaned segment,   *)
(* with its descriptor; for a data block direct[offset] is set to the new  *)
(* address and the inode marked dirty, for an inode block lsfs_imap_set    *)
(* follows as a step of its own.                                           *)
Relocate(t, e) ==
    LET d == It(t).d
        a == AppendAddr(e)
    IN /\ SetEng(AppendBlock(e, It(t).c, d))
       /\ IF d.type = "inode"
          THEN /\ Continue(t, <<[op |-> "gcset", ino |-> d.ino, a |-> a]>>)
               /\ UNCHANGED icache
          ELSE /\ icache' = [icache EXCEPT ![d.ino].d0 = a, ![d.ino].dirty = TRUE]
               /\ Continue(t, <<>>)

\* a mutant: the full test of lsfs_segment_append_block written with > for >=
GcMoveFullOffByOne(t) ==
    /\ Item(t, "gcmove") /\ segbuf.count <= SegBlocks
    /\ Relocate(t, Eng)
    /\ UNCHANGED <<thrVars, imap, gcVars>>

GcMove(t) ==
    /\ Item(t, "gcmove") /\ segbuf.count < SegBlocks
    /\ Relocate(t, Eng)
    /\ UNCHANGED <<thrVars, imap, gcVars>>

(* a full buffer is flushed first (with the checkpoint that flush may      *)
(* start), then the block is appended without block_count being looked at *)
(* again                                                                   *)
GcMoveFlush(t) ==
    /\ Item(t, "gcmove") /\ segbuf.count >= SegBlocks /\ wlock = "none"
    /\ SetEng(Flush(Eng))
    /\ Continue(t, FlushCkpt(Flush(Eng)) \o <<[It(t) EXCEPT !.op = "gcput"]>>)
    /\ UNCHANGED <<thrVars, imap, icache, gcVars>>

GcPut(t) ==
    /\ Item(t, "gcput") /\ segbuf.count < SegBlocks
    /\ Relocate(t, Eng)
    /\ UNCHANGED <<thrVars, imap, gcVars>>

\* lsfs_imap_set(ino, new_loc) after the relocation
GcSet(t) ==
    /\ Item(t, "gcset")
    /\ imap' = [imap EXCEPT ![It(t).ino] = It(t).a]
    /\ Continue(t, <<>>)
    /\ UNCHANGED <<thrVars, disk, segbuf, segtable, free_count, log_head, icache,
                   writes_since_checkpoint, gcVars>>

\* the end of lsfs_gc_clean_segment: FREE, no live blocks, free_count++
GcFree(t) ==
    /\ Item(t, "gcfree")
    /\ segtable' = [segtable EXCEPT ![It(t).s] = [@ EXCEPT !.state = "FREE", !.live = 0]]
    /\ free_count' = free_count + 1
    /\ Continue(t, GcNext(It(t).n))
    /\ UNCHANGED <<thrVars, disk, segbuf, log_head, imap, icache,
                   writes_since_checkpoint, gcVars>>

\* a step of the cleaner's own work
CleanerStep(t) ==
    \/ GcLoop(t) \/ GcClean(t) \/ GcBlk(t) \/ GcMove(t) \/ GcMoveFlush(t) \/ GcPut(t)
    \/ GcSet(t) \/ GcFree(t)

\* a step of thread t: shared work items, the checkpoint's own flush, the cleaner's
Step(t) == ThreadStep(t) \/ CkptFlush(t) \/ CleanerStep(t)

NextGc == Env \/ GcWake \/ \E t \in Threads : Step(t)

(* A thread with work keeps running until it blocks (the scheduler runs a *)
(* runnable thread), so each thread's steps are weakly fair. The cleaner's *)
(* wake-up is not assumed fair: no property here needs a run to start.     *)
SpecGc ==
    /\ Init /\ [][NextGc]_vars
    /\ \A t \in Threads : WF_vars(Step(t))

-----------------------------------------------------------------------------
(* Properties.                                                             *)

(* No append has written past the segment buffer, and no thread is about  *)
(* to append into a full one: an append after its own flush does not look *)
(* at block_count again, so another thread's appends in between would     *)
(* make it write past the buffer.                                         *)
AppendInBounds ==
    /\ segbuf.count <= SegBlocks
    /\ \A t \in Threads :
           (Item(t, "iappend") \/ Item(t, "dappend") \/ Item(t, "gcput"))
               => segbuf.count < SegBlocks

(* The blocks the file system still refers to: each mapped inode's record *)
(* and the directory block at that record's direct[0].                    *)
LiveBlocks ==
    LET M == {i \in Ino : imap[i] # 0}
    IN ({imap[i] : i \in M} \cup {LogBlock(imap[i]).d0 : i \in M}) \ {0}

(* With both threads idle, no block the file system refers to lies in a    *)
(* FREE segment: lsfs_gc_clean_segment frees a segment only after moving  *)
(* every live block out of it and updating the reference to it.           *)
NoLiveBlockFreed ==
    up = "serving" /\ (\A t \in Threads : wq[t] = <<>>) =>
        \A a \in LiveBlocks : segtable[BlockSeg(a)].state # "FREE"

(* Every work item a thread takes on is eventually finished: the flushes   *)
(* and checkpoints of both threads never wait on each other for ever, and *)
(* lsfs_gc_destroy's join returns.                                        *)
RequestsComplete == \A t \in Threads : wq[t] # <<>> ~> wq[t] = <<>>

=============================================================================
