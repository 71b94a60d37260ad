-------------------------------- MODULE Imap --------------------------------
(***************************************************************************)
(* The inode map of imap.c as the code keeps it: an array of entries      *)
(* sorted by inode number, searched by binary search, grown by doubling,  *)
(* with next_ino for allocation. Its actions are the calls; Namespace     *)
(* makes them from the FUSE handlers that call them (a create allocates a *)
(* number and lsfs_inode_write sets it, an unlink removes it, unmount     *)
(* saves the array and mount loads it). The entry's version is left out:  *)
(* no caller reads it. The module is shown to implement ImapAbs.          *)
(***************************************************************************)
EXTENDS Naturals, Sequences, SequencesExt

CONSTANTS MaxInodes,        \* LSFS_MAX_INODES
          InitCap,          \* IMAP_INITIAL_CAPACITY
          EntriesPerBlock,  \* LSFS_BLOCK_SIZE / sizeof(struct lsfs_imap_entry)
          CkptBlocks,       \* LSFS_CHECKPOINT0_BLOCKS: the header and the map
          Loc, RootLoc

ASSUME InitCap \in Nat \ {0} /\ EntriesPerBlock \in Nat \ {0} /\ CkptBlocks \in Nat \ {0}

RootIno == 1
InoNum == 1 .. MaxInodes - 1
Entry == [ino : InoNum, loc : Loc]

VARIABLES entries,   \* entries[1 .. count]; count is Len(entries)
          capacity,
          next_ino,
          saved,     \* the entries lsfs_imap_save last wrote
          ret        \* lsfs_imap_alloc_ino's result, held by the create in progress

vars == <<entries, capacity, next_ino, saved, ret>>

\* a mutant: the loop written while (left < right), so a last candidate is never looked at
RECURSIVE SearchOpen(_, _, _, _)
SearchOpen(e, ino, left, right) ==
    IF left >= right THEN -1
    ELSE LET mid == left + (right - left) \div 2
         IN CASE e[mid + 1].ino = ino -> mid
              [] e[mid + 1].ino < ino -> SearchOpen(e, ino, mid + 1, right)
              [] OTHER                -> SearchOpen(e, ino, left, mid - 1)

(* imap_find's loop over the 0-based interval [left, right]: the index of *)
(* ino, or -1                                                             *)
RECURSIVE Search(_, _, _, _)
Search(e, ino, left, right) ==
    IF left > right THEN -1
    ELSE LET mid == left + (right - left) \div 2
         IN CASE e[mid + 1].ino = ino -> mid
              [] e[mid + 1].ino < ino -> Search(e, ino, mid + 1, right)
              [] OTHER                -> Search(e, ino, left, mid - 1)

ImapFind(e, ino) == IF Len(e) = 0 THEN -1 ELSE Search(e, ino, 0, Len(e) - 1)

\* imap_find_insert_pos's loop over [left, right): the first index whose ino is not below
RECURSIVE InsertSearch(_, _, _, _)
InsertSearch(e, ino, left, right) ==
    IF left >= right THEN left
    ELSE LET mid == left + (right - left) \div 2
         IN IF e[mid + 1].ino < ino THEN InsertSearch(e, ino, mid + 1, right)
            ELSE InsertSearch(e, ino, left, mid)

ImapFindInsertPos(e, ino) == IF Len(e) = 0 THEN 0 ELSE InsertSearch(e, ino, 0, Len(e))

\* imap_grow's new capacity: doubled, at most LSFS_MAX_INODES
GrowCap(c) == IF c * 2 > MaxInodes THEN MaxInodes ELSE c * 2

\* imap_grow fails with LSFS_ERR_NOSPC when the capped capacity is no larger
GrowOk == GrowCap(capacity) > capacity

\* lsfs_imap_alloc_ino's scan once next_ino has reached LSFS_MAX_INODES
RECURSIVE ScanFree(_)
ScanFree(i) ==
    IF i >= MaxInodes THEN 0
    ELSE IF ImapFind(entries, i) < 0 THEN i ELSE ScanFree(i + 1)

\* a mutant: the load loop's test written with > for >=
LoadNextInoStrict(e) ==
    FoldLeft(LAMBDA n, x : IF x.ino > n THEN x.ino + 1 ELSE n, RootIno + 1, e)

(* lsfs_imap_load's loop: one above the highest inode number, at least    *)
(* one above the root                                                     *)
LoadNextIno(e) ==
    FoldLeft(LAMBDA n, x : IF x.ino >= n THEN x.ino + 1 ELSE n, RootIno + 1, e)

\* LSFS_DIV_ROUND_UP(count, entries_per_block)
BlocksNeeded(n) == (n + EntriesPerBlock - 1) \div EntriesPerBlock

-----------------------------------------------------------------------------
\* format_filesystem's map, loaded by the first mount
Init ==
    /\ entries = <<[ino |-> RootIno, loc |-> RootLoc]>>
    /\ capacity = InitCap
    /\ next_ino = RootIno + 1
    /\ saved = entries
    /\ ret = 0

\* lsfs_imap_set of an inode number with an entry: its location is replaced
SetUpdate(i, l) ==
    /\ ImapFind(entries, i) >= 0
    /\ entries' = [entries EXCEPT ![ImapFind(entries, i) + 1].loc = l]
    /\ UNCHANGED <<capacity, next_ino, saved, ret>>

(* lsfs_imap_set of a new inode number: the array grows when full (the    *)
(* NOSPC return of imap_grow leaves everything as it was), then the tail  *)
(* from the insertion point moves up one place                            *)
SetInsert(i, l) ==
    /\ ImapFind(entries, i) < 0
    /\ Len(entries) < capacity \/ GrowOk
    /\ capacity' = IF Len(entries) >= capacity THEN GrowCap(capacity) ELSE capacity
    /\ entries' = InsertAt(entries, ImapFindInsertPos(entries, i) + 1, [ino |-> i, loc |-> l])
    /\ UNCHANGED <<next_ino, saved, ret>>

\* lsfs_imap_remove: the tail after the entry moves down one place (NOENT changes nothing)
ImapRemove(i) ==
    /\ ImapFind(entries, i) >= 0
    /\ entries' = RemoveAt(entries, ImapFind(entries, i) + 1)
    /\ UNCHANGED <<capacity, next_ino, saved, ret>>

\* lsfs_imap_alloc_ino below LSFS_MAX_INODES: next_ino++
AllocNext ==
    /\ next_ino < MaxInodes
    /\ ret' = next_ino
    /\ next_ino' = next_ino + 1
    /\ UNCHANGED <<entries, capacity, saved>>

\* lsfs_imap_alloc_ino at LSFS_MAX_INODES: the first number without an entry, or 0
AllocScan ==
    /\ next_ino >= MaxInodes
    /\ ret' = ScanFree(RootIno + 1)
    /\ UNCHANGED <<entries, capacity, next_ino, saved>>

(* lsfs_imap_save of the entries. A map needing more blocks than the     *)
(* region has after its header returns LSFS_ERR_NOSPC and writes nothing; *)
(* the guard states the bounds' promise that this path is not taken      *)
(* (MaxInodes - 1 numbers fit in CkptBlocks - 1 blocks).                  *)
Save ==
    /\ BlocksNeeded(Len(entries)) <= CkptBlocks - 1
    /\ saved' = entries
    /\ UNCHANGED <<entries, capacity, next_ino, ret>>

(* a mount: lsfs_imap_init, then lsfs_imap_load of the saved entries,     *)
(* which enlarges the array to the entry count when that is larger and    *)
(* recomputes next_ino                                                    *)
Mount ==
    /\ entries' = saved
    /\ capacity' = IF Len(saved) > InitCap THEN Len(saved) ELSE InitCap
    /\ next_ino' = LoadNextIno(saved)
    /\ ret' = 0
    /\ UNCHANGED saved

-----------------------------------------------------------------------------
(* Properties.                                                             *)

\* the index of ino by a linear look at every entry, or -1: the reference imap_find is checked against
IndexOf(e, ino) ==
    IF \E k \in 1 .. Len(e) : e[k].ino = ino
    THEN (CHOOSE k \in 1 .. Len(e) : e[k].ino = ino) - 1
    ELSE -1

\* the function an array of entries stands for
MapOf(e) == [i \in InoNum |-> IF IndexOf(e, i) >= 0 THEN e[IndexOf(e, i) + 1].loc ELSE 0]

TypeOK ==
    /\ entries \in Seq(Entry) /\ saved \in Seq(Entry)
    /\ capacity \in 1 .. MaxInodes
    /\ next_ino \in RootIno + 1 .. MaxInodes
    /\ ret \in {0} \cup InoNum

(* imap_find's binary search finds every inode number that has an entry,  *)
(* at its index, and no other, in every array the operations build.       *)
FindCorrect == \A i \in 0 .. MaxInodes : ImapFind(entries, i) = IndexOf(entries, i)

Abs == INSTANCE ImapAbs WITH map <- MapOf(entries), saved <- MapOf(saved), alloc <- ret

(* The array implements the abstract map: every lsfs_imap_set, remove,    *)
(* save and load changes the function it stands for as ImapAbs says, and  *)
(* lsfs_imap_alloc_ino, by next_ino or by its scan, only hands out a      *)
(* number with no entry (0 only when none is left), also after a mount    *)
(* recomputed next_ino.                                                   *)
ImapRefines == Abs!ASpec

=============================================================================
