------------------------------ MODULE ImapAbs ------------------------------
(***************************************************************************)
(* What the inode map of imap.c promises its callers, with the array it   *)
(* is kept in left out: a partial function from inode numbers to block    *)
(* addresses (0 where an inode number has no entry), the copy of it the   *)
(* last checkpoint saved, and the inode number lsfs_imap_alloc_ino last    *)
(* handed out. LfsLog models the map at this level.                       *)
(***************************************************************************)
EXTENDS Naturals

CONSTANTS MaxInodes,  \* LSFS_MAX_INODES: inode numbers are below it
          Loc,        \* the block addresses an entry may hold (not 0)
          RootLoc     \* where mkfs wrote the root inode

RootIno == 1          \* LSFS_ROOT_INO

InoNum == 1 .. MaxInodes - 1

VARIABLES map,    \* map[i] is the address of inode i, 0 if it has no entry
          saved,  \* the map as the newest checkpoint holds it
          alloc   \* the inode number the create in progress holds, 0 if none

vars == <<map, saved, alloc>>

\* the inode numbers an allocation may return: above the root, without an entry
FreeIno == {i \in RootIno + 1 .. MaxInodes - 1 : map[i] = 0}

MkfsMap == [i \in InoNum |-> IF i = RootIno THEN RootLoc ELSE 0]

AInit == map = MkfsMap /\ saved = MkfsMap /\ alloc = 0

\* the address of inode i becomes l
ASet(i, l) == map' = [map EXCEPT ![i] = l] /\ UNCHANGED <<saved, alloc>>

\* inode i loses its entry
ARemove(i) == map' = [map EXCEPT ![i] = 0] /\ UNCHANGED <<saved, alloc>>

\* a number no entry holds, and 0 only when every number has an entry
AAlloc ==
    /\ IF FreeIno = {} THEN alloc' = 0 ELSE alloc' \in FreeIno
    /\ UNCHANGED <<map, saved>>

\* a checkpoint saves the whole map
ASave == saved' = map /\ UNCHANGED <<map, alloc>>

\* a mount starts from the saved map, with no create in progress
AMount == map' = saved /\ alloc' = 0 /\ UNCHANGED saved

ANext ==
    \/ \E i \in InoNum, l \in Loc : ASet(i, l)
    \/ \E i \in InoNum : ARemove(i)
    \/ AAlloc \/ ASave \/ AMount

ASpec == AInit /\ [][ANext]_vars

=============================================================================
