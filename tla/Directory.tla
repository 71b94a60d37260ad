----------------------------- MODULE Directory -----------------------------
(***************************************************************************)
(* The directory layout of dir.c (unnamed/part_002) as pure operators: a   *)
(* directory is a sequence of blocks, a block the chain of entries its     *)
(* rec_len fields link from offset 0. An entry merged into its            *)
(* predecessor by lsfs_dir_remove is no longer on the chain and is left   *)
(* out. Names are a small set with their lengths given by NameLen; the    *)
(* bytes of a name are left out, two names compare equal when they are    *)
(* the same element (name_len and memcmp).                                *)
(***************************************************************************)
EXTENDS Naturals, Sequences, SequencesExt

CONSTANTS BlockSize,   \* LSFS_BLOCK_SIZE, scaled down
          NameLen      \* NameLen[n] is strlen(n), for "." and ".." too

DirentHdr == 8         \* sizeof(struct lsfs_dirent) before the name

\* dirent_size: the header and the name rounded up to 4 bytes
DirentSize(n) == ((DirentHdr + n + 3) \div 4) * 4

\* the on-disk entry; a deleted one has ino 0, an empty remainder also name ""
DirEntry(ino, rec, nm, ft) ==
    [ino |-> ino, rec |-> rec, nlen |-> NameLen[nm], name |-> nm, ft |-> ft]

EmptyEntry(rec) == [ino |-> 0, rec |-> rec, nlen |-> 0, name |-> "", ft |-> "none"]

\* a block of zeros, as lsfs_inode_read_block returns for a hole: its first rec_len is 0
ZeroBlock == <<EmptyEntry(0)>>

\* the positions <<block, index>> of every entry, in the order the loops visit them
Layout(d) == FlattenSeq([i \in 1 .. Len(d) |-> [k \in 1 .. Len(d[i]) |-> <<i, k>>]])
At(d, p) == d[p[1]][p[2]]

\* where a walk breaks: the first entry with rec_len 0 (a chain that tiles its
\* block never runs past it, so the lookup's overrun test never fires)
Stops(d) == {j \in 1 .. Len(Layout(d)) : At(d, Layout(d)[j]).rec = 0}
ZeroStop(d) == IF Stops(d) = {} THEN {} ELSE {Layout(d)[Min(Stops(d))]}

\* the entries the loops of lookup, add, remove, is_empty and iterate visit: up to the break
Walk(d) == IF Stops(d) = {} THEN Layout(d) ELSE SubSeq(Layout(d), 1, Min(Stops(d)) - 1)
Pos(d) == Range(Walk(d))

\* the entries lsfs_dir_lookup stops at: in use, with the name asked for, in walk order
MatchWalk(d, nm) == SelectSeq(Walk(d), LAMBDA p : At(d, p).ino # 0 /\ At(d, p).name = nm)
Matches(d, nm) == Range(MatchWalk(d, nm))

\* lsfs_dir_lookup: the first match, or <<>> for LSFS_ERR_NOENT
DirLookup(d, nm) == IF MatchWalk(d, nm) = <<>> THEN <<>> ELSE At(d, Head(MatchWalk(d, nm)))

\* the block with its k-th entry replaced by the entries s
Splice(b, k, s) == SubSeq(b, 1, k - 1) \o s \o SubSeq(b, k + 1, Len(b))

\* lsfs_dir_add's reuse of a deleted entry, splitting off a remainder of at least dirent_size(1)
Reuse(b, k, new, need) ==
    IF b[k].rec - need >= DirentSize(1)
    THEN Splice(b, k, <<[new EXCEPT !.rec = need], EmptyEntry(b[k].rec - need)>>)
    ELSE Splice(b, k, <<[new EXCEPT !.rec = b[k].rec]>>)

\* a mutant: the new entry's rec_len set to needed_size, not to free_space
SplitTight(b, k, new) ==
    LET actual == DirentSize(b[k].nlen)
    IN  Splice(b, k, <<[b[k] EXCEPT !.rec = actual], [new EXCEPT !.rec = DirentSize(new.nlen)]>>)

\* lsfs_dir_add's split: the entry keeps dirent_size of its name, the new one gets the rest
Split(b, k, new) ==
    LET actual == DirentSize(b[k].nlen)
    IN  Splice(b, k, <<[b[k] EXCEPT !.rec = actual], [new EXCEPT !.rec = b[k].rec - actual]>>)

(* lsfs_dir_add once the EXIST test has passed: the first entry on the    *)
(* walk that is deleted and large enough is reused, or else that has      *)
(* room for the new one after its own name is split. A walk that breaks   *)
(* at a rec_len of 0 takes that slot and the rest of its block: it is a   *)
(* zero block, met at offset 0, so the new entry alone fills the block    *)
(* and the entries the block holds on the cache's side are overwritten.   *)
(* With neither, a new block at dir_size / LSFS_BLOCK_SIZE holds the      *)
(* entry alone and the size grows.                                        *)
DirAdd(d, nm, ino, ft) ==
    LET need == DirentSize(NameLen[nm])
        new  == DirEntry(ino, 0, nm, ft)
        reusable(e) == e.ino = 0 /\ e.rec >= need
        fits(e) == reusable(e) \/ e.rec - DirentSize(e.nlen) >= need
        P == SelectSeq(Walk(d), LAMBDA p : fits(At(d, p)))
    IN  IF P # <<>>
        THEN LET p == Head(P)
             IN  [d EXCEPT ![p[1]] = IF reusable(At(d, p)) THEN Reuse(@, p[2], new, need)
                                                          ELSE Split(@, p[2], new)]
        ELSE IF ZeroStop(d) # {}
        THEN LET z == CHOOSE z \in ZeroStop(d) : TRUE
             IN  [d EXCEPT ![z[1]] = Splice(@, z[2], <<[new EXCEPT !.rec = BlockSize]>>)]
        ELSE Append(d, <<[new EXCEPT !.rec = BlockSize]>>)

(* lsfs_dir_remove of the first match: merged into the entry before it in *)
(* the same block, or marked deleted (ino 0) when it starts its block.    *)
(* A deleted entry keeps its bytes, but only rec_len and name_len are     *)
(* read again (every other test is behind ino != 0), so the model forgets *)
(* its name and type. With no match (the walk broke first) it returns     *)
(* LSFS_ERR_NOENT and writes nothing.                                     *)
DirRemove(d, nm) ==
    LET p == Head(MatchWalk(d, nm))
        b == d[p[1]]
    IN  IF MatchWalk(d, nm) = <<>> THEN d
        ELSE IF p[2] > 1
        THEN [d EXCEPT ![p[1]] = RemoveAt([b EXCEPT ![p[2] - 1].rec = @ + b[p[2]].rec], p[2])]
        ELSE [d EXCEPT ![p[1]][p[2]] = [@ EXCEPT !.ino = 0, !.name = "", !.ft = "none"]]

\* lsfs_dir_is_empty: no entry in use but "." and ".."
DirIsEmpty(d) == \A p \in Pos(d) : At(d, p).ino = 0 \/ At(d, p).name \in {".", ".."}

\* lsfs_dir_init: "." of dirent_size(1) bytes, ".." over the rest of block 0
DirInit(self, parent) ==
    << << DirEntry(self, DirentSize(1), ".", "dir"),
          DirEntry(parent, BlockSize - DirentSize(1), "..", "dir") >> >>

\* the names lsfs_dir_iterate from offset 0 hands its callback, in order: entries in use with a name
ListedNames(d) ==
    LET live == SelectSeq(Walk(d), LAMBDA p : At(d, p).ino # 0 /\ At(d, p).nlen > 0)
    IN  [k \in 1 .. Len(live) |-> At(d, live[k]).name]

=============================================================================
