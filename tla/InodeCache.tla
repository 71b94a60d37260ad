---------------------------- MODULE InodeCache ----------------------------
(***************************************************************************)
(* The in-memory inode cache of inode.c: cache entries allocated with     *)
(* calloc (a pointer is a number, never reused), hash chains of           *)
(* LSFS_INODE_CACHE_BUCKETS buckets with new entries at the head, an LRU   *)
(* list with the least recently used entry at the head, refcounts, and    *)
(* inode_cache_evict writing a dirty victim back before it frees it. The  *)
(* inode itself is abstracted to its version: each change a handler makes *)
(* is a new version, and the map holds the version of the record it names *)
(* (0 for no entry). The FUSE handlers are the callers, one request at a  *)
(* time, as sequences of the calls they make on the cache. Directory      *)
(* contents are Namespace's part: here the tree is only which directory   *)
(* names each number, so that a request gets the parents it would get.   *)
(***************************************************************************)
EXTENDS Naturals, Sequences, SequencesExt

CONSTANTS MaxInodes,    \* LSFS_MAX_INODES
          CacheSize,    \* LSFS_INODE_CACHE_SIZE
          Buckets,      \* LSFS_INODE_CACHE_BUCKETS
          MaxRequests,  \* a bound on the requests of a behaviour
          InodesPerBlock, \* the 16 of "ino % 16" in lsfs_inode_get
          ChangeUnlinked \* whether a file unlinked while open is still changed

RootIno == 1
InoNum == 1 .. MaxInodes - 1
Slot == {"a", "b", "c"} \* a handler's inode pointers (parent_inode, new_inode, dest_inode, ...)

VARIABLES cell,      \* cell[p]: the cache entry at pointer p, once allocated
          alive,     \* the pointers not yet freed
          chain,     \* chain[h]: the hash chain of bucket h, head first
          lru,       \* the LRU list, lru_head first
          count,     \* cache->count
          imap,      \* imap[i]: the version of the record the map names, 0 for none
          next_ino,
          nextp,     \* the pointer the next calloc returns
          stamp,     \* the last version made
          newest,    \* newest[i]: the last version of inode i, 0 when i has no inode
          q,         \* the calls left of the request in progress
          held,      \* held[s]: the pointer in the handler's variable s, 0 for none
          nreq,
          parent,    \* parent[i]: the directory whose entry names i, 0 for none
          dirs       \* the numbers of directories

tree == <<parent, dirs>>
vars == <<cell, alive, chain, lru, count, imap, next_ino, nextp, stamp, newest, q, held, nreq, tree>>

\* inode_hash
Hash(i) == i % Buckets

\* the entry lsfs_inode_get finds: the first on the chain with the number, or 0
Lookup(i) ==
    LET c == SelectSeq(chain[Hash(i)], LAMBDA p : cell[p].ino = i)
    IN  IF c = <<>> THEN 0 ELSE Head(c)

\* the cache and map as one record, for the calls that change several parts
St == [cell |-> cell, alive |-> alive, chain |-> chain, lru |-> lru, count |-> count, imap |-> imap]
SetSt(st) == /\ cell' = st.cell /\ alive' = st.alive /\ chain' = st.chain
             /\ lru' = st.lru /\ count' = st.count /\ imap' = st.imap

(* a mutant: the victim unlinked from the LRU list but left on its chain *)
RECURSIVE EvictKeepChain(_)
EvictKeepChain(st) ==
    LET idle == SelectSeq(st.lru, LAMBDA p : st.cell[p].ref = 0)
    IN  IF st.count < CacheSize \/ idle = <<>> THEN st
        ELSE LET v == Head(idle)
                 r == st.cell[v]
             IN  EvictKeepChain([st EXCEPT !.imap = IF r.dirty THEN [@ EXCEPT ![r.ino] = r.ver] ELSE @,
                                           !.lru = Remove(@, v), !.alive = @ \ {v}, !.count = @ - 1])

(* inode_cache_evict: while the cache is full, the first entry from        *)
(* lru_head with refcount 0 is written back if dirty (lsfs_inode_write:    *)
(* lsfs_imap_set to the new record), unlinked from its chain and the LRU   *)
(* list and freed; with every entry in use the loop stops.                *)
RECURSIVE Evict(_)
Evict(st) ==
    LET idle == SelectSeq(st.lru, LAMBDA p : st.cell[p].ref = 0)
    IN  IF st.count < CacheSize \/ idle = <<>> THEN st
        ELSE LET v == Head(idle)
                 r == st.cell[v]
             IN  Evict([st EXCEPT !.imap = IF r.dirty THEN [@ EXCEPT ![r.ino] = r.ver] ELSE @,
                                  !.chain = [@ EXCEPT ![Hash(r.ino)] = Remove(@, v)],
                                  !.lru = Remove(@, v), !.alive = @ \ {v}, !.count = @ - 1])

\* a mutant: the new entry linked at the end of its hash chain
InsertAtTail(st, p, r) ==
    [st EXCEPT !.cell = (p :> r) @@ @, !.alive = @ \cup {p},
               !.chain = [@ EXCEPT ![Hash(r.ino)] = Append(@, p)],
               !.lru = Append(@, p), !.count = @ + 1]

\* "Add to cache": at the head of the hash chain, at lru_tail, count++
Insert(st, p, r) ==
    [st EXCEPT !.cell = (p :> r) @@ @, !.alive = @ \cup {p},
               !.chain = [@ EXCEPT ![Hash(r.ino)] = <<p>> \o @],
               !.lru = Append(@, p), !.count = @ + 1]

Entry(i, ver, dirty) == [ino |-> i, ref |-> 1, dirty |-> dirty, ver |-> ver, deleted |-> FALSE]

\* lsfs_imap_alloc_ino: next_ino, or at LSFS_MAX_INODES the first number without an entry
AllocIno ==
    IF next_ino < MaxInodes THEN next_ino
    ELSE LET free == {i \in RootIno + 1 .. MaxInodes - 1 : imap[i] = 0}
         IN  IF free = {} THEN 0 ELSE CHOOSE i \in free : \A j \in free : i <= j

Step(op, s, i) == [op |-> op, s |-> s, i |-> i]
Running(op) == q # <<>> /\ Head(q).op = op
Cur == Head(q)
P == held[Cur.s]

\* lsfs_inode_put of every pointer the handler holds: the puts before an error reply
PutAll(c) == [p \in DOMAIN c |->
                 IF p \in {held[s] : s \in Slot} /\ c[p].ref > 0
                 THEN [c[p] EXCEPT !.ref = @ - 1] ELSE c[p]]

NoneHeld == [s \in Slot |-> 0]

-----------------------------------------------------------------------------
\* lsfs_inode_cache_init after mkfs and lsfs_imap_load: only the root is mapped
Init ==
    /\ cell = <<>> /\ alive = {} /\ chain = [h \in 0 .. Buckets - 1 |-> <<>>]
    /\ lru = <<>> /\ count = 0
    /\ imap = [i \in InoNum |-> IF i = RootIno THEN 1 ELSE 0]
    /\ next_ino = RootIno + 1 /\ nextp = 1 /\ stamp = 1
    /\ newest = imap
    /\ q = <<>> /\ held = NoneHeld /\ nreq = 0
    /\ parent = [i \in InoNum |-> 0] /\ dirs = {RootIno}

(* lsfs_inode_get, a cache hit: refcount++, moved to lru_tail             *)
GetHit ==
    LET p == Lookup(Cur.i)
    IN  /\ Running("get") /\ p # 0
        /\ cell' = [cell EXCEPT ![p].ref = @ + 1]
        /\ lru' = Append(Remove(lru, p), p)
        /\ held' = [held EXCEPT ![Cur.s] = p]
        /\ q' = Tail(q)
        /\ UNCHANGED <<alive, chain, count, imap, next_ino, nextp, stamp, newest, nreq, tree>>

(* a miss: with no map entry NULL, and the handler puts what it holds and  *)
(* replies ENOENT; else evict, calloc and read the record the map names:   *)
(* read at slot ino % 16 of its block, it holds another number unless      *)
(* ino is a multiple of InodesPerBlock, and then NULL too; else the entry   *)
(* is added with refcount 1                                                *)
GetMiss ==
    LET st == Evict(St)
    IN  /\ Running("get") /\ Lookup(Cur.i) = 0
        /\ IF imap[Cur.i] = 0
           THEN /\ cell' = PutAll(cell) /\ held' = NoneHeld /\ q' = <<>>
                /\ UNCHANGED <<alive, chain, lru, count, imap, nextp>>
           ELSE IF Cur.i % InodesPerBlock # 0
           THEN /\ SetSt([st EXCEPT !.cell = PutAll(@)])
                /\ held' = NoneHeld /\ q' = <<>>
                /\ UNCHANGED nextp
           ELSE /\ SetSt(Insert(st, nextp, Entry(Cur.i, st.imap[Cur.i], FALSE)))
                /\ nextp' = nextp + 1
                /\ held' = [held EXCEPT ![Cur.s] = nextp]
                /\ q' = Tail(q)
        /\ UNCHANGED <<next_ino, stamp, newest, nreq>>
        /\ UNCHANGED tree

(* lsfs_inode_alloc: a number (none: ENOSPC, the handler puts what it      *)
(* holds), evict, and a new dirty entry with refcount 1 at the chain head  *)
Alloc ==
    /\ Running("alloc")
    /\ IF AllocIno = 0
       THEN /\ cell' = PutAll(cell) /\ held' = NoneHeld /\ q' = <<>>
            /\ UNCHANGED <<alive, chain, lru, count, imap, next_ino, nextp, stamp, newest, tree>>
       ELSE /\ SetSt(Insert(Evict(St), nextp, Entry(AllocIno, stamp + 1, TRUE)))
            /\ next_ino' = IF next_ino < MaxInodes THEN next_ino + 1 ELSE next_ino
            /\ nextp' = nextp + 1 /\ stamp' = stamp + 1
            /\ newest' = [newest EXCEPT ![AllocIno] = stamp + 1]
            /\ held' = [held EXCEPT ![Cur.s] = nextp]
            /\ q' = Tail(q)
            /\ parent' = [parent EXCEPT ![AllocIno] = cell[held["a"]].ino]
            /\ dirs' = IF Cur.i = "dir" THEN dirs \cup {AllocIno} ELSE dirs
    /\ UNCHANGED nreq

(* a change a handler makes to an inode it holds, with dirty = true       *)
(* (setattr, write, a directory's lsfs_dir_add or lsfs_dir_remove); the   *)
(* change of a freed inode makes no inode live again                      *)
Change ==
    /\ Running("change")
    /\ cell' = [cell EXCEPT ![P].ver = stamp + 1, ![P].dirty = TRUE]
    /\ stamp' = stamp + 1
    /\ newest' = IF cell[P].deleted THEN newest ELSE [newest EXCEPT ![cell[P].ino] = stamp + 1]
    /\ q' = Tail(q)
    /\ UNCHANGED <<alive, chain, lru, count, imap, next_ino, nextp, held, nreq>>
    /\ UNCHANGED tree

(* lsfs_inode_write: nothing if clean; else the record appended and       *)
(* lsfs_imap_set to it, dirty = false                                     *)
Write ==
    /\ Running("write")
    /\ IF cell[P].dirty
       THEN /\ imap' = [imap EXCEPT ![cell[P].ino] = cell[P].ver]
            /\ cell' = [cell EXCEPT ![P].dirty = FALSE]
       ELSE UNCHANGED <<imap, cell>>
    /\ q' = Tail(q)
    /\ UNCHANGED <<alive, chain, lru, count, next_ino, nextp, stamp, newest, held, nreq>>
    /\ UNCHANGED tree

(* lsfs_inode_free: lsfs_imap_remove, LSFS_INODE_DELETED, dirty = false;  *)
(* the entry stays in the cache                                           *)
Free ==
    /\ Running("free")
    /\ imap' = [imap EXCEPT ![cell[P].ino] = 0]
    /\ cell' = [cell EXCEPT ![P].deleted = TRUE, ![P].dirty = FALSE]
    /\ newest' = [newest EXCEPT ![cell[P].ino] = 0]
    /\ q' = Tail(q)
    /\ UNCHANGED <<alive, chain, lru, count, next_ino, nextp, stamp, held, nreq>>
    /\ UNCHANGED tree

(* lsfs_inode_put: refcount-- when positive                               *)
Put ==
    /\ Running("put")
    /\ cell' = [cell EXCEPT ![P].ref = IF @ > 0 THEN @ - 1 ELSE @]
    /\ held' = [held EXCEPT ![Cur.s] = 0]
    /\ q' = Tail(q)
    /\ UNCHANGED <<alive, chain, lru, count, imap, next_ino, nextp, stamp, newest, nreq>>
    /\ UNCHANGED tree

-----------------------------------------------------------------------------
(* The requests, as the calls each handler of fuse_ops.c makes on the      *)
(* cache past its lookups, in order, with the directory tree the kernel    *)
(* sees after the reply (directory contents are Namespace's part).        *)
Request(steps, parent2, dirs2) ==
    /\ q = <<>> /\ nreq < MaxRequests
    /\ q' = steps /\ nreq' = nreq + 1
    /\ parent' = parent2 /\ dirs' = dirs2
    /\ UNCHANGED <<cell, alive, chain, lru, count, imap, next_ino, nextp, stamp, newest, held>>

Named == {i \in InoNum : parent[i] # 0}
Files == Named \ dirs
Unnamed(i) == [parent EXCEPT ![i] = 0]

\* lookup, getattr, open, read, readdir: get and put (the number may be gone: ENOENT)
Getattr(i) == Request(<<Step("get", "a", i), Step("put", "a", i)>>, parent, dirs)

\* setattr and write: get, the change, lsfs_inode_write, put. The kernel sends
\* them for the numbers it knows, and with no forget or release handler a file
\* unlinked while open keeps its number: ChangeUnlinked admits those.
Setattr(i) ==
    /\ newest[i] # 0 \/ ChangeUnlinked
    /\ Request(<<Step("get", "a", i), Step("change", "a", i), Step("write", "a", i),
                 Step("put", "a", i)>>, parent, dirs)

\* lsfs_op_create in directory p (the new number is chosen by the alloc step)
Create(p) == Request(<<Step("get", "a", p), Step("alloc", "b", "file"), Step("change", "a", 0),
                       Step("write", "b", 0), Step("write", "a", 0), Step("put", "b", 0),
                       Step("put", "a", 0)>>, parent, dirs)

\* lsfs_op_mkdir: lsfs_dir_init changes the new inode; lsfs_dir_add and nlink++ the parent
Mkdir(p) == Request(<<Step("get", "a", p), Step("alloc", "b", "dir"), Step("change", "b", 0),
                      Step("change", "a", 0), Step("write", "b", 0), Step("write", "a", 0),
                      Step("put", "b", 0), Step("put", "a", 0)>>, parent, dirs)

\* lsfs_op_unlink of a file (its nlink 1 reaches 0) and lsfs_op_rmdir of an
\* empty directory make the same calls: get parent and child, lsfs_dir_remove
\* (and nlink--) on the parent, lsfs_inode_free, write the parent, put both
Unlink(i) ==
    Request(<<Step("get", "a", parent[i]), Step("get", "b", i), Step("change", "a", i),
              Step("free", "b", i), Step("write", "a", i), Step("put", "b", i),
              Step("put", "a", i)>>, Unnamed(i), dirs \ {i})

(* lsfs_op_rename of file t into directory np, over file d (0: none): the  *)
(* second parent only when it differs; a destination is got, removed from  *)
(* np, freed (nlink 1 reaches 0) and put; then lsfs_dir_add on np,         *)
(* lsfs_dir_remove on the old parent, and both written and put            *)
Rename(t, np, d) ==
    LET op == parent[t]
        nps == IF op = np THEN "a" ELSE "b"
        dest == IF d = 0 THEN <<>>
                ELSE <<Step("get", "c", d), Step("change", nps, d), Step("free", "c", d),
                       Step("put", "c", d)>>
        steps == IF op = np
                 THEN <<Step("get", "a", op)>> \o dest \o
                      <<Step("change", "a", t), Step("write", "a", t), Step("put", "a", t)>>
                 ELSE <<Step("get", "a", op), Step("get", "b", np)>> \o dest \o
                      <<Step("change", "b", t), Step("change", "a", t), Step("write", "a", t),
                        Step("write", "b", t), Step("put", "b", t), Step("put", "a", t)>>
    IN  Request(steps, [IF d = 0 THEN parent ELSE Unnamed(d) EXCEPT ![t] = np], dirs)

Done == q = <<>> /\ nreq = MaxRequests /\ UNCHANGED vars

Next ==
    \/ GetHit \/ GetMiss \/ Alloc \/ Change \/ Write \/ Free \/ Put
    \/ \E i \in InoNum : Getattr(i) \/ Setattr(i)
    \/ \E p \in dirs : Create(p) \/ Mkdir(p)
    \/ \E i \in Named : (i \in Files \/ \A j \in Named : parent[j] # i) /\ Unlink(i)
    \/ \E t \in Files, np \in dirs, d \in {0} \cup Files :
           d # t /\ (d # 0 => parent[d] = np) /\ Rename(t, np, d)
    \/ Done

Spec == Init /\ [][Next]_vars

-----------------------------------------------------------------------------
(* Every pointer the cache or a handler can still follow (a hash chain,   *)
(* the LRU list, a handler's variable) is one inode_cache_evict has not    *)
(* freed: eviction unlinks its victim from both lists and skips every      *)
(* entry a handler holds.                                                 *)
NoUseAfterFree ==
    /\ \A s \in Slot : held[s] # 0 => held[s] \in alive
    /\ \A h \in DOMAIN chain : \A k \in DOMAIN chain[h] : chain[h][k] \in alive
    /\ \A k \in DOMAIN lru : lru[k] \in alive

(* lsfs_inode_get of a number with an inode returns its newest version:    *)
(* the entry the chain finds holds it and is not a deleted one left by     *)
(* lsfs_inode_free, or, with no entry, the map names it (every change to   *)
(* an evicted inode was written back).                                    *)
GetReturnsNewest ==
    \A i \in InoNum : newest[i] # 0 =>
        IF Lookup(i) # 0
        THEN ~cell[Lookup(i)].deleted /\ cell[Lookup(i)].ver = newest[i]
        ELSE imap[i] = newest[i]

(* A number is in the inode map only while its inode lives: once          *)
(* lsfs_inode_free has removed it (its blocks marked dead, no directory    *)
(* naming it), no later lsfs_inode_write of the entry left in the cache   *)
(* maps it again.                                                         *)
FreedStaysUnmapped == \A i \in InoNum : imap[i] # 0 => newest[i] # 0

=============================================================================
