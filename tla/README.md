# TLA+ model of LSFS

This directory holds the model-checking project for LSFS, the log-structured FUSE
file system under `src/`. The modules are written from the C sources. Every
definition that models code is listed in `PROJECT.json` ("map") with the lines
it translates.

## The system

LSFS keeps all file-system state in an append-only log of fixed-size segments:

- **Segment writer** (`src/src/main.c`, `lsfs_segment_*`):
  - Blocks are appended to an in-memory segment buffer whose slot 0 is the
    segment summary: magic, timestamp, block count and one descriptor per block.
  - `lsfs_segment_flush` writes the buffer to its segment, marks the segment
    FULL in the usage table, moves `log_head`, allocates the next FREE
    segment, and starts a checkpoint when one is due.
- **Inode map** (`imap.c`): maps an inode number to the address of its latest
  inode record. It is saved with each checkpoint.
- **Inode layer** (`inode.c`):
  - `lsfs_inode_write` marks the old record dead, appends the new one and
    updates the map.
  - `lsfs_inode_write_block` does the same for a data block and `direct[]`.
  - `lsfs_inode_get` reads a record through the map into the inode cache:
    hash chains (new entries at the head), an LRU list and refcounts.
    `inode_cache_evict` frees the least recently used entry with refcount 0,
    writing it back first if dirty. `lsfs_inode_free` removes the map entry
    but leaves the entry cached, flagged deleted.
- **Checkpoints** (`checkpoint.c`): two alternating regions.
  - A checkpoint writes its header with `complete = 0`, the inode map and the
    single segment table, syncs, rewrites the header with `complete = 1`, and
    syncs again.
  - Mount loads the valid region with the higher sequence number. It then
    rolls forward through segments whose summaries have the magic and a
    timestamp not older than the checkpoint, and writes a fresh checkpoint.
- **FUSE operations** (`fuse_ops.c`) and **directories** (`unnamed/part_002`):
  - Handlers run on the FUSE loop, one request at a time, and call the
    layers above.
  - A directory is a sequence of dirent blocks. Each block is a chain of
    entries linked by `rec_len` from offset 0. `lsfs_dir_add` reuses a
    deleted entry or splits one; `lsfs_dir_remove` merges an entry into the
    one before it; `lsfs_dir_iterate` walks the chain for `readdir`.
- **mkfs** (`unnamed/part_003`, `format_filesystem`): segment 0 holds the root
  inode and root directory block, and checkpoint 0 is complete.
- **Cleaner** (`gc.c`): a thread started at mount. It wakes every 5 s and,
  when fewer than 10% of the segments are FREE, cleans up to 5 FULL segments
  at most half live: it copies their live inode and data blocks to the log
  head, frees them, then flushes and writes a checkpoint.
- **Threads:** the FUSE loop (single-threaded) and the cleaner share the
  segment buffer (`segbuf->lock`), the segment table (`table->lock`), the map
  (its rwlock) and the inode cache. `write_lock` is held by a flush and by a
  checkpoint from its write phase to its final sync.

## Module `LfsLog`

`LfsLog.tla` models the storage engine and the FUSE loop driving it, over a
disk that may lose unsynced writes. `LfsCleaner` extends it with the cleaner
thread; `Imap` refines the map that `LfsLog` keeps as a function.

### State and how it corresponds to the code

- **Disk images:** two variables hold the disk.
  - `disk` is what reads see: the page cache.
  - `durable` is what a power loss leaves.
  - An image (`Image`) holds the segment summaries, the payload blocks, the
    two checkpoint headers, the two checkpoint inode maps, and the segment
    table region.
- **In-memory state:** `segbuf`, `segtable`, `free_count`, `log_head`, `imap`,
  `next_ino`, `icache`, `checkpoint_seq`, `last_checkpoint`,
  `writes_since_checkpoint` and `active_checkpoint` are the fields of
  `struct lsfs_context` with the same names.
- **Data abstraction:**
  - A block's contents (`Content`) are its kind, its inode number, a version
    stamp and `direct[0]`.
  - A directory block is abstracted to the set of inode numbers it names.
- **Threads and work items (`wq`):** each thread (`"fuse"`, `"gc"`) has a
  queue of work items. A FUSE handler is modelled as the sequence of items it
  hands to the engine: inode writes, block writes, flush, sync, and the
  checkpoint phases. `wlock` is `write_lock` (`"none"` or its holder) and
  `gc_running` is `ctx->gc_running`, set by `lsfs_gc_init` at the end of a
  mount and cleared by `lsfs_gc_destroy` and by a power loss.
  - One item runs per step, so a power loss (`Crash`) or a clock tick can fall
    between any two of them, as in the code.
  - A step that flushes and then appends (an append into a full buffer) is one
    item that flushes and re-queues the append, so the checkpoint that the
    flush may start runs in between, in the code's order.
- **Checkpoint phases:** `lsfs_checkpoint_write` is split at its sync barriers.
  - `CpWrite` writes the header with `complete = 0`, the map and the table.
  - `CpSync` is the first sync.
  - `CpCommit` writes `complete = 1` and sets `active_checkpoint`.
  - `CpDone` is the final sync and resets the counters.
- **Mount:** `Mount` is `lsfs_init_fs`, made of three parts:
  - `SegmentInit`: the table read back, FREE entries counted, first segment
    allocated;
  - `Best`: `lsfs_checkpoint_load`;
  - `Replay`: the roll-forward of `lsfs_checkpoint_recover`, written as a
    RECURSIVE operator over segment numbers.
  - The checkpoint that recovery writes is queued as work before `Mounted`.
- **Unmount:** `Unmount`, `UmountSync` and `Close` are `lsfs_cleanup_fs`:
  flush, checkpoint, superblock and sync, then the table saved by
  `lsfs_segment_destroy` and the fsync of `lsfs_io_destroy`.
- **Power loss:** `Crash` persists any subset of the pending units. A unit is
  a segment's summary, a segment's payload, a header, a checkpoint map, or
  the table. Memory is lost.
- **Ghost variables** exist only for the properties:
  - `stamp` versions each inode record.
  - `epoch` numbers checkpoint writes.
  - `promised` is the version an fsync or checkpoint guaranteed.
  - `recovered` records which checkpoint a mount loaded.

### Not in `LfsLog`'s Next

`CkptFlush`, the flush at the top of `lsfs_checkpoint_write`, is defined in
`LfsLog` but only `LfsCleaner`'s next-state relation has it. The FUSE loop on
its own always reaches a checkpoint with an empty buffer (unmount flushes
first, a flush resets the buffer before it checkpoints, a mount starts
empty); only the cleaner's appends between the two make the step happen.
The checkpoint a flush starts (`FlushCkpt`) is queued as that same
`lsfs_checkpoint_write`, so the flush's checkpoint also tests the buffer
again and flushes a block the cleaner appended after the reset.

## Module `LfsCleaner`

`LfsCleaner.tla` extends `LfsLog` with the cleaner thread. Its work runs as
items on the `"gc"` queue, one item per critical section of the code, so a
FUSE step can fall between any two of them:

- `GcWake` is `gc_thread_func` finding `lsfs_gc_needed`; it starts a run.
- `GcLoop` is one turn of `lsfs_gc_run`'s loop: the 20% test, then
  `lsfs_gc_select_segment` (`SelectSegment`, which compares the utility
  `age * (1 - u) / (1 + u)` exactly as a fraction).
- `GcClean` is `lsfs_gc_clean_segment` up to its loop: a segment no longer
  FULL, an empty one, a summary without the magic, or CLEANING with one
  `gcblk` item per summarised block.
- `GcBlk` is the liveness test of one block (the imap for an inode block,
  `lsfs_inode_get` and `direct[offset]` for a data block). Any other type is
  skipped, as in the code.
- `GcMove`, `GcMoveFlush` and `GcPut` are `lsfs_segment_append_block` of the
  copied block: into a buffer with room, or a flush (with the checkpoint it
  may start) followed by the append. `GcSet` is the `lsfs_imap_set` after an
  inode block moved; a moved data block sets `direct[offset]` and marks the
  cached inode dirty, without writing it.
- `GcFree` marks the segment FREE and counts it.
- `GcJoin` (in `LfsLog`) is the `pthread_join` of `lsfs_gc_destroy`.

`MaxEpoch` bounds the cleaner runs: on a small disk, cleaning fills the next
segment with the moved blocks and the cleaner can run for ever.

## Modules `ImapAbs` and `Imap`

`ImapAbs.tla` is what the inode map promises: a function from inode numbers
to addresses, a saved copy, and an allocator that hands out a number with no
entry (0 only when none is left). `Imap.tla` is the array of `imap.c`:

- the sorted `entries` (the version field is left out; no caller reads it);
- `capacity`, `next_ino`, the saved entries and the last allocated number;
- `imap_find` and `imap_find_insert_pos` as RECURSIVE operators that follow
  the code's loops and index arithmetic;
- one action per operation: `SetUpdate`, `SetInsert` (with `imap_grow`),
  `ImapRemove`, `AllocNext`, `AllocScan`, `Save` (its guard states that the
  map fits the region, which holds at the checked bounds), and `Mount` (`lsfs_imap_init` then
  `lsfs_imap_load`).

`Imap` has no Next of its own: `Namespace` calls its actions from the FUSE
handlers. The `namespace` run checks `Imap` to implement `ImapAbs` through
`INSTANCE ImapAbs WITH map <- MapOf(entries), ...`. This justifies
`LfsLog`'s use of a plain function for the map.

## Module `Directory`

`Directory.tla` holds the dirent code of `unnamed/part_002` as pure operators.
A directory is a sequence of blocks, and a block is the sequence of entries
on its `rec_len` chain, each a record `[ino, rec, nlen, name, ft]`. A name is
an element of a small set, and `NameLen` gives its length. Only the length
enters the arithmetic of `dirent_size`.

- `Walk` lists the positions in the order the code's loops visit them, up
  to the first entry with `rec_len == 0`. Every loop `break`s there, which
  ends the whole walk and not just the block. A block of zeros
  (`ZeroBlock`, what a hole or an unflushed block reads as) stops it.
  `DirLookup` returns the first entry in use with the name.
- `DirAdd` takes the first entry on the walk that is a large enough deleted
  entry (`Reuse`, splitting off a remainder of at least `dirent_size(1)`) or
  has room after its own name (`Split`). If the walk broke at a zero block,
  the new entry alone takes that whole block. Otherwise it appends a new
  block with the entry alone.
- `DirRemove` merges the entry into the previous one in its block, or sets
  `ino = 0` when it starts the block. With no match before the break, it
  returns NOENT and writes nothing.
- `DirIsEmpty`, `DirInit`, and `ListedNames` (what `lsfs_dir_iterate` from
  offset 0 hands its callback) complete the module.
- A deleted entry keeps its bytes in the code. The model forgets its name
  and type, because every test of the code reads them only behind
  `ino != 0`.

## Module `Namespace`

`Namespace.tla` extends `Imap` and `Directory` with the namespace handlers of
`fuse_ops.c`. Its state is `dirs` (the blocks of each directory inode),
`kind` and `nlink` (the cached inode's mode and link count), `q` (the steps
left of the request in progress), `listing` (what the kernel has received in
the current getdents loop), a request counter, and `pend` (the blocks of
each directory written since the last segment flush).

- Directory reads are faithful to `lsfs_inode_read_block`, which preads the
  disk (`io.c:85`). A block written since the last flush is only in the
  segment buffer, so `Read` returns a zero block for it. `AddTo` and
  `RemoveFrom` run `DirAdd` and `DirRemove` on that view. They write back
  only the blocks the operation changed, and those blocks become pending.
  The rest of the cache's copy in `dirs` is left alone. `Unmount` and the
  `Fsync` request (`lsfs_op_fsync`) flush, which empties `pend`. A segment
  never fills within six requests, so no other flush happens.

- FUSE serves one request at a time. A request is a queue of steps, and a
  step ends at each call that changes the inode map:
  - create and mkdir: `Alloc`, then `CreateLink` or `MkdirLink`, then
    `WriteParent`;
  - unlink and rmdir: `UnlinkFile` or `RmdirDir`, then `WriteParent`;
  - rename: `RenameBody`, then `WriteParent` for each parent;
  - readdir: `ReaddirFirst`, then `ReaddirMore`;
  - fsync: `Fsync`, one step;
  - unmount and mount: `Unmount` (`lsfs_imap_save` in the final
    checkpoint of `lsfs_cleanup_fs`), then `Remount` (`lsfs_imap_load`).
- An early return that replies an error and changes nothing is a stutter,
  so a request starts only when it gets past those returns.
- The requests carry the guards of the kernel's VFS. It never passes "." or
  "..", a rename onto the same inode or across types, a directory moved into
  its own subtree, or a non-empty directory as a rename destination.
- `ReaddirMore` models undefined behaviour. `readdir_callback` tags an entry
  with `offset + 1`, so the second call starts one byte into an entry.
  `lsfs_dir_iterate` reads a block only at block offset 0, so it parses its
  uninitialized stack buffer. The model takes either outcome the build can
  produce: a `rec_len` of 0 ends the listing, or a garbage entry (`Junk`)
  is handed out and the kernel asks again.

## Module `InodeCache`

`InodeCache.tla` models the inode cache of `inode.c` under the calls the
FUSE handlers make on it.

- **State:**
  - `cell` holds the cache entries by pointer: number, refcount, dirty
    flag, version, deleted flag. Pointers are never reused, so a freed entry
    is told apart from a new one.
  - `alive` is the set of entries not yet freed.
  - `chain` holds the hash chains of `inode_hash`, head first.
  - `lru` is the LRU list, head first. `count` is `cache->count`.
  - `imap` is the version of the record the map names (0 for no entry), and
    `next_ino` is the allocator's counter.
  - `held` holds the handler's pointer variables (`parent_inode`,
    `new_inode`, `dest_inode`).
  - `parent` and `dirs` are the tree the kernel sees, so that a request
    names real parents. Directory contents are `Namespace`'s part.
  - `newest` is a ghost: each inode's last version, 0 once freed.
- **Actions:**
  - `GetHit` and `GetMiss` are `lsfs_inode_get`. A miss with no map entry
    returns NULL before evicting. A miss whose record fails the `ino % 16`
    slot check returns NULL after evicting. Otherwise the new entry is
    linked at the chain head and the LRU tail.
  - `Alloc` is `lsfs_inode_alloc`: the allocator's number (the scan at
    `LSFS_MAX_INODES`; none gives ENOSPC), evict, a dirty entry.
  - `Change`, `Write`, `Free` and `Put` are a handler's change with
    `dirty = true`, `lsfs_inode_write`, `lsfs_inode_free` and
    `lsfs_inode_put`.
  - `Evict` is `inode_cache_evict` as a recursive operator.
- **Requests:** each request is the sequence of cache calls its handler
  makes: getattr (and lookup, open, read and readdir, which make the same
  calls), setattr and write, create, mkdir, unlink and rmdir (the same
  calls), and rename within or across directories, over an existing file or
  not. A NULL return makes the handler put what it holds and reply an error.
- **`ChangeUnlinked`:** `fuse_ops.c` has no `forget` or `release` handler,
  so a file unlinked while open keeps its number in the kernel, and setattr
  or write can still reach it. `ChangeUnlinked` admits those requests.
- **Single thread:** the model is the FUSE thread alone. One consequence:
  a request's held entries are always its most recently used, so the
  refcount test of the eviction matters only when every cached entry is held.

## Runs

All runs use `SegBlocks = 4` (three payload slots per segment, so flushes happen
every few writes), `SummaryCap = 3`, `CkptInterval = 3` and `CkptPeriod = 2`.
With these, both the write-count trigger and the time trigger of
`lsfs_checkpoint_needed` fire. `MaxTime = 2` gives the clock three values,
enough for a summary older than a checkpoint.

| run | cfg | expect | what it shows |
|---|---|---|---|
| crash | LfsCrash.cfg | pass | A power loss anywhere in the checkpoint protocol, persisting any subset of unsynced units, always leaves a complete checkpoint (`AlwaysRecoverable`). That checkpoint's inode map is the one written with its header (`CheckpointIntact`), and the next mount loads the newest checkpoint (`RecoveryLoadsNewest`). Bounds: 2 inodes, 4 segments, 1 crash, 2 mounts. |
| log | LfsLog.cfg | pass | `CheckpointReferencesLog`: every map entry of the durable checkpoint names a durable record of that inode. It holds across full-segment flushes, flush-triggered checkpoints and remounts. It uses 7 segments and 6 versions so that segments stay available: running out of space is checked by `nospace`, where this property fails too. |
| nospace | LfsNoSpace.cfg | violation | `FsyncDurable` fails. With no FREE segment, the buffer keeps the id of a FULL segment and the next flush overwrites fsync'd records. |
| torn | LfsTorn.cfg | violation | `CheckpointReferencesLog` fails. A summary persisted without its blocks is replayed (there is no checksum), and recovery's checkpoint commits a pointer to a zero block. |
| ino_reuse | LfsInoReuse.cfg | violation | `NextInoFresh` fails. `next_ino` is computed when the map is loaded, before the roll-forward adds inodes. |
| gc | LfsGc.cfg | pass | With the cleaner interleaved with the FUSE loop, no append writes into a full segment buffer (`AppendInBounds`). Under weak fairness of both threads, every work item either thread starts is finished (`RequestsComplete`): no flush or checkpoint waits for ever on `write_lock`, and unmount's join returns. |
| gc_lost | LfsGcLost.cfg | violation | `NoLiveBlockFreed` fails. The cleaner skips the root directory block, which mkfs wrote with type DIRENT, frees segment 0, and its own checkpoint makes that durable. |
| namespace | Namespace.cfg | pass | The run covers any six requests (create, mkdir, unlink, rmdir, rename, readdir, fsync, unmount/mount) and about 26k states. Directory reads see zeros for unflushed blocks. Every directory block the cache holds stays tiled by its chain (`DirsTiled`), even when `dir_add` overwrites a block it read as zeros. The inode map's search agrees with a linear one (`FindCorrect`), and the array implements `ImapAbs` (`ImapRefines`). Unique names and entries that resolve are not checked, because the code breaks both (see the known bugs). |
| gc_stale | LfsGcStale.cfg | violation | `FsyncDurable` fails in 22 steps. The cleaner judges an inode record live, a FUSE write makes a newer one, and a checkpoint promises it. Then the cleaner appends the old copy and points the map back at it (`gc.c:290` to `gc.c:304`). |
| icache | InodeCache.cfg | pass | Any seven requests through a cache of three entries, about 520k states. No freed entry stays reachable from a chain, the LRU list or a handler (`NoUseAfterFree`). A get finds the newest version of every live inode (`GetReturnsNewest`), also when a freed entry is still cached beside the reallocation of its number. |
| icache_unlinked | InodeCacheUnlinked.cfg | violation | `FreedStaysUnmapped` fails in 21 steps: create, unlink, then a setattr of the unlinked file. The setattr finds the deleted entry and writes it, and `lsfs_imap_set` maps the freed number again. |
| readdir | NamespaceReaddir.cfg | violation | `ReaddirExact` fails on the fresh root directory. The listing is ".", "..", then an entry that is not in the directory, read by the second call from an unread buffer. |

`PROJECT.json` ("findings") says what each violation shows about the code.

### Mutants

Each property of a passing run has a mutant in `PROJECT.json`: a definition
replaced by a plausible slip, under which TLC finds the property violated.

| property | mutated definition | slip |
|---|---|---|
| `CheckpointIntact` | `CpSync` | first sync skipped |
| `AlwaysRecoverable` | `CpRegion` | region not alternated |
| `RecoveryLoadsNewest` | `CkptHeader` | sequence not incremented |
| `CheckpointReferencesLog` | `AppendAddr` | address computed after `block_count++` |
| `TypeOK` | `MarkDead` | live count decremented without the `> 0` test |
| `AppendInBounds` | `GcMove` | full test written `>` for `>=` |
| `RequestsComplete` | `CpDone` | `write_lock` not unlocked |
| `FindCorrect` | `Search` | loop written `while (left < right)` |
| `ImapRefines` | `LoadNextIno` | load loop's `>=` written `>` |
| `DirsTiled` | `Split` | the new entry's `rec_len` set to its own size |
| `NoUseAfterFree` | `Evict` | victim unlinked from the LRU list but left on its chain |
| `GetReturnsNewest` | `Insert` | new entry linked at the chain tail |

No mutant of the eviction's refcount test breaks `NoUseAfterFree`: in a
single-threaded model no state has every cached entry held (see
`InodeCache`). The test guards against the cleaner thread, which the model
leaves out.

### Deadlock and fairness

- **Deadlock:** checked in every run. `Done` is the daemon having exited for
  good after the last mount the bounds allow. The system does stop there, and
  no other state is allowed to be stuck.
- **Deadlock in `gc` and `namespace`:** also checked. `LfsCleaner` stops
  only where `LfsLog` does. `Namespace` stops only at `Done`, after its last
  request: every step of a request can always be taken. `InodeCache` stops
  only at `Done` as well.
- **Fairness (`SpecGc`):** `WF_vars(Step(t))` for each thread. A thread with
  a work item in progress is runnable unless it waits on `write_lock` (a
  guard of its step), and the scheduler keeps running a runnable thread. No
  fairness is assumed for requests (the FUSE loop serves only what arrives)
  or for `GcWake`: no property needs a cleaner run to start.

### Bounds

- **Versions:** `MaxStamp` bounds the inode versions and hence the number of
  writes.
- **Inodes:** `Ino = {1, 2}` is enough for every `LfsLog` hazard: a root and one
  file.
- **Crashes:** one is enough to reach every crash state between two syncs.
  Two mounts let a recovered file system be used and mounted again.
- **Cleaner (`gc`):** 3 segments, so that one FULL segment already puts the
  free share below 10%. Three versions give a second write of an inode (so
  segments with dead blocks appear). `MaxEpoch = 2` allows two checkpoints.
  No power loss, and the clock stays at 0. With these, the cleaner's flush
  interleaves with FUSE appends, and the state space (about 67k states) is small
  enough for the liveness check. `gc_lost` uses 4 segments, 5 versions and 3
  clock values to reach the loss.
- **Namespace (`namespace`, `readdir`):**
  - `LSFS_MAX_INODES = 4` gives the root and two numbers, so `next_ino` runs
    out and the allocation scan is used.
  - An initial capacity of 2 makes the array grow.
  - One address (`Loc = {1}`): no namespace property reads an address.
  - A 40-byte block with names of lengths 1 and 5 (dirent sizes 12 and 16)
    holds ".", ".." and one or two names. So adds split and reuse, and a
    third name needs a second block (`MaxDirBlocks = 2`).
  - Six requests reach every handler after a mkdir and a create, including
    a rename across parents and a rename over an existing file. They also
    reach a `dir_add` into a zero block after an fsync and a rewrite.

- **Inode cache (`icache`, `icache_unlinked`):**
  - `LSFS_MAX_INODES = 4`: after two creates and an unlink, the next create
    reuses a number through the scan.
  - A cache of 3 entries, so that creates evict, and a freed entry can
    outlive the allocation that reuses its number. With 2, that allocation
    always evicts the freed entry first.
  - Two buckets, so that 1 and 3 share a chain.
  - `InodesPerBlock = 1`, as in every `LfsLog` run: the slot check passes.
  - Seven requests (about 30 s); `icache_unlinked` needs three.

## What is not modelled, and the plan

- **Cleaner:** the relocation of INDIRECT blocks (a TODO in `gc.c`), its
  NOMEM and read-error paths, and a power loss during a cleaner run.
  - A checkpoint taken while a segment is CLEANING is not checked.
  - `lsfs_gc_clean_segment` relocates a data block by setting `direct[]`
    and `dirty` (`gc.c:339`) without writing the inode. `LfsCleaner` models
    that. With the DIRENT skip of `gc_lost` fixed, the same cfg still
    violates `NoLiveBlockFreed` in 28 steps. No run of its own.
- **Known bugs whose runs were retired for run slots:** the first two show on
  the first test that creates and reads back two files.
  - `inode_slot`: `lsfs_inode_get` reads the record at slot `ino % 16` of
    its block (`inode.c:205`), while `lsfs_inode_write` and mkfs put it at
    offset 0. With `InodesPerBlock = 16`, `LfsLog` could not read the root
    after the first mount. Every run now uses `InodesPerBlock = 1`, as if
    the read were fixed.
  - `directory`: `lsfs_dir_add` reads the directory block from disk
    (`inode.c:455`) while its newest copy sits in the segment buffer. Two
    creates before a flush leave the root naming only the second file.
    `Namespace` models these reads, and TLC finds two more outcomes of the
    same bug:
    - A name held twice (4 requests). Create `b`, then fsync. Rename `b`
      to `a`: `a` goes to a new block 1 (block 0 had no room), and `b` is
      merged away in block 0. Both blocks are now unflushed. Create `a`:
      the lookup reads block 0 as zeros and stops, so it finds no `a`.
      `dir_add` breaks at the zero `rec_len` and writes `a` alone over block
      0, losing "." and "..". The directory now holds `a` twice.
    - An entry naming a freed inode (5 requests). Create `b`, then create
      `b` again: the lookup reads block 0 as zeros, and the add writes the
      new `b` (inode 3) alone over the block. Fsync. Rename `b` to `a`: `a`
      is split off in block 0, then the remove reads block 0 as zeros and
      returns NOENT, which `fuse_ops.c:738` ignores. Fsync, then unlink
      `b`. Inode 3 drops to nlink 0 and is freed, while `a` still names it.
    These were the `namespace` run's `NamesUnique` and `EntriesResolve`.
    They are not run, because every run slot is used.
  - `active_leak`: the table saved at unmount keeps the old write segment
    ACTIVE (`main.c:454`), and the next mount allocates another. That costs
    one segment per remount. `LfsLog` reaches it.
- **Known rename bugs without a run:**
  - A directory renamed onto an empty directory leaves the destination's
    inode mapped with nlink 1.
  - A directory moved across parents keeps a stale "..".
  - A failed `dir_add` loses the destination. `Namespace` reaches the first
    two, and `PROJECT.json` lists all three as hazards.
- **free_count drift:** the roll-forward's decrement of `free_count`
  (`checkpoint.c:289`) is modelled in `LfsLog`, and shows through the
  `nospace` trace. No run states the counter on its own.
- **Other FUSE operations:** write and read beyond block 0, open, statfs and
  lookup-only calls; these change no namespace state.
- **Indirect blocks.**
- **The inode cache shared with the cleaner:** `lsfs_inode_put` decrements
  the refcount without the cache lock (`inode.c:238`), racing the cleaner's
  get and put at `gc.c:313-346`. `InodeCache` is the FUSE thread alone: the
  race would need the cleaner as a second caller and a run of its own.
- **I/O errors and allocation failures:** none is injected, so the error
  paths of `dir_add`, `inode_write` and `imap_grow` are not reached.
- **Left out:**
  - The buffer pool in `io.c` is never used by the file system.
  - The image dumper and `fsck` are read-only tools.
  - The superblock is written but never read back for state that the model
    tracks (`lsfs_checkpoint_load` takes `log_head` and the active region
    from the checkpoint header).
