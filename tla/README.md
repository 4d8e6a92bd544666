# User-level SSD cache: TLA+ specification and proofs

This directory specifies the user-level SSD cache framework in `src/`: the
shared promotion work queue, the mapping table down to its links, the migration
worker and the requests of the users that run against both, the data they move,
the arithmetic that places each byte, and the life of the shared segment with
its processes. TLC checks the specifications on small instances, and TLAPS proves the
safety properties of the queue, the mapping and its links, the data, the lifecycle and the placement of
bytes for every number of blocks, pages, users, queue slots and processes, every hash function and
every size of page and sector.

Line numbers below are those of the files under `src/`.

## 1. The system

A cache block (32 KB) on an NVMe device holds one *cache page* of a file, named
by `(full_path_name, cache_page_index)`, called a **key** here. One admin process
creates a shared-memory segment and runs the migration worker; any number of
user processes map the segment and submit page I/Os of 4 to 32 KB inside one
cache page.

| Component | Files | State | Operations |
|---|---|---|---|
| Promotion work queue | `lib/work_queue.c` | ring `works`, `front`, `rear`, `size`, its own spinlock | `insert_work`, `contains_work`, `peak_work`, `remove_work`, `is_full`, `is_empty` |
| Mapping table | `lib/ssd_cache_mapping.c` | pool of entries with three bits (pending, dirty, alloc), lists free/clean/dirty, hash table, `mapping_lock` | `lookup_mapping`, `lookup_mapping_with_insert`, `set_dirty_after_write`, `remove_mapping`, and the `x_to_y` / `x_complete` pairs of the worker |
| Migration worker | `do_migration_work`, `mg_start` | its local variables, a DMA buffer | peak a work, then promote, else demote, else write back, then remove the work |
| Page I/O target | `lib/ssd_cache_target.c` | none | `_submit_pio`: look up, I/O on the block or on the file, `set_dirty_after_write` |
| Lifecycle API | `lib/ssd_cache_api.c` | `running`, `count`, `mg_worker`, the state lock | `init`, `link`, `unlink`, `exit`, `force_exit`, worker start and cancel |
| Spinlock | `lib/atomic.c` | one word in shared memory | init, lock, unlock |
| SPDK wrapper | `lib/spdk.c` | the controller, namespace and queue pairs of the process | `read`/`write`/`trim`/`readv`/`writev`, completion by polling |
| Shared memory | `lib/shm.c` | the segment and its name | alloc, link, unmap, unlink |
| Page I/O list | `lib/pio.c` | a linked list of buffers | create, append, free |
| fio engines, examples | `fio/`, `examples/`, `testing.c` | - | callers of the API |

**Interactions.** Users and worker share the mapping (`mapping_lock`) and the
queue (its own lock, taken inside `mapping_lock` by the users and alone by the
worker). A user that misses queues a work and goes to the file. The worker takes
the oldest work; with a free block it promotes the page, otherwise it spends the
round on making room: it demotes the least recently used clean block if more
than half of the blocks are clean, else writes the oldest dirty block back. The
work leaves the queue in each case. A whole-page write of a page that is neither
cached nor queued takes a free block at once and leaves it dirty.

**What is hard.**
* Every migration is a chain of critical sections with milliseconds of device
  I/O between them. The entry being moved is on no list but (demotion,
  writeback) still hashed, so users hit it and dirty it meanwhile.
* Every user I/O runs on a block number obtained under a lock that is no longer
  held.
* Two parties insert keys into the hash table; the work queue is the interlock.
* The functions choose the list to unlink from by the bits of the entry alone.
* Copies fail half way; files and SPDK submissions report errors.
* Processes start, link, exit and die in any order around one segment.

`PROJECT.json` lists each such hazard at its line with the property that covers
it, or the reason why none does.

**What makes each component correct.**
* *Work queue:* a bounded FIFO without duplicates; the head is stable between
  `peak_work` and `remove_work`; it keeps draining.
* *Mapping:* each block is in exactly one place; its bits and the hash table agree
  with that place; a key has at most one block.
* *Worker:* the state annotations at the completion functions
  (`!h, !q, a -> h, q, a` ...) hold; no round is spent for nothing; a missed page
  is eventually cached where that is possible.
* *Target and data:* an I/O reaches the block of its own key; an acknowledged write is
  readable until it is overwritten, in the cache or in the file.
* *Lifecycle:* the worker serves as long as a user is linked, a user linked is a
  user counted, `exit` terminates, no acknowledged write is lost by it.
* *Pure parts:* the scatter-gather walk visits each byte once; a request stays
  inside its cache block; file offsets do not wrap.
* *Pointers:* a queue reads the same from both ends and its count is its length; an
  entry is found under its key as long as it is hashed.

## 2. Modules

```
WorkFifo  <--refines--  WorkQueue  <--EXTENDS--  MCWorkQueue, WorkQueue_proof
    ^
    | INSTANCE (and refined)
 Mapping  <--EXTENDS--  MCMapping, Mapping_proof  <--EXTENDS--  MappingFit_proof
    ^  ^                                 ^
    |  |                                 +--EXTENDS--  DataPath_proof
    |  +--EXTENDS--  DataPath  <--EXTENDS--  MCDataPath, DataPath_proof
    | INSTANCE (and refined)
 PointerTable  <--EXTENDS--  MCPointerTable, PointerLists_proof  <--EXTENDS--  PointerTable_proof
                                               | INSTANCE
                                               v
                                             Mapping_proof

 Lifecycle  <--EXTENDS--  MCLifecycle, Lifecycle_proof
 IOPath     <--EXTENDS--  MCIOPath, IOPath_proof
```

* **WorkFifo** is the abstract queue: a sequence, `Insert` when there is room
  and the work is new, `Remove` of the head.
* **WorkQueue** is the ring of `work_queue.c`. `insert_work`, `peak_work` and
  `remove_work` are one action each, as each runs under the queue lock; a refused
  call changes nothing and is a stutter. `peaked` is the local copy that
  `do_migration_work` holds between its two calls. The initial state is
  zero-filled shared memory: nothing in `lib/` calls `init_work_queue`. Works are
  model values. `Contents` reads the ring as a sequence, the refinement mapping.
* **Mapping** has the mapping table, the worker and the users in one state
  machine, and uses `WorkFifo` where the code uses the ring. That step is justified by
  the refinement of WorkQueue. The comparison by prefix of `contains_work` is the
  relation `PathPrefix`.
* **DataPath** extends Mapping with what blocks, files and the DMA buffer hold.
* **PointerTable** is the mapping table on links, counters, buckets and chains;
  Mapping is its abstract specification.
* **Lifecycle** has the segment, its name, the processes and the migration threads.
* **IOPath** follows one request from its page list to its bytes.

### Mapping

| State | Code |
|---|---|
| `entry[e]` | `es.entrys[e]`: the key and the bits of `param` |
| `free`, `clean`, `dirty` | `ea.free`, `clean`, `dirty` as sequences, head first |
| `table` | the entries reachable from `table.buckets` |
| `wq` | `mapping.wq`, oldest first |
| `worker` | where `do_migration_work` is, its key, cblock, `success` and the migration type |
| `client[c]` | where a user's `submit_pio` is, its request and the cblock it was given |
| `corrupt` | an `l_del` was applied to an entry that is on no list |

| Action | Code |
|---|---|
| `LookupHit` | the hit branch of both look-up functions |
| `LookupMiss` | the miss branch of `lookup_mapping` |
| `InsertQueued`, `InsertNoRoom`, `InsertDirty` | the three miss branches of `lookup_mapping_with_insert` |
| `CacheIO`, `OriginIO` | `read_cache`/`write_cache` up to `set_dirty_after_write`; `read_origin`/`write_origin` |
| `set_dirty_after_write`, `remove_mapping` | the functions of that name |
| `promotion_free_to_clean`, `demotion_clean_to_free`, `writeback_dirty_to_clean` | the functions of that name when they return true |
| `PromotionRefused`, `DemotionRefused`, `WritebackRefused` | the same when they return false |
| `MgRead`, `MgWrite`, `MgTrim` | the two halves of a copy in `mg_start`, and the trim |
| `promotion_complete`, `demotion_complete`, `writeback_complete` | the functions of that name, with `success` true or false |
| `peak_work`, `remove_work` | the calls at 534 and 551 |

`"OVERWRITE"` is a write for which `optimizable()` holds (a whole aligned cache
page), `"WRITE"` any other. A `DISCARD` is one action, since
`discard_pio` does nothing but call `remove_mapping`. `IOFaults` says whether
opens, reads, writes and SPDK submissions may fail.

**Where the model stops.** When `remove_mapping` unlinks an entry that the
worker has already taken off its queue, `l_del` follows stale `prev` and `next`
and `nr_elts` is decremented once too often. Which lists result depends on what
happened to the neighbours. The model records `corrupt` and takes no further
step; runs with `DISCARD` therefore say `CHECK_DEADLOCK FALSE`. Every other run
checks deadlock.

**Atomicity.** A function that runs under `mapping_lock` is one action although it
takes the queue lock inside. Meanwhile only the worker can reach the queue, by
`peak_work` or `remove_work`, without `mapping_lock`. One queue call inside the
function is then simply before or after that step. `lookup_mapping_with_insert` makes
two (614, 620): a `remove_work` between them gives the result of one before both,
since a key that was not queued at the first call is not queued after another was removed, and the
worker's earlier steps, which need `mapping_lock`, are over by then.

### DataPath

Each action of Mapping that moves data is joined with what it does to the data; the
others (`Steer`) move none. Of a cache page one 4 KB page is watched, so a content
is `<<key, version>>`, or `NoData` for an unwritten or trimmed block and for a
page past the end of its file. DISCARD is left out: what a discarded page reads as is
not specified anywhere.

| State | Code |
|---|---|
| `ssd`, `file` | the cache device by cblock, the origin files by key |
| `buf` | `dma_buf` of `migration()` |
| `trims` | deallocate commands submitted by `trim_spdk` and not carried out |
| `io`, `valid`, `spoiled`, `fresh`, `writes` | ghosts, see below |

| Action | Code |
|---|---|
| `Submit` | `map_pio` up to the I/O |
| `WriteCache`, `ReadCache`, `CacheRefuses` | `writev_spdk`, `readv_spdk` on the block; either of them refused by SPDK |
| `WriteDone` | `set_dirty_after_write` |
| `WriteOrigin`, `ReadOrigin` | `write_origin`, `read_origin` |
| `Fetch`, `Store` | the two halves of a copy in `mg_start` |
| `Trim`, `TrimLands` | `trim_spdk` as called at 497, and the device some time later |
| `Evict`, `WrittenBack` | `demotion_complete`, `writeback_complete` |

*What is promised.* `valid[k]` are the versions that a read of `k` beginning now may
return: a write adds its version when it is submitted, and when it is acknowledged it
removes those that were valid when it began and that no write under way may still
store. A write that fails may leave the old or the new version.

*The races.* The code does not keep this promise in general. The module names every way in
which a page can lose it; a step that is one of them puts the page in `spoiled`:

| Race | Where |
|---|---|
| a user writes the file after the worker read it for a promotion | `StalePromotion`, mapping.c:483 |
| a user writes a block that was demoted and perhaps reused since its look-up | `WriteCache` of a `Moved` block, target.c:156 |
| a user reads a block that was demoted and perhaps reused since its look-up | `ReadCache` of a `Moved` block, target.c:156 |
| a user reads a block between its insertion and its first write | `MisplacedRead`, mapping.c:629 |
| the only write that could fill an inserted block is refused, and the block stays in the table | `Abandoned`, mapping.c:629, target.c:29 |
| a demotion drops a write that has set, or is about to set, the dirty bit | `Evict`, mapping.c:420 |
| a writeback fails, and the block counts as clean | `WrittenBack`, mapping.c:446 |
| the trim of a demotion erases cblock 0 while it is in use | `TrimLands`, mapping.c:497 |
| a block is written back between its insertion and its first write | `FetchBlock`, mapping.c:629 |
| a promotion past the end of the file takes the old content of the buffer | `FetchFile`, mapping.c:483 |
| a `pwrite` of a writeback stops short, and the block counts as clean | `StoreFile`, mapping.c:513 |
| a command that the device failed counts as done | `WriteCache`, `ReadCache`, `FetchBlock`, `StoreBlock`, spdk.c:23, 216 |

The properties say that this list is complete: no other interleaving loses or mixes data, no other
read returns what was not valid, and one race does not harm a page that was not part of it. They say
nothing of a page once it is in `spoiled`: each race is a defect that the code leaves open, and naming
it is not a proof that it happens often or seldom. No read is excepted. Where a read would find an inserted
block that nobody has filled, either the write that will fill it is under way
(`BeingFilled` in `NewReadsValid`), and a read that overtakes it puts the page in `spoiled`, or the page is
in `spoiled` already. `ReadsValid` speaks of every read at the moment it is answered.

### PointerTable

`t` is the part of `mapping` in shared memory: `t.es[e]` an entry with its three links and three
bits, `t.list[l]` a queue descriptor, `t.buckets`, `t.nr_allocated`. `l_add_head` ...
`h_remove` are operators from table to table, line by line those of
`ssd_cache_mapping.c` (36-315), and the functions under `mapping_lock` are actions made of
them. `Listed(l)` follows the `next` links from the head, `Hashed` the chains of all buckets: these are
Mapping's sequences and its set, and `Bits` is an entry without its links. `Walk` makes at most as many
steps as there are entries, so that it is defined on any links, circular ones included. The three `x_complete` functions are three actions made of `unpended` and `completes`.
`hash_32` is any function from keys to buckets. Steps that do not touch the
table are Mapping's own. The links that an entry keeps when it leaves a queue are
kept, so that a wrong `l_del` would follow them as the code does.

### Lifecycle

One action per access to the segment. `name` is what `SHM_CACHE_NAME` refers to,
`seg[s]` the memory of a segment (`running`, `count`, the lock word,
`mg_worker`), `proc[p]` where a process is, the segment its `shared_cache` points to and the
register between the load and the store of `count++`. A segment without name and mappings is
freed; a segment that is mapped outlives its name, as POSIX has it.

| Action | Code (`ssd_cache_api.c`) |
|---|---|
| `force_exit_ssd_cache`, `CallInit`, `alloc_shm` | 208-212 with `shared_cache` still NULL; 100-104 |
| `Check` ... `ClearCount` | 105-134: running check and what can fail, table and worker, lock and `running`, `count = 0` |
| `link_shm`, `LinkCheck`, `LockAndLoad`, `LinkStore` | 138-152 |
| `CallUnlink`, `LockAndLoad`, `UnlinkStore` | 155-173 |
| `CallExit`, `Look`, `LookAgain` | 176-194: the loop that waits for the users |
| `Stop`, `Join`, `Unmap` | 39-52, 197-205 |
| `Migrate`, `Cancelled` | `migration()` and where `pthread_cancel` may end it |
| `Crash` | a process that dies between any two of these |

The ghosts `lost` and `scars` record what went wrong with a segment ("renamed": its name was
taken away, "twice": two processes initialise it, and so on); each
property says what still holds, and which of these it cannot survive.

### IOPath

One request: `create_pio`/`append_pio` build the list, `NoTransfer` refuses it,
`map_to_origin` does the file I/O, `map_to_cache` starts the device I/O. The driver, which is
external, cuts the request into commands at any sector (`reset_sgl_fn` chooses the length) and
fetches segments with `next_sge_fn` until the command is complete. `moved` and
`filed` are pairs (byte of the device or file, byte of a buffer). File offsets are
computed modulo `OFFSET_MOD` as in an `unsigned int`.

## 3. Runs

| Run | Instance | Shows |
|---|---|---|
| `work_queue` | 4 slots, 4 works | type, count = cursors, no duplicates, stable head, refinement of WorkFifo with its fairness, every work consumed |
| `mapping` | 2 blocks, 3 pages, 2 users, ring of 3, READ/WRITE/OVERWRITE, faults | the structural invariants, unique keys, queue as interlock, completion annotations, progress of each round; the mapping uses the queue as WorkFifo says, and keeps draining it |
| `mapping_fit` | 3 blocks, 3 pages, 2 users, ring of 4, no faults | nothing is evicted: a returned block stays the block of its key, and a page whose work is queued ends up cached |
| `mapping_discard` | 2 blocks, 3 pages, 1 user, all requests, faults | structure holds until a DISCARD of a block in flight; nothing else breaks it |
| `mapping_dirtied` | as `mapping`, no faults | **violated**: a block of another page is marked dirty before it is hashed (finding) |
| `cache_data` | 1 block, 2 pages (one past the end of its file), 2 users, 2 writes, 1 trim on its way, faults | a page outside the named races holds what was last written wherever a read would be sent, each read returns what was valid since it began, a clean block is in its file |
| `pointer_table` | 3 blocks, 4 pages, 3 of them in one bucket, 1 user, overwrites and discards, faults | links, counts and chains hold together; PointerTable implements Mapping |
| `lifecycle` | 2 servers, 2 users, 2 segments, 1 death | users counted, users served, the name leads to the server, one worker for the device, exit ends |
| `lifecycle_admin` | same | **violated**: the count leaves the admin out (finding) |
| `io_path` | pages of 4 bytes, 4 in a cache page, sectors of 1, 2, 4 bytes, 2 blocks, offsets modulo 64 | each byte in place for every cut, requests inside their block, overwrites fill it, users and worker agree on the file |
| `file_offset` | same | **violated**: offsets wrap (finding) |
| `mapping_complete` | as `mapping_discard`, no faults | **violated**: a completion meets an entry that was discarded (finding) |

**Bounds and why they are enough.** Two blocks and three pages make every list
reach empty and full, leave a page outside the cache, and let a block be freed
and reused for another page; with two blocks "more than half are clean" means
both, with three it means two. Two users give the races of two look-ups, of a
look-up and a pending `set_dirty_after_write`, and of each with the worker. A
ring of 3 (two usable slots) fills and drops a work. A ring of 4 and four works
wraps at every offset. No counter is unbounded, so no state constraint is
needed. Runs with liveness properties use no symmetry.

`cache_data` has one block, which is block 0, the one that is always trimmed, and
two pages, so that the block changes hands between any two steps of a user; `MaxWrites` = 2 is the
least with which an old version can come back over a newer one, and `MaxTrims` = 1 suffices for a trim
that lands at any later moment. With two blocks and three pages, one write and no
faults the invariants hold as well. The model stops when every page is spoiled
(`DataNext`), where nothing is promised any more: hence `CHECK_DEADLOCK FALSE`, and
`MaxWrites` stops it too.
`pointer_table` has three keys in one bucket, so an entry is first, in the middle and last of a
chain of three, and three blocks, so the same holds for the queues; `UINT_MOD` = 8 is past any
count, and a count that wraps below zero shows. Keys of a bucket are symmetric; the refinement is an
action property, which symmetry respects. It stops where Mapping does.
In `lifecycle` a process lives once: it initialises and exits, or links and unlinks, and is gone
(`CHECK_DEADLOCK FALSE`: everybody may be gone). Two servers are the least for two inits at a time and for
a server that replaces another; two segments let the old one live on beside the new; two users
race on the count; `COUNT_MOD` = 4 lets the unsigned count wrap below zero.
In `io_path` the powers of two are scaled (32 KB, 4 KB and 512 B to 16, 4, 1 to 4 bytes), which keeps every
case of the shifts: several sectors to a page and one, and a driver that cuts inside a page. `PageIndexes` lie
on both sides of the wrap at 16 pages. The proofs of section 4 remove the bounds for the
safety properties of every module.

**Fairness.** *Worker:* `migration` loops for ever and nothing it does waits for
another party's choice: the spinlocks protect short loops and the devices answer,
so the worker's next step is weakly fair. Weak fairness suffices, as its
next step stays enabled until it is taken. *Users:* a submitted request proceeds
(weak fairness of `Proceed`), but nobody has to submit one: there is no fairness
on `Request` and on DISCARD. In WorkQueue only the consumer is fair; producers
may stop. Starvation of a spinner on an unfair spinlock is outside the model.
The assumption does not hold after a process died inside a critical section; this is
modelled in Lifecycle.

*Lifecycle:* a process that lives goes on with the call it is in (`AdminStep`,
`UserStep`); nothing obliges it to make the next call, to leave, or not to die. A cancelled
thread ends: it comes to `pthread_testcancel`, `nanosleep`, or a system call that is a
cancellation point. A round that promotes or writes back opens a file; rounds that do neither only demote,
and there are only so many clean blocks. A spinner is fair only as its process is: it makes
progress when the lock is free, and a lock that others take again and again may starve it, but nobody
takes the state lock infinitely often except the loop of `exit` itself.

**Liveness properties.** `WorkConsumed`, the fairness part of `FifoSpec` and
`QueueSpec`, `ExitEnds`, and `MissIsPromoted`. The last holds only where the cache is as
large as the working set and I/O succeeds: otherwise a round for a key can be
spent on a demotion or writeback, its work is removed, and the freed block can
be taken by another key each time.

**Findings.** See `PROJECT.json`, which quotes the line that each contradicts.
* Mapping: `set_dirty_after_write` checks only that the entry is allocated; `remove_mapping`
  ignores the pending bit.
* Target: file offsets are computed in 32 bits.
* Lifecycle: the count leaves the admin out.

The properties of the passing runs hold beside these: `CountIsUsers` says what the count is in the code (the users,
without the admin), `OneWorker` and `Served` hold until one of the accidents they name happens. Where a hazard of `PROJECT.json` is
itself one of the races of `DataPath` or of the accidents of `Lifecycle`, the properties listed for it show how far its
damage reaches, and its note says so.

Met while modelling, and not given a run:
* `is_full` compares with `MAX_WORKQUEUE_SIZE`, which the count never reaches (`TypeOK` of WorkQueue),
  so it is never true (`work_queue.h:38` says when it should be);
* `contains_work` answers true for a path that a queued path is a prefix of (`work_queue.h:63`);
* the races in section 2; of the last of them, a command that failed, `spdk.h:70` and `105` say otherwise ("0, if success");
* `write_origin` and `read_origin` return 1 for a complete transfer as for an error (target.c:76, 101), although `target.h:16`
  promises 0 for success;
* `init_ssd_cache` clears the count after users may link (the scar "wiped"), and the lock that `cache.h:78` says protects init
  does not ("twice");
* `force_exit_ssd_cache` in a process without the segment ends nothing (`examples/8_command_line.c:57`): the old server and its
  worker go on beside the new ones ("renamed");
* the engine of the fio manager builds nine nodes for eight pages (`ssd-cache-manager.c:54`).

## 4. Proofs

`WorkQueue_proof` (any ring of at least two slots, any works):
the four invariants `TypeOK`, `SizeMatchesCursors`, `NoDuplicateWork`,
`PeakedIsHead` are inductive together (`Inv`). `NoDuplicateWork` needs the count
to know that the slot at `rear` is not live; `PeakedIsHead` needs that an insertion
never writes the slot at `front`. From `Inv`, `RingIsFifo` proves that the initial
state and each step map to WorkFifo: `insert_work` to `Insert` (`Contents` grows by one
at the end), `remove_work` to `Remove`, `peak_work` to a stutter.

`Mapping_proof` (any blocks, keys, users, requests, with or without faults):
* `IInv` is the inductive invariant. It joins `TypeOK`, the agreement of the
  worker's program counter with its local variables, and, as long as `~corrupt`,
  `Struct`: `Partition`, `BitsMatchQueues` and `HashedIsAllocated`. Each
  of the three needs the others: that `set_dirty_after_write` unlinks from the right
  list follows from the bits, that the bits stay right follows from the
  partition, and which entries may be hit from the hash table. The three are about
  injective sequences, so the module first proves what `l_del`, head, tail and
  append do to the set and to injectivity of a sequence.
* `KInv` adds `UniqueKeys` and `QueuedIsNotCached`. Neither is inductive alone:
  the worker promotes a key that it looked up long ago, and this is safe only because
  the key has stayed at the head of the queue, which keeps `InsertDirty` away.
* `RoundInv` strengthens `RoundMakesProgress`: once the worker has found no free
  entry, the free list stays empty until it acts, since without DISCARD only the
  worker frees blocks. So all blocks are clean or dirty, and fewer than all are
  clean.
* `TypeCorrect`, `KeysUnique`, `QueuedNotCached`, `StructureIntact` and
  `OnlyDiscardCorrupts` hold with every kind of request; `BlocksPartitioned`,
  its parts `BitsNameTheQueue` and `HashedAreAllocated`, `MigrationStates` and
  `RoundsProgress` assume that there is no DISCARD. The run
  `mapping_complete` shows that the assumption is needed.

`MappingFit_proof`:
* `HitsStay`, for a cache with a block for every page (`Fits`: there are finitely many keys and no more
  than blocks) and no DISCARD, with or without faults: `FitInv` adds to `IInv` and `KInv` that the
  worker does nothing but promote. It could demote or write back only
  when no entry is free. Then each block would hold a page of its own, none of them the one
  to be promoted, and there are not enough others; the lemma `RoomToPromote` counts them.
* `QueueRefinement`: the initial states and all steps of users and worker map to WorkFifo. What it needs
  is that users insert only what `insert_work` would accept.

`PointerLists_proof` and `PointerTable_proof` (any pool, keys, hash function, users and requests, with or without
faults) show that the links carry the lists of Mapping:
* `PointerLists_proof` is about any table. `Rep(u, S, C)` says that table `u` holds the queues `S` and the chains
  `C`: the `next` links lead from the head through each sequence (`Leads`), the `prev` links back
  from the tail (`LeadsBack`), the count is its length, the queues are disjoint, each chain holds keys of its
  bucket, and `nr_allocated` counts the entries in use. One lemma for each function says what it makes
  of the lists: `AddHeadRep`, `AddTailRep`, `DelRep`, `InsertRep`, `LookupRep`, `RemoveRep`, `AllocRep`, `FreeRep`.
  What a function writes is stated first, one column of the array at a time (`SetNext` ... `DelEffect`);
  the lists then need only the columns that are theirs. That `Walk` reads the sequence that
  the links lead through (`WalkLeads`) is again an induction over sets.
* The invariant `IInv` of `PointerTable_proof` is that the table represents some queues and chains, and that the
  abstract table satisfies `IInv` and `KInv` of `Mapping_proof`. Neither half is inductive. An `l_del` is
  right only for an entry on that very queue, which the bits name only by `BitsMatchQueues`;
  `h_remove` takes the first entry of a key out of its chain, which is the right one only by
  `UniqueKeys`; and that a step keeps these is known of Mapping's steps only, so each step is
  mapped before it can be followed. `SoundStep` does this action by action. The initial table is the
  one that `l_add_tail` builds entry by entry (`PoolsRep`).
* From `IInv` follow `TypeCorrect`, `QueuesLinked` and `ChainsFormed`; from the step lemma, `Refinement`: all of
  `ImplementsMapping`. What Mapping_proof shows of the queues and the hash table is thereby shown of the links.
* All claims end at the DISCARD of a block in flight, as those of Mapping do; up to there DISCARD is included.
  That the lists read off the links satisfy `Rep` was checked by TLC on the instance of `pointer_table` before
  the proof.

`DataPath_proof` works on top of `IInv` and `KInv`, since each step of DataPath is a step of Mapping or leaves
it alone (`Underlying`). The invariant `DInv` has, besides the types (`DTypeOK`):
* `RequestsOK`, for all requests: versions under way differ from each other; one that has not
  reached the device or a file is nowhere (`UnseenOK`), and it remains valid and acceptable to
  the reads under way (`PromiseOK`). Without this, an acknowledged write could make a version invalid
  that another write is still about to store.
* `KeyOK(k)`, for each page that is not spoiled. `NewReadsValid` alone is not
  inductive: a promotion or a writeback makes the content of one place that of another later on. So the
  invariant says of each block that it was written since the file was, or is being written back, or agrees
  with the file (`BlockOK`); of the copy under way that it is still that of the file
  (`PromotionOK`); of each read that whatever it finds where it was sent is valid for it, unless the read is misplaced (`ReaderOK`);
  of each inserted block that nobody has filled that the write which will do so is under way (`FilledOK`);
  and of each write that is done but not marked dirty that its block is still that of the page (`WriterOK`).

A step changes the data of one page. Most of the proof is that nothing is disturbed for the
others: a block has one key, and a key one block (`UniqueKeys`).
From `DInv` follow `DataTypeCorrect`, `NewReadsAreValid`, `CleanBlocksAreInFile` and, by one more step, the action property
`ReadsAreValid`: the list of races in section 2 is complete for every instance and not only for that of TLC.

`Lifecycle_proof` (any servers, users, segments and deaths): `IInv` has one part for each thing that can be
wrong with a segment, and each is claimed only as long as none of the accidents happened that break
it (`SegOK`): the memory of a segment goes with its last reference (`FreshOK`), `running` stays
(`RunningOK`), one server is in service (`OwnerOK`) and has the name (`NameOK`), the lock excludes
(`LockOK`), a register holds what the count is (`TmpOK`), the count is that of the users (`CountOK`), the
worker lives until its server stops it (`WorkerOK`), and somebody will look at the count again while a user
is linked (`ServedOK`). `OneWorker` needs that a server can only start when the name is free or leads to a
segment not in service; `CountIsUsers` needs the lock for the two halves of `count++`, and that fewer users exist than
the count can hold, which is why the set of users must be finite.

`IOPath_proof` (any page size, any number of pages to a cache page and any sector sizes that are related by powers of
two, any page index, any cut of the driver): `IInv` says that the bytes moved are the first `done` bytes
of the request, each at its place, and that the walk stands at byte `done` as long as the command needs
more (`DeviceOK`). `EveryByteInPlace` is not inductive, because it does not say where the walk stands.
What `LOG2` and the loop of `reset_sgl_fn` compute are statements about recursive functions
(`LogExact`, `SkipExact`). They are proved by induction over sets of numbers: the library
proves that inclusion of finite sets is well founded, hence a set of numbers has a least element
(`Least`) and one that holds 0 and all successors is `Nat` (`Induction`). Powers of
two are numbers of subsets (`PowNext`).

Assumptions: `WorkQueueAssumption`, `MappingAssumption`, `PointerAssumption`, `TableAssumption` (that of Mapping for the
table read off the links), `DataPathAssumption`, `LifecycleAssumption` and
`IOPathAssumption`, which TLC evaluates in every run of their modules: positive sizes, powers of two where the code
shifts, prefixes are pairs of keys, null values are not values, keys hash to buckets, more counter values than
blocks, finitely many users and fewer than the count holds.

**Only model-checked:** the liveness properties and the fairness half of the refinements
(liveness and ENABLED are out of the prover's reach).

## 5. Not modelled, and why

* Contents after a DISCARD: no doc says what a discarded page reads as, and a DISCARD of a
  block in flight breaks the lists (`mapping_complete`).
* What the table holds after that: the models stop there. In the code the block ends up twice on
  a list, a list can lose its tail, and `nr_elts` can wrap.
* Statistics (`hit_time` ...), console output, `info_*`, `print_pio`: no
  property depends on them.
* Device probing, environment and queue pairs in `spdk.c`: calls of a vendor library. Two threads of a
  process that share the queue pair without a lock are undefined there.
* Want of memory or descriptors: `malloc`, `mmap`, `ftruncate` that fail, the descriptor that
  `mg_start` leaks when `pread` or `pwrite` fails.
* Return codes of `submit_pio`: no caller in the repository looks at them.
* `force_exit_ssd_cache` in a process that holds the segment: its callers (examples 5, 6 and 8, `testing.c` and
  `myfio_setup` of the fio manager) all call it before `init_ssd_cache`, when `shared_cache` is NULL.
* The fio engines and the remaining examples: glue around the API.
* The periodic writeback (`do_writeback_work`, `wb_worker`), which is commented out.
* Paths longer than `MAX_PATH_SIZE`: callers are assumed to respect the bound
  that `config.h:23` states.

## 6. Plan

1. `WorkFifo`, `WorkQueue`, `Mapping` with runs and proofs: done.
2. `DataPath`, `PointerTable`, `Lifecycle`, `IOPath` with runs: done.
3. Proofs of `WorkQueue`, `Mapping` with `HitIsStable` and its use of the queue, `Lifecycle`, `DataPath` and `IOPath`:
   done.
4. Proofs of `PointerTable`, with the refinement of Mapping step by step: done.
