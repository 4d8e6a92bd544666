------------------------------ MODULE Mapping ------------------------------
(***************************************************************************)
(* The mapping table of the cache (lib/ssd_cache_mapping.c) under the I/O  *)
(* of its users (lib/ssd_cache_target.c) and the migration worker          *)
(* (do_migration_work): which cache block holds which cache page, on which *)
(* queue each block is, and what the worker is moving.                     *)
(*                                                                         *)
(* Atomicity.  Every function of the mapping runs under mapping_lock and   *)
(* is one action.  A user's request is three steps: look up, do the I/O    *)
(* without the lock, and for a write mark the block dirty.  A migration is *)
(* a chain of steps between which the lock is free.  insert_work and       *)
(* contains_work take the queue's own lock inside mapping_lock; the worker *)
(* can only remove works meanwhile, so they are part of the same action.   *)
(*                                                                         *)
(* Data.  A (full_path_name, cache_page_index) pair is a key.  The         *)
(* intrusive lists are sequences of entries and the hash table is the set  *)
(* of the entries chained in it; block contents are not in this module.    *)
(* The counters that are only printed (hit_time, promotion_time...) are    *)
(* left out.                                                               *)
(***************************************************************************)
EXTENDS Naturals, Sequences, FiniteSets, SequencesExt

CONSTANTS
  CACHE_BLOCK_NUMBER,  \* entries in the pool, cblocks on the device
  Keys,                \* cache pages the users address
  PathPrefix,          \* <<k, l>>: same page index, k's path a prefix of l's
  MAX_WORKQUEUE_SIZE,
  Clients,             \* threads and processes that submit page I/O
  Ops,                 \* what they submit
  IOFaults,            \* BOOLEAN: may a device or file operation fail
  NoKey, NoBlock       \* no key, no cblock

\* OVERWRITE is a WRITE of a whole aligned cache page, optimizable() in the
\* code, and WRITE any other one.
AllOps == {"READ", "WRITE", "OVERWRITE", "DISCARD"}

ASSUME MappingAssumption ==
  /\ CACHE_BLOCK_NUMBER \in Nat \ {0}
  /\ PathPrefix \subseteq Keys \X Keys
  /\ MAX_WORKQUEUE_SIZE \in Nat /\ MAX_WORKQUEUE_SIZE >= 2
  /\ Ops \subseteq AllOps
  /\ IOFaults \in BOOLEAN
  /\ NoKey \notin Keys
  /\ NoBlock \notin 0 .. CACHE_BLOCK_NUMBER - 1

Entries == 0 .. CACHE_BLOCK_NUMBER - 1

VARIABLES
  entry,    \* es.entrys: the key and the three bits of param of each entry
  free,     \* ea.free
  clean,    \* clean queue, least recently used first
  dirty,    \* dirty queue
  table,    \* the entries chained in the hash table
  wq,       \* the promotion work queue, see WorkFifo and WorkQueue
  worker,   \* the migration worker: where it is, and its local variables
  client,   \* the same for each user
  corrupt   \* an ilist operation was applied to an entry not on that list

lists == <<free, clean, dirty>>
vars == <<entry, lists, table, wq, worker, client, corrupt>>

WQ == INSTANCE WorkFifo
        WITH Works <- Keys, Capacity <- MAX_WORKQUEUE_SIZE - 1, fifo <- wq

-----------------------------------------------------------------------------
\* l_del of an entry that is on list s.
l_del(s, e) == RemoveAt(s, CHOOSE i \in DOMAIN s : s[i] = e)

\* The queue that "entry_get_dirty(e) ? &dirty : &clean" selects.
queue_of(e) == IF entry[e].dirty THEN dirty ELSE clean

\* That selection with l_add_tail and l_add_head.
add_tail(e) == IF entry[e].dirty THEN dirty' = Append(dirty, e) /\ UNCHANGED clean
                                 ELSE clean' = Append(clean, e) /\ UNCHANGED dirty

add_head(e) == IF entry[e].dirty THEN dirty' = <<e>> \o dirty /\ UNCHANGED clean
                                 ELSE clean' = <<e>> \o clean /\ UNCHANGED dirty

\* h_lookup: the entry of key k, if any.  Moving it to the front of its hash
\* chain does not change the set.
h_lookup(k) == {e \in table : entry[e].key = k}

contains_work(k) == \E w \in WQ!Queued : w = k \/ <<w, k>> \in PathPrefix

\* As if the queue never were full (mutant).
insert_work_unbounded(k) == \/ k \notin WQ!Queued /\ wq' = Append(wq, k)
                            \/ k \in WQ!Queued /\ UNCHANGED wq

insert_work(k) == \/ WQ!Insert(k)
                  \/ ~WQ!Accepts(k) /\ UNCHANGED wq

-----------------------------------------------------------------------------
IdleClient == [pc |-> "idle", op |-> "NONE", key |-> NoKey, blk |-> NoBlock]

IdleWorker == [pc |-> "idle", type |-> "NONE", key |-> NoKey, blk |-> NoBlock, ok |-> TRUE]

\* init_mapping on zero-filled shared memory; the free list holds every block
\* in order.
Init ==
  /\ entry = [e \in Entries |->
                [key |-> NoKey, pending |-> FALSE, dirty |-> FALSE, alloc |-> FALSE]]
  /\ free = [i \in 1 .. CACHE_BLOCK_NUMBER |-> i - 1]
  /\ clean = <<>> /\ dirty = <<>> /\ table = {} /\ wq = <<>>
  /\ worker = IdleWorker
  /\ client = [c \in Clients |-> IdleClient]
  /\ corrupt = FALSE

-----------------------------------------------------------------------------
(* Requests of the users: submit_pio and what it calls. *)

goes(c, pc, op, k, e) ==
  client' = [client EXCEPT ![c] = [pc |-> pc, op |-> op, key |-> k, blk |-> e]]

\* A hit, in lookup_mapping and in lookup_mapping_with_insert alike.  A block
\* of the clean queue becomes the most recently used one.
LookupHit(c, op, k) ==
  /\ client[c].pc = "idle"
  /\ op \in Ops \ {"DISCARD"}
  /\ \E e \in h_lookup(k) :
       /\ clean' = IF ~entry[e].pending /\ ~entry[e].dirty
                   THEN Append(l_del(clean, e), e) ELSE clean
       /\ goes(c, "cache_io", op, k, e)
  /\ UNCHANGED <<entry, free, dirty, table, wq, worker, corrupt>>

\* A miss in lookup_mapping: queue the promotion, go to the origin device.
LookupMiss(c, op, k) ==
  /\ client[c].pc = "idle"
  /\ op \in Ops \cap {"READ", "WRITE"}
  /\ h_lookup(k) = {}
  /\ insert_work(k)
  /\ goes(c, "origin_io", op, k, NoBlock)
  /\ UNCHANGED <<entry, lists, table, worker, corrupt>>

InsertMiss(c, k) ==
  /\ client[c].pc = "idle"
  /\ "OVERWRITE" \in Ops
  /\ h_lookup(k) = {}

\* lookup_mapping_with_insert finds the key waiting for its promotion.
InsertQueued(c, k) ==
  /\ InsertMiss(c, k)
  /\ contains_work(k)
  /\ goes(c, "origin_io", "OVERWRITE", k, NoBlock)
  /\ UNCHANGED <<entry, lists, table, wq, worker, corrupt>>

\* It finds no free entry.
InsertNoRoom(c, k) ==
  /\ InsertMiss(c, k)
  /\ ~contains_work(k)
  /\ free = <<>>
  /\ insert_work(k)
  /\ goes(c, "origin_io", "OVERWRITE", k, NoBlock)
  /\ UNCHANGED <<entry, lists, table, worker, corrupt>>

\* It takes a free entry, which is dirty and visible before its data is written.
insert_dirty(c, k) ==
  LET e == Head(free) IN
  /\ free # <<>>
  /\ free' = Tail(free)
  /\ entry' = [entry EXCEPT ![e] =
                 [key |-> k, pending |-> FALSE, dirty |-> TRUE, alloc |-> TRUE]]
  /\ table' = table \cup {e}
  /\ dirty' = Append(dirty, e)
  /\ goes(c, "cache_io", "OVERWRITE", k, e)
  /\ UNCHANGED <<clean, wq, worker, corrupt>>

\* As if the work queue were not consulted (mutant).
InsertDirty_unchecked(c, k) == InsertMiss(c, k) /\ insert_dirty(c, k)

InsertDirty(c, k) == InsertMiss(c, k) /\ ~contains_work(k) /\ insert_dirty(c, k)

\* The I/O to the cache device, with no lock held.  Only a write that
\* succeeded goes on to set_dirty_after_write.
CacheIO(c) ==
  /\ client[c].pc = "cache_io"
  /\ \/ /\ client[c].op # "READ"
        /\ client' = [client EXCEPT ![c].pc = "set_dirty"]
     \/ /\ client[c].op = "READ" \/ IOFaults
        /\ client' = [client EXCEPT ![c] = IdleClient]
  /\ UNCHANGED <<entry, lists, table, wq, worker, corrupt>>

\* The I/O to the origin file.
OriginIO(c) ==
  /\ client[c].pc = "origin_io"
  /\ client' = [client EXCEPT ![c] = IdleClient]
  /\ UNCHANGED <<entry, lists, table, wq, worker, corrupt>>

mark_dirty(e) ==
  /\ entry' = [entry EXCEPT ![e].dirty = TRUE]
  /\ IF entry[e].dirty
     THEN dirty' = Append(l_del(dirty, e), e) /\ UNCHANGED clean
     ELSE clean' = l_del(clean, e) /\ dirty' = Append(dirty, e)

\* As if the pending bit were not consulted (mutant).
set_dirty_after_write_no_pending_check(c) ==
  LET e == client[c].blk IN
  /\ client[c].pc = "set_dirty"
  /\ \/ ~entry[e].alloc /\ UNCHANGED <<entry, clean, dirty>>
     \/ /\ entry[e].alloc
        /\ entry' = [entry EXCEPT ![e].dirty = TRUE]
        /\ clean' = RemoveFirst(clean, e)
        /\ dirty' = Append(RemoveFirst(dirty, e), e)
  /\ client' = [client EXCEPT ![c] = IdleClient]
  /\ UNCHANGED <<free, table, wq, worker, corrupt>>

\* The block is the one the look-up returned; by now it may be on its way out
\* of the cache, free, or in use for another key.
set_dirty_after_write(c) ==
  LET e == client[c].blk IN
  /\ client[c].pc = "set_dirty"
  /\ \/ ~entry[e].alloc /\ UNCHANGED <<entry, clean, dirty>>
     \/ /\ entry[e].alloc /\ entry[e].pending
        /\ entry' = [entry EXCEPT ![e].dirty = TRUE]
        /\ UNCHANGED <<clean, dirty>>
     \/ entry[e].alloc /\ ~entry[e].pending /\ mark_dirty(e)
  /\ client' = [client EXCEPT ![c] = IdleClient]
  /\ UNCHANGED <<free, table, wq, worker, corrupt>>

\* As if the entry stayed hashed (mutant).
remove_mapping_keeps_hashed(k) ==
  /\ "DISCARD" \in Ops
  /\ \E e \in h_lookup(k) :
       /\ entry' = [entry EXCEPT ![e].alloc = FALSE]
       /\ e \in ToSet(queue_of(e))
       /\ clean' = IF entry[e].dirty THEN clean ELSE l_del(clean, e)
       /\ dirty' = IF entry[e].dirty THEN l_del(dirty, e) ELSE dirty
       /\ free' = Append(free, e)
  /\ UNCHANGED <<table, wq, worker, client, corrupt>>

\* DISCARD.  l_del is applied to the queue that the dirty bit selects, also
\* when the worker has taken the entry off its queue; it then unlinks through
\* stale prev and next and decrements nr_elts once more.  What the lists hold
\* after that is not described here: the model stops.
remove_mapping(k) ==
  /\ "DISCARD" \in Ops
  /\ \E e \in h_lookup(k) :
       /\ table' = table \ {e}
       /\ entry' = [entry EXCEPT ![e].alloc = FALSE]
       /\ \/ /\ e \in ToSet(queue_of(e))
             /\ clean' = IF entry[e].dirty THEN clean ELSE l_del(clean, e)
             /\ dirty' = IF entry[e].dirty THEN l_del(dirty, e) ELSE dirty
             /\ free' = Append(free, e)
             /\ UNCHANGED corrupt
          \/ /\ e \notin ToSet(queue_of(e))
             /\ corrupt' = TRUE
             /\ UNCHANGED lists
  /\ UNCHANGED <<wq, worker, client>>

Request(c) ==
  \/ \E k \in Keys : \/ \E op \in Ops : LookupHit(c, op, k) \/ LookupMiss(c, op, k)
                     \/ InsertQueued(c, k) \/ InsertNoRoom(c, k) \/ InsertDirty(c, k)

\* The rest of a request once it is in the system.
Proceed(c) == CacheIO(c) \/ OriginIO(c) \/ set_dirty_after_write(c)

-----------------------------------------------------------------------------
(* The migration worker: do_migration_work, one step per critical section  *)
(* and per device or file operation.                                       *)

goto(pc) == worker' = [worker EXCEPT !.pc = pc]

start(type, e) ==
  worker' = [worker EXCEPT !.pc = IF type = "DEMOTION" THEN "mg_trim" ELSE "mg_read",
                           !.type = type, !.blk = e]

\* As if the work were removed before it is done (mutant).
peak_work_removes ==
  /\ worker.pc = "idle"
  /\ wq # <<>>
  /\ worker' = [worker EXCEPT !.pc = "promote", !.key = Head(wq)]
  /\ wq' = Tail(wq)
  /\ UNCHANGED <<entry, lists, table, client, corrupt>>

peak_work ==
  /\ worker.pc = "idle"
  /\ wq # <<>>
  /\ worker' = [worker EXCEPT !.pc = "promote", !.key = Head(wq)]
  /\ UNCHANGED <<entry, lists, table, wq, client, corrupt>>

\* As if the entry were hashed before its data is copied (mutant).
promotion_free_to_clean_hashed ==
  LET e == Head(free) IN
  /\ worker.pc = "promote"
  /\ free # <<>>
  /\ free' = Tail(free)
  /\ entry' = [entry EXCEPT ![e] = [key |-> worker.key, pending |-> TRUE,
                                    dirty |-> FALSE, alloc |-> TRUE]]
  /\ table' = table \cup {e}
  /\ start("PROMOTION", e)
  /\ UNCHANGED <<clean, dirty, wq, client, corrupt>>

\* Take a free entry for the key.  It is in no queue and not in the hash table
\* until promotion_complete, so the users keep missing.
promotion_free_to_clean ==
  LET e == Head(free) IN
  /\ worker.pc = "promote"
  /\ free # <<>>
  /\ free' = Tail(free)
  /\ entry' = [entry EXCEPT ![e] = [key |-> worker.key, pending |-> TRUE,
                                    dirty |-> FALSE, alloc |-> TRUE]]
  /\ start("PROMOTION", e)
  /\ UNCHANGED <<clean, dirty, table, wq, client, corrupt>>

\* As if the worker demoted although there is room (mutant).
PromotionRefused_with_room ==
  /\ worker.pc = "promote"
  /\ goto("demote")
  /\ UNCHANGED <<entry, lists, table, wq, client, corrupt>>

PromotionRefused ==
  /\ worker.pc = "promote"
  /\ free = <<>>
  /\ goto("demote")
  /\ UNCHANGED <<entry, lists, table, wq, client, corrupt>>

\* As if the halving were forgotten (mutant).
demotable_all == Len(clean) > CACHE_BLOCK_NUMBER

\* More than half of the blocks must be clean.
demotable == Len(clean) > CACHE_BLOCK_NUMBER \div 2

\* Take the least recently used clean block off its queue.  It stays in the
\* hash table, so the users still hit it.
demotion_clean_to_free ==
  LET e == Head(clean) IN
  /\ worker.pc = "demote"
  /\ demotable
  /\ clean' = l_del(clean, e)
  /\ entry' = [entry EXCEPT ![e].pending = TRUE]
  /\ start("DEMOTION", e)
  /\ UNCHANGED <<free, dirty, table, wq, client, corrupt>>

DemotionRefused ==
  /\ worker.pc = "demote"
  /\ ~demotable
  /\ goto("writeback")
  /\ UNCHANGED <<entry, lists, table, wq, client, corrupt>>

writable == dirty # <<>> /\ ~entry[Head(dirty)].pending

\* The dirty bit is cleared before the copy, so that a write arriving during
\* it sets the bit again.
writeback_dirty_to_clean ==
  LET e == Head(dirty) IN
  /\ worker.pc = "writeback"
  /\ writable
  /\ dirty' = l_del(dirty, e)
  /\ entry' = [entry EXCEPT ![e].pending = TRUE, ![e].dirty = FALSE]
  /\ start("WRITEBACK", e)
  /\ UNCHANGED <<free, clean, table, wq, client, corrupt>>

WritebackRefused ==
  /\ worker.pc = "writeback"
  /\ ~writable
  /\ goto("remove")
  /\ UNCHANGED <<entry, lists, table, wq, client, corrupt>>

\* mg_start: read the source (the file, or the cache device)...
MgRead ==
  /\ worker.pc = "mg_read"
  /\ \/ goto("mg_write")
     \/ IOFaults /\ worker' = [worker EXCEPT !.pc = "complete", !.ok = FALSE]
  /\ UNCHANGED <<entry, lists, table, wq, client, corrupt>>

\* ... and write the destination.
MgWrite ==
  /\ worker.pc = "mg_write"
  /\ \/ goto("complete")
     \/ IOFaults /\ worker' = [worker EXCEPT !.pc = "complete", !.ok = FALSE]
  /\ UNCHANGED <<entry, lists, table, wq, client, corrupt>>

\* A demotion only trims, and the result of trim_spdk is not looked at.
MgTrim ==
  /\ worker.pc = "mg_trim"
  /\ goto("complete")
  /\ UNCHANGED <<entry, lists, table, wq, client, corrupt>>

completes(type) == worker.pc = "complete" /\ worker.type = type

unpend(e) == entry' = [entry EXCEPT ![e].pending = FALSE]

\* As if the pending bit were not cleared (mutant).
promotion_complete_keeps_pending ==
  /\ completes("PROMOTION")
  /\ table' = table \cup {worker.blk}
  /\ add_tail(worker.blk)
  /\ goto("remove")
  /\ UNCHANGED <<entry, free, wq, client, corrupt>>

promotion_complete ==
  LET e == worker.blk IN
  /\ completes("PROMOTION")
  /\ \/ /\ worker.ok
        /\ unpend(e)
        /\ table' = table \cup {e}
        /\ add_tail(e)
        /\ UNCHANGED free
     \/ /\ ~worker.ok
        /\ entry' = [entry EXCEPT ![e].pending = FALSE, ![e].alloc = FALSE]
        /\ free' = Append(free, e)
        /\ UNCHANGED <<clean, dirty, table>>
  /\ goto("remove")
  /\ UNCHANGED <<wq, client, corrupt>>

\* As if the entry stayed hashed (mutant).
demotion_complete_keeps_hashed ==
  LET e == worker.blk IN
  /\ completes("DEMOTION")
  /\ entry' = [entry EXCEPT ![e].pending = FALSE, ![e].alloc = FALSE]
  /\ free' = Append(free, e)
  /\ goto("remove")
  /\ UNCHANGED <<clean, dirty, table, wq, client, corrupt>>

\* mg_start never fails for a demotion, so the failure branch is dead code.
\* The dirty bit that a write may have set meanwhile is not looked at.
demotion_complete ==
  LET e == worker.blk IN
  /\ completes("DEMOTION")
  /\ table' = table \ {e}
  /\ entry' = [entry EXCEPT ![e].pending = FALSE, ![e].alloc = FALSE]
  /\ free' = Append(free, e)
  /\ goto("remove")
  /\ UNCHANGED <<clean, dirty, wq, client, corrupt>>

\* As if the entry were not put back on a queue (mutant).
writeback_complete_off_queue ==
  /\ completes("WRITEBACK")
  /\ unpend(worker.blk)
  /\ goto("remove")
  /\ UNCHANGED <<lists, table, wq, client, corrupt>>

\* As if the dirty bit were cleared after the copy (mutant).
writeback_complete_clears_dirty ==
  LET e == worker.blk IN
  /\ completes("WRITEBACK")
  /\ entry' = [entry EXCEPT ![e].pending = FALSE, ![e].dirty = FALSE]
  /\ clean' = Append(clean, e)
  /\ goto("remove")
  /\ UNCHANGED <<free, dirty, table, wq, client, corrupt>>

\* Back to the queue that the dirty bit selects: the tail after a success, the
\* head after a failure.  The bit was cleared when the copy started.
writeback_complete ==
  LET e == worker.blk IN
  /\ completes("WRITEBACK")
  /\ unpend(e)
  /\ \/ worker.ok /\ add_tail(e)
     \/ ~worker.ok /\ add_head(e)
  /\ goto("remove")
  /\ UNCHANGED <<free, table, wq, client, corrupt>>

\* As if the newest work were removed (mutant).
remove_work_newest ==
  /\ worker.pc = "remove"
  /\ wq # <<>> /\ wq' = Front(wq)
  /\ worker' = IdleWorker
  /\ UNCHANGED <<entry, lists, table, client, corrupt>>

\* The work leaves the queue whatever became of it: after a demotion or a
\* writeback its key is not cached, and the next miss queues it again.
remove_work ==
  /\ worker.pc = "remove"
  /\ WQ!Remove
  /\ worker' = IdleWorker
  /\ UNCHANGED <<entry, lists, table, client, corrupt>>

Migrate ==
  \/ peak_work
  \/ promotion_free_to_clean \/ PromotionRefused
  \/ demotion_clean_to_free \/ DemotionRefused
  \/ writeback_dirty_to_clean \/ WritebackRefused
  \/ MgRead \/ MgWrite \/ MgTrim
  \/ promotion_complete \/ demotion_complete \/ writeback_complete
  \/ remove_work

-----------------------------------------------------------------------------
Next ==
  /\ ~corrupt
  /\ \/ Migrate
     \/ \E c \in Clients : Request(c) \/ Proceed(c)
     \/ \E k \in Keys : remove_mapping(k)

\* The worker and a request that has been submitted never wait for one another
\* for good: the spinlocks are held for a bounded number of instructions and
\* the devices answer.  Nobody has to submit anything.
Spec ==
  /\ Init /\ [][Next]_vars
  /\ WF_vars(~corrupt /\ Migrate)
  /\ \A c \in Clients : WF_vars(~corrupt /\ Proceed(c))

-----------------------------------------------------------------------------
EntryRecord == [key : Keys \cup {NoKey}, pending : BOOLEAN, dirty : BOOLEAN, alloc : BOOLEAN]

WorkerRecord ==
  [pc : {"idle", "promote", "demote", "writeback", "mg_read", "mg_write", "mg_trim",
         "complete", "remove"},
   type : {"NONE", "PROMOTION", "DEMOTION", "WRITEBACK"},
   key : Keys \cup {NoKey}, blk : Entries \cup {NoBlock}, ok : BOOLEAN]

ClientRecord ==
  [pc : {"idle", "cache_io", "set_dirty", "origin_io"}, op : AllOps \cup {"NONE"},
   key : Keys \cup {NoKey}, blk : Entries \cup {NoBlock}]

\* Every variable keeps its type: in particular no path of the worker or of a
\* user puts anything but a pool entry on a list, and the work queue stays
\* below its number of slots.
TypeOK ==
  /\ entry \in [Entries -> EntryRecord]
  /\ free \in Seq(Entries) /\ clean \in Seq(Entries) /\ dirty \in Seq(Entries)
  /\ table \subseteq Entries
  /\ wq \in Seq(Keys) /\ Len(wq) < MAX_WORKQUEUE_SIZE
  /\ worker \in WorkerRecord
  /\ client \in [Clients -> ClientRecord]
  /\ corrupt \in BOOLEAN

\* The block the worker is moving: it has been taken off its queue.
InFlight == IF worker.pc \in {"mg_read", "mg_write", "mg_trim", "complete"}
            THEN {worker.blk} ELSE {}

\* No cache block is lost or on two queues: every entry is on exactly one of
\* the free, clean and dirty queues, once, or in the hands of the worker,
\* whatever the users do while the worker copies without the lock.
Partition ==
  /\ IsInjective(free) /\ IsInjective(clean) /\ IsInjective(dirty)
  /\ ToSet(free) \cap ToSet(clean) = {} /\ ToSet(free) \cap ToSet(dirty) = {}
  /\ ToSet(clean) \cap ToSet(dirty) = {}
  /\ InFlight \cap (ToSet(free) \cup ToSet(clean) \cup ToSet(dirty)) = {}
  /\ Entries = ToSet(free) \cup ToSet(clean) \cup ToSet(dirty) \cup InFlight

\* The bits of an entry say where it is: the guards of lookup_mapping,
\* remove_mapping and set_dirty_after_write choose the list to unlink from by
\* these bits alone.
BitsMatchQueues ==
  \A e \in Entries :
    /\ entry[e].alloc <=> e \notin ToSet(free)
    /\ entry[e].pending <=> e \in InFlight
    /\ e \in ToSet(clean) => ~entry[e].dirty
    /\ e \in ToSet(dirty) => entry[e].dirty

\* The hash table holds exactly the allocated entries, except one that is
\* being promoted: an entry on the free list can never be hit.
HashedIsAllocated ==
  table = {e \in Entries : entry[e].alloc}
            \ (IF worker.type = "PROMOTION" THEN InFlight ELSE {})

\* No cache page has two blocks, although two parties insert: the worker,
\* which finds out that it may promote a key long before it inserts it, and
\* the users that overwrite a whole page.
UniqueKeys == \A e, f \in table : entry[e].key = entry[f].key => e = f

\* The reason for UniqueKeys.  The worker leaves the work in the queue while it
\* promotes it, and nobody inserts a key that is queued; so a queued key is not
\* cached, but for the moment between promotion_complete and remove_work.
QueuedIsNotCached ==
  /\ worker.pc # "idle" => wq # <<>> /\ Head(wq) = worker.key
  /\ \A k \in WQ!Queued : h_lookup(k) # {} => worker.pc = "remove" /\ k = worker.key

\* The annotations at the *_complete functions, where h is hashed, q is on a
\* queue and a is allocated: "!h, !q, a" before a promotion completes and
\* "h, !q, a" before a demotion or a writeback does.
StateOf(e) == <<e \in table, e \in ToSet(clean) \cup ToSet(dirty), entry[e].alloc>>

MigrationState ==
  worker.pc = "complete" =>
    StateOf(worker.blk) = <<worker.type # "PROMOTION", FALSE, TRUE>>

\* A work is never dropped for nothing: when there is no free entry and too few
\* clean ones there is a dirty one to write back, so each round of the worker
\* brings some block closer to being free.
RoundMakesProgress == worker.pc = "writeback" => writable

\* inc/mapping.h:84 on set_dirty_after_write: "the entry must in hash table".
DirtiedIsHashed ==
  \A c \in Clients :
    client[c].pc = "set_dirty" /\ entry[client[c].blk].alloc => client[c].blk \in table

\* Where nothing is ever evicted, a user that was sent to a cache block does
\* its I/O on the block of its own key.
HitIsStable ==
  \A c \in Clients :
    client[c].pc \in {"cache_io", "set_dirty"} => client[c].blk \in h_lookup(client[c].key)

\* The only DISCARD that breaks the lists is one of a block that the worker is
\* demoting or writing back at that moment.
OnlyInFlightDiscardCorrupts ==
  [][corrupt' # corrupt =>
       /\ worker.type \in {"DEMOTION", "WRITEBACK"}
       /\ worker.blk \in InFlight \cap table
       /\ worker.blk \notin table']_vars

\* The structure of the table survives every DISCARD but those.
Intact ==
  ~corrupt => Partition /\ BitsMatchQueues /\ HashedIsAllocated /\ QueuedIsNotCached

\* The mapping uses its work queue as WorkFifo says, and keeps draining it:
\* whatever becomes of a round, its work leaves the queue, and only then.
QueueSpec == WQ!Spec

\* Where the cache is large enough and nothing fails, a page whose work is queued
\* ends up in the cache.  (A miss that finds the queue full, or a path that begins
\* with a queued one, queues nothing.)
MissIsPromoted == \A k \in Keys : k \in WQ!Queued ~> h_lookup(k) # {}
=============================================================================
