---------------------------- MODULE PointerTable ----------------------------
(***************************************************************************)
(* The mapping table as lib/ssd_cache_mapping.c keeps it in shared memory: *)
(* an array of entries that carry the links of the queue they are on and   *)
(* of their hash chain as indices, three queue descriptors and an array of *)
(* buckets.  Mapping is its abstract specification: there the queues are   *)
(* sequences and the hash table is a set.  What does not touch the table   *)
(* (the I/O of the users and the worker, the ends of the work queue) is    *)
(* taken from Mapping.                                                     *)
(*                                                                         *)
(* The hash of a key is any function to the buckets.  As in Mapping, the   *)
(* model stops when l_del was applied to an entry that is on no queue.     *)
(***************************************************************************)
EXTENDS Naturals, Sequences, FiniteSets, SequencesExt

CONSTANTS
  CACHE_BLOCK_NUMBER, Keys, PathPrefix, MAX_WORKQUEUE_SIZE, Clients, Ops,
  IOFaults, NoKey, NoBlock,   \* see Mapping
  BUCKETS_NUMBER,
  hash_32,                    \* the bucket of each key
  INDEXER_NULL,
  UINT_MOD                    \* nr_elts and nr_allocated wrap there

Entries == 0 .. CACHE_BLOCK_NUMBER - 1
Buckets == 0 .. BUCKETS_NUMBER - 1
Links == Entries \cup {INDEXER_NULL}

ASSUME PointerAssumption ==
  /\ BUCKETS_NUMBER \in Nat \ {0}
  /\ hash_32 \in [Keys -> Buckets]
  /\ INDEXER_NULL \notin Entries
  /\ UINT_MOD \in Nat /\ UINT_MOD > CACHE_BLOCK_NUMBER

VARIABLES
  t,                            \* the table
  wq, worker, client, corrupt   \* see Mapping

vars == <<t, wq, worker, client, corrupt>>

-----------------------------------------------------------------------------
(* Intrusive queues.  Operators take a table and return a table. *)

l_head(u, l) == u.list[l].head

l_empty(u, l) == l_head(u, l) = INDEXER_NULL

\* As if the old head did not get its link back (mutant).
l_add_head_one_way(u, l, e) ==
  LET h == l_head(u, l)
      v == [u EXCEPT !.es[e].next = h, !.es[e].prev = INDEXER_NULL,
                     !.list[l].head = e, !.list[l].nr_elts = (@ + 1) % UINT_MOD]
  IN IF h = INDEXER_NULL THEN [v EXCEPT !.list[l].tail = e] ELSE v

l_add_head(u, l, e) ==
  LET h == l_head(u, l)
      v == [u EXCEPT !.es[e].next = h, !.es[e].prev = INDEXER_NULL,
                     !.list[l].head = e, !.list[l].nr_elts = (@ + 1) % UINT_MOD]
  IN IF h = INDEXER_NULL THEN [v EXCEPT !.list[l].tail = e]
                         ELSE [v EXCEPT !.es[h].prev = e]

l_add_tail(u, l, e) ==
  LET last == u.list[l].tail
      v == [u EXCEPT !.es[e].next = INDEXER_NULL, !.es[e].prev = last,
                     !.list[l].tail = e, !.list[l].nr_elts = (@ + 1) % UINT_MOD]
  IN IF last = INDEXER_NULL THEN [v EXCEPT !.list[l].head = e]
                            ELSE [v EXCEPT !.es[last].next = e]

\* As if the count were not kept (mutant).
l_del_uncounted(u, l, e) ==
  LET prev == u.es[e].prev
      next == u.es[e].next
      v == IF prev = INDEXER_NULL THEN [u EXCEPT !.list[l].head = next]
                                  ELSE [u EXCEPT !.es[prev].next = next]
  IN IF next = INDEXER_NULL THEN [v EXCEPT !.list[l].tail = prev]
                            ELSE [v EXCEPT !.es[next].prev = prev]

\* The links of e itself stay as they are.
l_del(u, l, e) ==
  LET prev == u.es[e].prev
      next == u.es[e].next
      v == IF prev = INDEXER_NULL THEN [u EXCEPT !.list[l].head = next]
                                  ELSE [u EXCEPT !.es[prev].next = next]
      w == IF next = INDEXER_NULL THEN [v EXCEPT !.list[l].tail = prev]
                                  ELSE [v EXCEPT !.es[next].prev = prev]
  IN [w EXCEPT !.list[l].nr_elts = (@ + UINT_MOD - 1) % UINT_MOD]

\* entry_get_dirty(e) ? &dirty : &clean
queue_of(u, e) == IF u.es[e].dirty THEN "dirty" ELSE "clean"

\* As if it went to the other end (mutant).
requeue_front(u, e) == l_add_head(l_del(u, queue_of(u, e), e), queue_of(u, e), e)

\* To the most recently used end of the queue that e is on.
requeue(u, e) == l_add_tail(l_del(u, queue_of(u, e), e), queue_of(u, e), e)

-----------------------------------------------------------------------------
(* The pool *)

init_entry == [hash_next |-> INDEXER_NULL, prev |-> INDEXER_NULL, next |-> INDEXER_NULL,
               pending |-> FALSE, dirty |-> FALSE, alloc |-> FALSE, key |-> NoKey]

\* The head of the free queue for key k.
alloc_entry(u, k) ==
  LET e == l_head(u, "free") IN
  [l_del(u, "free", e) EXCEPT !.es[e] = [init_entry EXCEPT !.alloc = TRUE, !.key = k],
                              !.nr_allocated = (@ + 1) % UINT_MOD]

free_entry(u, e) ==
  l_add_tail([u EXCEPT !.es[e].alloc = FALSE,
                       !.nr_allocated = (@ + UINT_MOD - 1) % UINT_MOD], "free", e)

-----------------------------------------------------------------------------
(* Hash chains *)

\* The entries from index i along the links f, no more than there are.
Walk(f, i) ==
  LET follow[e \in Links] == IF e = INDEXER_NULL THEN e ELSE f[e]
      at[n \in 1 .. CACHE_BLOCK_NUMBER] == IF n = 1 THEN i ELSE follow[at[n - 1]]
  IN SubSeq(at, 1, Cardinality({n \in 1 .. CACHE_BLOCK_NUMBER : at[n] # INDEXER_NULL}))

Chain(u, b) == Walk([e \in Entries |-> u.es[e].hash_next], u.buckets[b])

h_insert(u, e) ==
  LET b == hash_32[u.es[e].key] IN
  [u EXCEPT !.es[e].hash_next = u.buckets[b], !.buckets[b] = e]

\* The first entry of key k in its chain, and the one before it.
found(u, k) ==
  LET c == Chain(u, hash_32[k])
      i == SelectInSeq(c, LAMBDA e : u.es[e].key = k)
  IN [e |-> IF i = 0 THEN INDEXER_NULL ELSE c[i],
      prev |-> IF i <= 1 THEN INDEXER_NULL ELSE c[i - 1]]

h_unlink(u, k, f) ==
  IF f.prev = INDEXER_NULL THEN [u EXCEPT !.buckets[hash_32[k]] = u.es[f.e].hash_next]
                           ELSE [u EXCEPT !.es[f.prev].hash_next = u.es[f.e].hash_next]

\* As if it were inserted at the front without being unlinked (mutant).
h_lookup_twice(u, k) ==
  LET f == found(u, k) IN
  IF f.e # INDEXER_NULL /\ f.prev # INDEXER_NULL THEN h_insert(u, f.e) ELSE u

\* What a look-up does to the table: the entry moves to the front of its chain.
h_lookup(u, k) ==
  LET f == found(u, k) IN
  IF f.e # INDEXER_NULL /\ f.prev # INDEXER_NULL THEN h_insert(h_unlink(u, k, f), f.e) ELSE u

h_remove(u, e) ==
  LET k == u.es[e].key IN
  IF found(u, k).e # INDEXER_NULL THEN h_unlink(u, k, found(u, k)) ELSE u

-----------------------------------------------------------------------------
(* The table that Mapping sees. *)

Listed(l) == Walk([e \in Entries |-> t.es[e].next], l_head(t, l))

Hashed == UNION {ToSet(Chain(t, b)) : b \in Buckets}

Bits == [e \in Entries |-> [key |-> t.es[e].key, pending |-> t.es[e].pending,
                             dirty |-> t.es[e].dirty, alloc |-> t.es[e].alloc]]

M == INSTANCE Mapping
       WITH entry <- Bits, free <- Listed("free"), clean <- Listed("clean"), dirty <- Listed("dirty"),
            table <- Hashed

ASSUME TableAssumption == M!MappingAssumption

\* alloc_shm gives zeros; init_allocator chains the pool.
Init ==
  LET empty == [nr_elts |-> 0, head |-> INDEXER_NULL, tail |-> INDEXER_NULL]
      zero == [hash_next |-> 0, prev |-> 0, next |-> 0,
               pending |-> FALSE, dirty |-> FALSE, alloc |-> FALSE, key |-> NoKey]
      pool[n \in 0 .. CACHE_BLOCK_NUMBER] ==
        IF n = 0
        THEN [es |-> [e \in Entries |-> zero],
              list |-> [l \in {"free", "clean", "dirty"} |-> empty],
              buckets |-> [b \in Buckets |-> INDEXER_NULL],
              nr_allocated |-> 0]
        ELSE l_add_tail(pool[n - 1], "free", n - 1)
  IN /\ t = pool[CACHE_BLOCK_NUMBER]
     /\ wq = <<>>
     /\ worker = M!IdleWorker
     /\ client = [c \in Clients |-> M!IdleClient]
     /\ corrupt = FALSE

-----------------------------------------------------------------------------
(* The users *)

LookupHit(c, op, k) ==
  LET e == found(t, k).e
      u == h_lookup(t, k)
  IN /\ client[c].pc = "idle"
     /\ op \in Ops \ {"DISCARD"}
     /\ e # INDEXER_NULL
     /\ t' = IF ~u.es[e].pending /\ ~u.es[e].dirty THEN requeue(u, e) ELSE u
     /\ M!goes(c, "cache_io", op, k, e)
     /\ UNCHANGED <<wq, worker, corrupt>>

Missed(c, op, k) ==
  /\ client[c].pc = "idle"
  /\ op \in Ops
  /\ found(t, k).e = INDEXER_NULL

\* lookup_mapping, and lookup_mapping_with_insert without a free entry.
QueueMiss(c, op, k) ==
  /\ Missed(c, op, k)
  /\ op # "DISCARD"
  /\ op = "OVERWRITE" => ~M!contains_work(k) /\ l_empty(t, "free")
  /\ M!insert_work(k)
  /\ M!goes(c, "origin_io", op, k, NoBlock)
  /\ UNCHANGED <<t, worker, corrupt>>

InsertQueued(c, k) ==
  /\ Missed(c, "OVERWRITE", k)
  /\ M!contains_work(k)
  /\ M!goes(c, "origin_io", "OVERWRITE", k, NoBlock)
  /\ UNCHANGED <<t, wq, worker, corrupt>>

InsertDirty(c, k) ==
  LET e == l_head(t, "free")
      u == [alloc_entry(t, k) EXCEPT !.es[e].dirty = TRUE]
  IN /\ Missed(c, "OVERWRITE", k)
     /\ ~M!contains_work(k)
     /\ ~l_empty(t, "free")
     /\ t' = l_add_tail(h_insert(u, e), "dirty", e)
     /\ M!goes(c, "cache_io", "OVERWRITE", k, e)
     /\ UNCHANGED <<wq, worker, corrupt>>

set_dirty_after_write(c) ==
  LET e == client[c].blk
      dirtied(u) == [u EXCEPT !.es[e].dirty = TRUE]
  IN /\ client[c].pc = "set_dirty"
     /\ t' = IF ~t.es[e].alloc THEN t
             ELSE IF t.es[e].pending THEN dirtied(t)
             ELSE l_add_tail(dirtied(l_del(t, queue_of(t, e), e)), "dirty", e)
     /\ client' = [client EXCEPT ![c] = M!IdleClient]
     /\ UNCHANGED <<wq, worker, corrupt>>

remove_mapping(k) ==
  LET e == found(t, k).e
      u == h_lookup(t, k)
  IN /\ "DISCARD" \in Ops
     /\ e # INDEXER_NULL
     /\ t' = free_entry(h_remove(l_del(u, queue_of(u, e), e), e), e)
     /\ corrupt' = (e \notin ToSet(Listed(queue_of(t, e))))
     /\ UNCHANGED <<wq, worker, client>>

-----------------------------------------------------------------------------
(* The worker *)

refused(pc, cond, next) ==
  /\ worker.pc = pc /\ cond
  /\ M!goto(next)
  /\ UNCHANGED <<t, wq, client, corrupt>>

promotion_free_to_clean ==
  LET e == l_head(t, "free") IN
  \/ /\ worker.pc = "promote" /\ ~l_empty(t, "free")
     /\ t' = [alloc_entry(t, worker.key) EXCEPT !.es[e].pending = TRUE]
     /\ M!start("PROMOTION", e)
     /\ UNCHANGED <<wq, client, corrupt>>
  \/ refused("promote", l_empty(t, "free"), "demote")

demotion_clean_to_free ==
  LET e == l_head(t, "clean")
      demotable == t.list["clean"].nr_elts > CACHE_BLOCK_NUMBER \div 2
  IN \/ /\ worker.pc = "demote" /\ demotable
        /\ t' = [l_del(t, "clean", e) EXCEPT !.es[e].pending = TRUE]
        /\ M!start("DEMOTION", e)
        /\ UNCHANGED <<wq, client, corrupt>>
     \/ refused("demote", ~demotable, "writeback")

writeback_dirty_to_clean ==
  LET e == l_head(t, "dirty")
      writable == t.list["dirty"].nr_elts # 0 /\ ~t.es[e].pending
  IN \/ /\ worker.pc = "writeback" /\ writable
        /\ t' = l_del([t EXCEPT !.es[e].pending = TRUE, !.es[e].dirty = FALSE], "dirty", e)
        /\ M!start("WRITEBACK", e)
        /\ UNCHANGED <<wq, client, corrupt>>
     \/ refused("writeback", ~writable, "remove")

unpended == [t EXCEPT !.es[worker.blk].pending = FALSE]

\* The round of that type ends, with u as the table.
completes(type, u) ==
  /\ worker.pc = "complete" /\ worker.type = type
  /\ t' = u
  /\ M!goto("remove")
  /\ UNCHANGED <<wq, client, corrupt>>

promotion_complete ==
  LET e == worker.blk
      u == unpended
  IN completes("PROMOTION",
       IF worker.ok THEN l_add_tail(h_insert(u, e), queue_of(u, e), e) ELSE free_entry(u, e))

demotion_complete ==
  completes("DEMOTION", free_entry(h_remove(unpended, worker.blk), worker.blk))

writeback_complete ==
  LET e == worker.blk
      u == unpended
  IN completes("WRITEBACK",
       IF worker.ok THEN l_add_tail(u, queue_of(u, e), e) ELSE l_add_head(u, queue_of(u, e), e))

\* Steps that leave the table alone.
Elsewhere ==
  /\ UNCHANGED t
  /\ \/ M!peak_work \/ M!MgRead \/ M!MgWrite \/ M!MgTrim \/ M!remove_work
     \/ \E c \in Clients : M!CacheIO(c) \/ M!OriginIO(c)

Next ==
  /\ ~corrupt
  /\ \/ \E c \in Clients, k \in Keys :
          \/ \E op \in Ops : LookupHit(c, op, k) \/ QueueMiss(c, op, k)
          \/ InsertQueued(c, k) \/ InsertDirty(c, k)
     \/ \E c \in Clients : set_dirty_after_write(c)
     \/ \E k \in Keys : remove_mapping(k)
     \/ promotion_free_to_clean \/ demotion_clean_to_free \/ writeback_dirty_to_clean
     \/ promotion_complete \/ demotion_complete \/ writeback_complete
     \/ Elsewhere

Spec == Init /\ [][Next]_vars

-----------------------------------------------------------------------------
\* Every link is an index of the pool or the null index, and no counter passes
\* the size of the pool or wraps below zero.
TypeOK ==
  t \in [es : [Entries -> [hash_next : Links, prev : Links, next : Links,
                           pending : BOOLEAN, dirty : BOOLEAN, alloc : BOOLEAN,
                           key : Keys \cup {NoKey}]],
         list : [{"free", "clean", "dirty"} ->
                   [nr_elts : 0 .. CACHE_BLOCK_NUMBER, head : Links, tail : Links]],
         buckets : [Buckets -> Links],
         nr_allocated : 0 .. CACHE_BLOCK_NUMBER] \/ corrupt

\* A queue reads the same from both ends, and its count, on which the worker
\* decides what to demote and write back, is its length.
WellLinked(l) ==
  LET s == Listed(l) IN
  /\ t.list[l].nr_elts = Len(s)
  /\ t.list[l].tail = IF s = <<>> THEN INDEXER_NULL ELSE Last(s)
  /\ s # <<>> => t.es[Last(s)].next = INDEXER_NULL
  /\ \A i \in DOMAIN s : t.es[s[i]].prev = IF i = 1 THEN INDEXER_NULL ELSE s[i - 1]

\* Links and counts of the three queues hold together although an entry that
\* is taken off a queue keeps its old links, and the pool counts what it gave out.
QueuesWellLinked ==
  ~corrupt =>
    /\ \A l \in {"free", "clean", "dirty"} : WellLinked(l)
    /\ t.nr_allocated = Cardinality({e \in Entries : t.es[e].alloc})

\* The chains end, share no entry, and hold each entry in the bucket of the key
\* it has: an entry that is hashed is found under its key, whatever moves to the
\* front and removals from the middle came before.
ChainsWellFormed ==
  ~corrupt =>
    /\ \A b \in Buckets : LET s == Chain(t, b) IN
         /\ IsInjective(s)
         /\ s # <<>> => t.es[Last(s)].hash_next = INDEXER_NULL
         /\ \A e \in ToSet(s) : t.es[e].alloc /\ hash_32[t.es[e].key] = b
    /\ \A e \in Hashed : found(t, t.es[e].key).e = e

\* The table implements Mapping: read along the links, every critical section
\* does to the queues, bits and chains what Mapping says it does to sequences
\* and a set, in the same order.
ImplementsMapping == M!Init /\ [][M!Next \/ corrupt']_(M!vars)
=============================================================================
