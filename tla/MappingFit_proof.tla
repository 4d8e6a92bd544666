-------------------------- MODULE MappingFit_proof --------------------------
(***************************************************************************)
(* Two more results about Mapping: a cache that is large enough never      *)
(* evicts, and the mapping uses its work queue as WorkFifo says.           *)
(***************************************************************************)
EXTENDS Mapping_proof

-----------------------------------------------------------------------------
(* A block for every page.  The worker demotes or writes back only when no  *)
(* entry is free; then every entry would hold a page other than the one to  *)
(* be promoted, and there are not enough of those.                          *)

Fits == IsFiniteSet(Keys) /\ Cardinality(Keys) <= CACHE_BLOCK_NUMBER

\* The worker only promotes, and the users' blocks keep their keys.
FitInv ==
  /\ worker.pc \notin {"demote", "writeback", "mg_trim"}
  /\ worker.type \in {"NONE", "PROMOTION"}
  /\ \A e \in table : entry[e].key \in Keys
  /\ HitIsStable

LEMMA RoomToPromote ==
  ASSUME Fits, IInv, KInv, ~corrupt, FitInv, worker.pc = "promote"
  PROVE  free # <<>>
  <1> SUFFICES ASSUME free = <<>> PROVE FALSE
    OBVIOUS
  <1> DEFINE K == Keys \ {worker.key}
             f == [e \in Entries |-> entry[e].key]
  <1>1. TypeOK /\ Struct /\ worker.key \in Keys
    BY DEF IInv, WorkerOK
  <1>2. InFlight = {} /\ ToSet(free) = {}
    BY DEF InFlight, ToSet
  <1>3. table = Entries
    BY <1>1, <1>2 DEF Struct, HashedIsAllocated, BitsMatchQueues
  <1>4. h_lookup(worker.key) = {}
    <2>1. wq # <<>> /\ Head(wq) = worker.key /\ wq \in Seq(Keys)
      BY <1>1 DEF KInv, QueuedIsNotCached, TypeOK
    <2>2. worker.key \in WQ!Queued
      BY <2>1, PopProperties, QueuedSet
    <2> QED
      BY <2>2 DEF KInv, QueuedIsNotCached
  <1>5. \A e \in Entries : entry[e].key \in K
    BY <1>3, <1>4 DEF FitInv, h_lookup
  <1>6. \A e, g \in Entries : f[e] = f[g] => e = g
    BY <1>3 DEF KInv, UniqueKeys
  <1>7. f \in Injection(Entries, K)
    BY <1>5, <1>6 DEF Injection, IsInjective
  <1>8. IsFiniteSet(K) /\ Cardinality(K) = Cardinality(Keys) - 1
    BY <1>1, FS_RemoveElement DEF Fits
  <1>9. Cardinality(Entries) <= Cardinality(K)
    <2> HIDE DEF f, K
    <2> QED
      BY <1>7, <1>8, EntriesCount, FS_Injection
  <1>10. Cardinality(Keys) \in Nat /\ CACHE_BLOCK_NUMBER \in Nat
    BY FS_CardinalityType, MappingAssumption DEF Fits
  <1> QED
    BY <1>8, <1>9, <1>10, EntriesCount DEF Fits

\* A block that is hashed stays hashed, for the same key.
Stable == \A e \in table : e \in table' /\ entry'[e].key = entry[e].key

LEMMA StableHits ==
  ASSUME HitIsStable, Stable, NEW c \in Clients,
         \A d \in Clients \ {c} : client'[d] = client[d],
         client'[c].pc \in {"cache_io", "set_dirty"} =>
           client'[c].blk \in table' /\ entry'[client'[c].blk].key = client'[c].key
  PROVE  HitIsStable'
  BY DEF HitIsStable, Stable, h_lookup

LEMMA StableWorker ==
  ASSUME HitIsStable, Stable, UNCHANGED client
  PROVE  HitIsStable'
  BY DEF HitIsStable, Stable, h_lookup

LEMMA FreeIsNotHashed ==
  ASSUME TypeOK, Struct, free # <<>>
  PROVE  Head(free) \in Entries \ table
  <1>1. Head(free) \in Entries /\ Head(free) \in ToSet(free)
    BY PopProperties DEF TypeOK
  <1> QED
    BY <1>1, WhereIs

LEMMA RequestFitInv ==
  ASSUME IInv, ~corrupt, FitInv, NEW c \in Clients, Request(c)
  PROVE  FitInv'
  <1>1. TypeOK /\ Struct /\ entry \in [Entries -> EntryRecord]
    BY DEF IInv, TypeOK
  <1>2. client \in [Clients -> ClientRecord]
    BY <1>1 DEF TypeOK
  <1>3. PICK k \in Keys :
          \/ \E op \in Ops : LookupHit(c, op, k) \/ LookupMiss(c, op, k)
          \/ InsertQueued(c, k) \/ InsertNoRoom(c, k) \/ InsertDirty(c, k)
    BY DEF Request
  <1>4. CASE \E op \in Ops : LookupHit(c, op, k)
    <2>1. PICK op \in Ops, e \in h_lookup(k) :
            goes(c, "cache_io", op, k, e) /\ UNCHANGED <<entry, table, worker>>
      BY <1>4 DEF LookupHit
    <2>2. /\ client'[c].blk = e /\ client'[c].key = k
          /\ \A d \in Clients \ {c} : client'[d] = client[d]
      BY <1>2, <2>1 DEF goes
    <2>3. e \in table /\ entry[e].key = k
      BY <2>1 DEF h_lookup
    <2>4. HitIsStable'
      BY <2>1, <2>2, <2>3, StableHits DEF FitInv, Stable
    <2> QED
      BY <2>1, <2>4 DEF FitInv
  <1>5. CASE (\E op \in Ops : LookupMiss(c, op, k)) \/ InsertQueued(c, k) \/ InsertNoRoom(c, k)
    <2>1. PICK op : goes(c, "origin_io", op, k, NoBlock) /\ UNCHANGED <<entry, table, worker>>
      BY <1>5 DEF LookupMiss, InsertQueued, InsertNoRoom
    <2>2. /\ client'[c].pc = "origin_io"
          /\ \A d \in Clients \ {c} : client'[d] = client[d]
      BY <1>2, <2>1 DEF goes
    <2>3. HitIsStable'
      BY <2>1, <2>2, StableHits DEF FitInv, Stable
    <2> QED
      BY <2>1, <2>3 DEF FitInv
  <1>6. CASE InsertDirty(c, k)
    <2> DEFINE e == Head(free)
    <2>1. /\ free # <<>> /\ table' = table \cup {e}
          /\ entry' = [entry EXCEPT ![e] =
                         [key |-> k, pending |-> FALSE, dirty |-> TRUE, alloc |-> TRUE]]
          /\ goes(c, "cache_io", "OVERWRITE", k, e) /\ UNCHANGED worker
      BY <1>6 DEF InsertDirty, insert_dirty
    <2>2. e \in Entries \ table
      BY <1>1, <2>1, FreeIsNotHashed
    <2>3. Stable /\ entry'[e].key = k
      BY <1>1, <2>1, <2>2 DEF Stable, TypeOK
    <2>4. /\ client'[c].blk = e /\ client'[c].key = k
          /\ \A d \in Clients \ {c} : client'[d] = client[d]
      BY <1>2, <2>1 DEF goes
    <2>5. HitIsStable'
      BY <2>1, <2>3, <2>4, StableHits DEF FitInv
    <2>6. \A g \in table' : entry'[g].key \in Keys
      BY <2>1, <2>3 DEF FitInv, Stable
    <2> QED
      BY <2>1, <2>5, <2>6 DEF FitInv
  <1> QED
    BY <1>3, <1>4, <1>5, <1>6

LEMMA ProceedFitInv ==
  ASSUME IInv, ~corrupt, FitInv, NEW c \in Clients, Proceed(c)
  PROVE  FitInv'
  <1>1. TypeOK /\ entry \in [Entries -> EntryRecord] /\ client \in [Clients -> ClientRecord]
    BY DEF IInv, TypeOK
  <1>2. UNCHANGED <<table, worker>>
    BY DEF Proceed, CacheIO, OriginIO, set_dirty_after_write
  <1>3. \A e \in Entries : entry'[e].key = entry[e].key
    <2>1. \/ UNCHANGED entry
          \/ entry' = [entry EXCEPT ![client[c].blk].dirty = TRUE]
      BY DEF Proceed, CacheIO, OriginIO, set_dirty_after_write, mark_dirty
    <2> QED
      BY <1>1, <2>1 DEF EntryRecord
  <1>4. Stable
    BY <1>1, <1>2, <1>3 DEF Stable, TypeOK
  <1>5. \A d \in Clients \ {c} : client'[d] = client[d]
    BY <1>1 DEF Proceed, CacheIO, OriginIO, set_dirty_after_write
  <1>6. \/ client'[c] = IdleClient
        \/ /\ client[c].pc = "cache_io"
           /\ client'[c].blk = client[c].blk /\ client'[c].key = client[c].key
    BY <1>1 DEF Proceed, CacheIO, OriginIO, set_dirty_after_write, ClientRecord
  <1>7. client'[c].pc \in {"cache_io", "set_dirty"} =>
          client'[c].blk \in table' /\ entry'[client'[c].blk].key = client'[c].key
    BY <1>4, <1>6 DEF FitInv, HitIsStable, h_lookup, Stable, IdleClient
  <1>8. HitIsStable'
    BY <1>4, <1>5, <1>7, StableHits DEF FitInv
  <1>9. \A e \in table' : entry'[e].key \in Keys
    BY <1>2, <1>4 DEF FitInv, Stable
  <1> QED
    BY <1>2, <1>8, <1>9 DEF FitInv

LEMMA MigrateFitInv ==
  ASSUME Fits, IInv, KInv, ~corrupt, FitInv, Migrate
  PROVE  FitInv'
  <1>1. /\ TypeOK /\ Struct /\ WorkerOK /\ entry \in [Entries -> EntryRecord]
        /\ worker \in WorkerRecord /\ table \subseteq Entries
    BY DEF IInv, TypeOK
  <1>2. UNCHANGED client
    BY DEF Migrate, peak_work, promotion_free_to_clean, PromotionRefused,
           demotion_clean_to_free, DemotionRefused, writeback_dirty_to_clean,
           WritebackRefused, MgRead, MgWrite, MgTrim, promotion_complete,
           demotion_complete, writeback_complete, remove_work
  <1>3. ASSUME UNCHANGED <<entry, table>>,
               worker'.pc \notin {"demote", "writeback", "mg_trim"},
               worker'.type \in {"NONE", "PROMOTION"}
        PROVE  FitInv'
    BY <1>2, <1>3, StableWorker DEF FitInv, Stable
  <1>4. CASE peak_work
    BY <1>1, <1>3, <1>4 DEF peak_work, FitInv, WorkerRecord
  <1>5. CASE promotion_free_to_clean
    <2> DEFINE e == Head(free)
    <2>1. /\ free # <<>> /\ UNCHANGED table
          /\ entry' = [entry EXCEPT ![e] = [key |-> worker.key, pending |-> TRUE,
                                            dirty |-> FALSE, alloc |-> TRUE]]
          /\ worker' = [worker EXCEPT !.pc = "mg_read", !.type = "PROMOTION", !.blk = e]
      BY <1>5 DEF promotion_free_to_clean, start
    <2>2. e \in Entries \ table
      BY <1>1, <2>1, FreeIsNotHashed
    <2>3. Stable
      BY <1>1, <2>1, <2>2 DEF Stable
    <2>4. worker'.pc = "mg_read" /\ worker'.type = "PROMOTION"
      BY <1>1, <2>1 DEF WorkerRecord
    <2>5. HitIsStable' /\ \A g \in table' : entry'[g].key \in Keys
      BY <1>2, <2>1, <2>3, StableWorker DEF FitInv, Stable
    <2> QED
      BY <2>4, <2>5 DEF FitInv
  <1>6. CASE PromotionRefused
    BY <1>6, RoomToPromote DEF PromotionRefused
  <1>7. CASE \/ demotion_clean_to_free \/ DemotionRefused
             \/ writeback_dirty_to_clean \/ WritebackRefused \/ MgTrim
    BY <1>7 DEF demotion_clean_to_free, DemotionRefused, writeback_dirty_to_clean,
                WritebackRefused, MgTrim, FitInv
  <1>8. CASE MgRead \/ MgWrite
    BY <1>1, <1>3, <1>8 DEF MgRead, MgWrite, goto, FitInv, WorkerRecord
  <1>9. CASE promotion_complete
    <2> DEFINE e == worker.blk
    <2>1. /\ worker.pc = "complete" /\ worker.type = "PROMOTION"
          /\ worker' = [worker EXCEPT !.pc = "remove"]
          /\ \/ table' = table \cup {e} /\ entry' = [entry EXCEPT ![e].pending = FALSE]
             \/ /\ UNCHANGED table
                /\ entry' = [entry EXCEPT ![e].pending = FALSE, ![e].alloc = FALSE]
      BY <1>9 DEF promotion_complete, completes, goto, unpend
    <2>2. e \in Entries /\ entry[e].key \in Keys
      BY <1>1, <2>1 DEF KInv, PromotingKey, WorkerOK, InFlight
    <2>3. \A g \in Entries : entry'[g].key = entry[g].key
      BY <1>1, <2>1 DEF EntryRecord
    <2>4. Stable /\ \A g \in table' : entry'[g].key \in Keys
      BY <1>1, <2>1, <2>2, <2>3 DEF Stable, FitInv
    <2>5. worker'.pc = "remove" /\ worker'.type = "PROMOTION"
      BY <1>1, <2>1 DEF WorkerRecord
    <2>6. HitIsStable'
      BY <1>2, <2>4, StableWorker DEF FitInv
    <2> QED
      BY <2>4, <2>5, <2>6 DEF FitInv
  <1>10. CASE demotion_complete \/ writeback_complete
    BY <1>10 DEF demotion_complete, writeback_complete, completes, FitInv
  <1>11. CASE remove_work
    BY <1>3, <1>11 DEF remove_work, IdleWorker
  <1> QED
    BY <1>4, <1>5, <1>6, <1>7, <1>8, <1>9, <1>10, <1>11 DEF Migrate

\* Where there is a block for every page and nothing is discarded, whatever
\* fails, no hit is overtaken: the block that lookup_mapping returned, without a
\* reference or a lock, still is the block of that page when the I/O is done.
THEOREM HitsStay ==
  ASSUME Fits, "DISCARD" \notin Ops
  PROVE  Spec => []HitIsStable
  <1>1. Init => FitInv
    BY DEF Init, FitInv, HitIsStable, IdleWorker, IdleClient
  <1>2. IInv /\ KInv /\ ~corrupt /\ FitInv /\ [Next]_vars => FitInv'
    <2> SUFFICES ASSUME IInv, KInv, ~corrupt, FitInv, [Next]_vars PROVE FitInv'
      OBVIOUS
    <2>1. CASE Migrate
      BY <2>1, MigrateFitInv
    <2>2. CASE \E c \in Clients : Request(c) \/ Proceed(c)
      BY <2>2, RequestFitInv, ProceedFitInv
    <2>3. CASE \E k \in Keys : remove_mapping(k)
      BY <2>3 DEF remove_mapping
    <2>4. CASE UNCHANGED vars
      BY <2>4, StableWorker DEF vars, FitInv, Stable
    <2> QED
      BY <2>1, <2>2, <2>3, <2>4 DEF Next
  <1>3. FitInv => HitIsStable
    BY DEF FitInv
  <1> QED
    BY <1>1, <1>2, <1>3, SpecKInv, NeverCorrupt, PTL DEF Spec

-----------------------------------------------------------------------------
(* Refinement of WorkFifo.                                                  *)

LEMMA QueueStep ==
  ASSUME TypeOK, [Next]_vars
  PROVE  [WQ!Next]_wq
  <1>1. ASSUME NEW k \in Keys, insert_work(k) PROVE [WQ!Next]_wq
    BY <1>1 DEF insert_work, WQ!Next
  <1>2. CASE Migrate
    BY <1>2 DEF Migrate, peak_work, promotion_free_to_clean, PromotionRefused,
           demotion_clean_to_free, DemotionRefused, writeback_dirty_to_clean,
           WritebackRefused, MgRead, MgWrite, MgTrim, promotion_complete,
           demotion_complete, writeback_complete, remove_work, WQ!Next
  <1>3. ASSUME NEW c \in Clients, Request(c) PROVE [WQ!Next]_wq
    BY <1>1, <1>3 DEF Request, LookupHit, LookupMiss, InsertQueued, InsertNoRoom, InsertDirty,
             insert_dirty
  <1>4. ASSUME NEW c \in Clients, Proceed(c) PROVE [WQ!Next]_wq
    BY <1>4 DEF Proceed, CacheIO, OriginIO, set_dirty_after_write
  <1>5. ASSUME NEW k \in Keys, remove_mapping(k) PROVE [WQ!Next]_wq
    BY <1>5 DEF remove_mapping
  <1>6. CASE UNCHANGED vars
    BY <1>6 DEF vars
  <1> QED
    BY <1>2, <1>3, <1>4, <1>5, <1>6 DEF Next

\* Users that insert under mapping_lock and a worker that looks at the oldest
\* work long before it removes it do nothing to the work queue but what the
\* abstract queue allows: the safety part of QueueSpec.
THEOREM QueueRefinement == Spec => WQ!Init /\ [][WQ!Next]_wq
  <1>1. Init => WQ!Init
    BY DEF Init, WQ!Init
  <1> QED
    BY <1>1, QueueStep, TypeCorrect, PTL DEF Spec
=============================================================================
