--------------------------- MODULE DataPath_proof ---------------------------
(***************************************************************************)
(* The data of Mapping for every number of blocks, keys, users, writes and *)
(* trims: a page that met none of the named races is read and kept as      *)
(* promised.                                                               *)
(***************************************************************************)
EXTENDS DataPath, Mapping_proof

Reading(c) == client[c].op = "READ"
Writing(c) == client[c].op \notin {"READ", "NONE"}

\* What a look-up of k finds: the file, or the block once it has been filled.
Current(k) == IF h_lookup(k) = {} THEN {file[k]} ELSE {ssd[e] : e \in h_lookup(k) \ fresh}

\* The steps of a user with its request.
DataIO(c) ==
  WriteCache(c) \/ ReadCache(c) \/ CacheRefuses(c) \/ WriteOrigin(c) \/ ReadOrigin(c) \/ WriteDone(c)

\* What has been written so far.
Written == {NoData} \cup Keys \X (0 .. writes)

\* Requests: where they are and what they carry.
RequestOK(c) ==
  /\ client[c].op = "NONE" <=> client[c].pc = "idle"
  /\ client[c].op = "READ" => client[c].pc \in {"cache_io", "origin_io"}
  /\ client[c].pc # "idle" => client[c].key \in Keys
  /\ IF Writing(c) THEN io[c].data \in {client[c].key} \X (1 .. writes)
                   ELSE io[c].data = NoData

\* A version that has not reached the device or a file is nowhere.
UnseenOK(c) ==
  Writing(c) /\ client[c].pc # "set_dirty" =>
    /\ \A e \in Entries : ssd[e] # io[c].data
    /\ \A k \in Keys : file[k] # io[c].data
    /\ buf # io[c].data

\* Writes under way differ, are valid, supersede no other one that is under way,
\* and are valid answers to the reads under way.
PromiseOK(c) ==
  Writing(c) =>
    /\ io[c].data \in valid[client[c].key]
    /\ \A d \in Clients :
         /\ Writing(d) => io[c].data \notin io[d].seen /\ (io[c].data = io[d].data => c = d)
         /\ Reading(d) /\ client[d].key = client[c].key => io[c].data \in io[d].seen

\* The worker is copying e to its file, or failed to.
UnderWriteback(e) ==
  /\ worker.type = "WRITEBACK" /\ worker.blk = e
  /\ worker.pc \in {"mg_read", "mg_write"} \/ (worker.pc = "complete" /\ ~worker.ok)

\* The block of k: it has been written since the file was, or has what the file has.
BlockOK(k, e) ==
  /\ WrittenSince(e) \/ UnderWriteback(e) \/ (e \notin fresh /\ ssd[e] = file[k])
  /\ worker.type = "WRITEBACK" /\ worker.blk = e /\ worker.pc = "mg_write" =>
       /\ e \notin fresh
       /\ WrittenSince(e) \/ ssd[e] = buf

\* The copy on its way into the cache is that of the file.
PromotionOK(k) ==
  worker.type = "PROMOTION" /\ worker.key = k =>
    /\ worker.pc = "mg_write" => buf = file[k]
    /\ worker.pc = "complete" /\ worker.ok =>
         worker.blk \notin fresh /\ ssd[worker.blk] = file[k]

\* What a read that was sent to the cache or to the file will find is valid for
\* it, that which the worker is about to write to the file included.
ReaderOK(k, c) ==
  Reading(c) /\ client[c].key = k =>
    /\ Current(k) \subseteq io[c].seen
    /\ client[c].pc = "origin_io" =>
         /\ file[k] \in io[c].seen
         /\ worker.type = "WRITEBACK" /\ worker.pc = "mg_write" /\ worker.blk \in h_lookup(k) =>
              buf \in io[c].seen

\* A write that is done is in the cache until its block is marked.
WriterOK(k, c) ==
  client[c].pc = "set_dirty" /\ client[c].key = k =>
    client[c].blk \in h_lookup(k) \ fresh /\ ssd[client[c].blk] \notin io[c].seen

KeyOK(k) ==
  /\ Current(k) \subseteq valid[k]
  /\ \A e \in h_lookup(k) : BlockOK(k, e)
  /\ PromotionOK(k)
  /\ \A c \in Clients : ReaderOK(k, c) /\ WriterOK(k, c)

DTypeOK ==
  /\ ssd \in [Entries -> Written] /\ file \in [Keys -> Written] /\ buf \in Written
  /\ trims \in 0 .. MaxTrims
  /\ io \in [Clients -> [data : Written, seen : SUBSET Written]]
  /\ valid \in [Keys -> SUBSET Written]
  /\ spoiled \subseteq Keys /\ fresh \subseteq Entries
  /\ writes \in 0 .. MaxWrites

RequestsOK == \A c \in Clients : RequestOK(c) /\ UnseenOK(c) /\ PromiseOK(c)

\* A block that is hashed and holds nothing yet is about to be filled: the write
\* that inserted it is on its way, or another one of the page.
FilledOK ==
  \A e \in table \cap fresh : entry[e].key \in spoiled \/ \E c \in Clients : Filling(c, e)

DInv == DTypeOK /\ RequestsOK /\ FilledOK /\ \A k \in Keys \ spoiled : KeyOK(k)

-----------------------------------------------------------------------------
(* The steps of DataPath are steps of Mapping, or move data only.           *)

\* No copy of the worker has failed before it is complete.
OkSoFar == worker.ok \/ worker.pc \in {"complete", "remove"}

\* A block that is allocated is that of a page.
AllocatedHasKey == \A e \in Entries : entry[e].alloc => entry[e].key \in Keys

Base == IInv /\ KInv /\ OkSoFar /\ AllocatedHasKey /\ ~corrupt

LEMMA Underlying ==
  ASSUME ~corrupt, [DataNext]_dataVars
  PROVE  [Next]_vars /\ ~corrupt'
  <1>1. CASE UNCHANGED dataVars
    BY <1>1 DEF dataVars, vars
  <1>2. ASSUME NEW c \in Clients,
               Submit(c) \/ DataIO(c)
        PROVE  [Next]_vars /\ ~corrupt'
    <2>1. Request(c) \/ Proceed(c)
      BY <1>2 DEF Submit, DataIO, WriteCache, ReadCache, CacheRefuses, WriteOrigin, ReadOrigin,
         WriteDone, Proceed
    <2>2. corrupt' = corrupt
      BY <2>1 DEF Request, Proceed, LookupHit, LookupMiss, InsertQueued, InsertNoRoom,
                  InsertDirty, insert_dirty, CacheIO, OriginIO, set_dirty_after_write
    <2> QED
      BY <2>1, <2>2 DEF Next
  <1>3. CASE Fetch \/ Store \/ Trim \/ Evict \/ WrittenBack \/ Steer
    <2>1. Migrate
      BY <1>3 DEF Fetch, Store, Trim, Evict, WrittenBack, Steer, Migrate
    <2>2. corrupt' = corrupt
      BY <2>1 DEF Migrate, peak_work, promotion_free_to_clean, PromotionRefused,
             demotion_clean_to_free, DemotionRefused, writeback_dirty_to_clean,
             WritebackRefused, MgRead, MgWrite, MgTrim, promotion_complete,
             demotion_complete, writeback_complete, remove_work
    <2> QED
      BY <2>1, <2>2 DEF Next
  <1>4. CASE TrimLands
    BY <1>4 DEF TrimLands, vars
  <1> QED
    BY <1>1, <1>2, <1>3, <1>4 DEF DataNext, DataIO

LEMMA BaseInit == DataInit => Base
  BY InitIInv, InitKInv DEF DataInit, Base, Init, OkSoFar, AllocatedHasKey, IdleWorker

LEMMA StepOkSoFar ==
  ASSUME TypeOK, OkSoFar, [Next]_vars
  PROVE  OkSoFar'
  <1>1. CASE UNCHANGED worker
    BY <1>1 DEF OkSoFar
  <1>2. CASE Migrate
    <2>1. worker \in WorkerRecord
      BY DEF TypeOK
    <2>2. CASE peak_work \/ promotion_free_to_clean \/ PromotionRefused
      BY <2>1, <2>2 DEF peak_work, promotion_free_to_clean, PromotionRefused, start, goto,
           OkSoFar, WorkerRecord
    <2>3. CASE demotion_clean_to_free \/ DemotionRefused
      BY <2>1, <2>3 DEF demotion_clean_to_free, DemotionRefused, start, goto, OkSoFar, WorkerRecord
    <2>4. CASE writeback_dirty_to_clean \/ WritebackRefused
      BY <2>1, <2>4 DEF writeback_dirty_to_clean, WritebackRefused, start, goto, OkSoFar, WorkerRecord
    <2>5. CASE MgRead \/ MgWrite \/ MgTrim
      BY <2>1, <2>5 DEF MgRead, MgWrite, MgTrim, goto, OkSoFar, WorkerRecord
    <2>6. CASE promotion_complete \/ demotion_complete \/ writeback_complete
      BY <2>1, <2>6 DEF promotion_complete, demotion_complete, writeback_complete, goto,
           OkSoFar, WorkerRecord
    <2>7. CASE remove_work
      BY <2>7 DEF remove_work, IdleWorker, OkSoFar
    <2> QED
      BY <1>2, <2>2, <2>3, <2>4, <2>5, <2>6, <2>7 DEF Migrate
  <1>3. CASE \E c \in Clients : Request(c) \/ Proceed(c)
    BY <1>1, <1>3 DEF Request, Proceed, LookupHit, LookupMiss, InsertQueued, InsertNoRoom,
         InsertDirty, insert_dirty, CacheIO, OriginIO, set_dirty_after_write
  <1>4. CASE \E k \in Keys : remove_mapping(k)
    BY <1>1, <1>4 DEF remove_mapping
  <1> QED
    BY <1>1, <1>2, <1>3, <1>4 DEF Next, vars

LEMMA StepAllocatedHasKey ==
  ASSUME IInv, AllocatedHasKey, [Next]_vars
  PROVE  AllocatedHasKey'
  <1>0. entry \in [Entries -> EntryRecord] /\ TypeOK /\ WorkerOK
    BY DEF IInv, TypeOK
  <1>1. ASSUME \A e \in Entries : /\ entry'[e].key = entry[e].key
                                  /\ entry'[e].alloc => entry[e].alloc
        PROVE  AllocatedHasKey'
    BY <1>1 DEF AllocatedHasKey
  <1>2. ASSUME NEW f, NEW k \in Keys, NEW p, NEW d,
               entry' = [entry EXCEPT ![f] = [key |-> k, pending |-> p, dirty |-> d, alloc |-> TRUE]]
        PROVE  AllocatedHasKey'
    <2>1. ASSUME NEW e \in Entries PROVE entry'[e] = entry[e] \/ entry'[e].key = k
      BY <1>0, <1>2
    <2> QED
      BY <2>1 DEF AllocatedHasKey
  <1>3. ASSUME NEW f, entry' = entry
                        \/ entry' = [entry EXCEPT ![f].pending = FALSE]
                        \/ entry' = [entry EXCEPT ![f].pending = TRUE]
                        \/ entry' = [entry EXCEPT ![f].dirty = TRUE]
                        \/ entry' = [entry EXCEPT ![f].alloc = FALSE]
                        \/ entry' = [entry EXCEPT ![f].pending = TRUE, ![f].dirty = FALSE]
                        \/ entry' = [entry EXCEPT ![f].pending = FALSE, ![f].alloc = FALSE]
        PROVE  AllocatedHasKey'
    BY <1>0, <1>1, <1>3 DEF EntryRecord
  <1>4. CASE promotion_free_to_clean
    <2>1. worker.key \in Keys
      BY <1>0, <1>4 DEF WorkerOK, promotion_free_to_clean
    <2> QED
      BY <1>2, <1>4, <2>1 DEF promotion_free_to_clean
  <1>5. ASSUME NEW c \in Clients, NEW k \in Keys, InsertDirty(c, k) PROVE AllocatedHasKey'
    BY <1>2, <1>5 DEF InsertDirty, insert_dirty
  <1>6. CASE Migrate
    <2>1. CASE peak_work \/ PromotionRefused \/ DemotionRefused \/ WritebackRefused \/ MgRead
               \/ MgWrite \/ MgTrim \/ remove_work
      BY <1>3, <2>1 DEF peak_work, PromotionRefused, DemotionRefused, WritebackRefused, MgRead,
           MgWrite, MgTrim, remove_work
    <2>2. CASE demotion_clean_to_free
      BY <1>3, <2>2 DEF demotion_clean_to_free
    <2>3. CASE writeback_dirty_to_clean
      BY <1>3, <2>3 DEF writeback_dirty_to_clean
    <2>4. CASE promotion_complete
      BY <1>3, <2>4 DEF promotion_complete, unpend
    <2>5. CASE demotion_complete
      BY <1>3, <2>5 DEF demotion_complete
    <2>6. CASE writeback_complete
      BY <1>3, <2>6 DEF writeback_complete, unpend
    <2> QED
      BY <1>4, <1>6, <2>1, <2>2, <2>3, <2>4, <2>5, <2>6 DEF Migrate
  <1>7. ASSUME NEW c \in Clients, Request(c) \/ Proceed(c) PROVE AllocatedHasKey'
    <2>1. CASE set_dirty_after_write(c)
      BY <1>3, <2>1 DEF set_dirty_after_write, mark_dirty
    <2>2. CASE entry' = entry
      BY <1>3, <2>2
    <2> QED
      BY <1>5, <1>7, <2>1, <2>2 DEF Request, Proceed, LookupHit, LookupMiss, InsertQueued,
           InsertNoRoom, CacheIO, OriginIO
  <1>8. ASSUME NEW k \in Keys, remove_mapping(k) PROVE AllocatedHasKey'
    BY <1>3, <1>8 DEF remove_mapping
  <1>9. CASE UNCHANGED vars
    BY <1>3, <1>9 DEF vars
  <1> QED
    BY <1>6, <1>7, <1>8, <1>9 DEF Next

LEMMA BaseStep == Base /\ [DataNext]_dataVars => Base'
  BY Underlying, StepIInv, StepKInv, StepOkSoFar, StepAllocatedHasKey DEF Base, IInv

Copying == {"mg_read", "mg_write", "mg_trim", "complete"}

\* What the structure of the table says about the blocks that hold data.
LEMMA BaseFacts ==
  ASSUME Base
  PROVE  /\ TypeOK /\ Struct /\ entry \in [Entries -> EntryRecord]
         /\ client \in [Clients -> ClientRecord] /\ worker \in WorkerRecord
         /\ table \subseteq Entries
         /\ \A e \in table : entry[e].alloc
         /\ \A e \in Entries : entry[e].alloc => entry[e].key \in Keys
         /\ \A e, f \in table : entry[e].key = entry[f].key => e = f
         /\ \A c \in Clients : client[c].pc \in {"cache_io", "set_dirty"} =>
                                 client[c].blk \in Entries
         /\ worker.pc \in Copying => worker.blk \in Entries /\ entry[worker.blk].alloc
         /\ worker.pc \in Copying /\ worker.type # "PROMOTION" => worker.blk \in table
         /\ worker.pc \in Copying /\ worker.type = "PROMOTION" =>
              worker.blk \notin table /\ h_lookup(worker.key) = {} /\ worker.key \in Keys
         /\ worker.pc \in Copying /\ worker.type = "PROMOTION" =>
              entry[worker.blk].key = worker.key
  <1>1. TypeOK /\ Struct /\ WorkerOK /\ ClientOK /\ KInv
    BY DEF Base, IInv
  <1>2. /\ entry \in [Entries -> EntryRecord] /\ client \in [Clients -> ClientRecord]
        /\ worker \in WorkerRecord /\ table \subseteq Entries
    BY <1>1 DEF TypeOK
  <1>3. \A e \in table : entry[e].alloc
    BY <1>1 DEF Struct, HashedIsAllocated
  <1>4. ASSUME worker.pc \in Copying
        PROVE  /\ worker.blk \in Entries /\ entry[worker.blk].alloc
               /\ worker.type # "PROMOTION" => worker.blk \in table
               /\ worker.type = "PROMOTION" =>
                    worker.blk \notin table /\ h_lookup(worker.key) = {} /\ worker.key \in Keys
    <2>1. InFlight = {worker.blk} /\ worker.blk \in Entries /\ worker.key \in Keys
      BY <1>1, <1>4 DEF InFlight, WorkerOK, Copying
    <2>2. entry[worker.blk].alloc
      BY <1>1, <2>1 DEF Struct, Partition, BitsMatchQueues
    <2>3. worker.blk \in table <=> worker.type # "PROMOTION"
      BY <1>1, <2>1, <2>2 DEF Struct, HashedIsAllocated
    <2>4. h_lookup(worker.key) = {}
      <3>1. wq # <<>> /\ Head(wq) = worker.key /\ wq \in Seq(Keys)
        BY <1>1, <1>4 DEF KInv, QueuedIsNotCached, TypeOK, Copying
      <3>2. worker.key \in WQ!Queued
        BY <3>1, PopProperties, QueuedSet
      <3> QED
        BY <1>1, <1>4, <3>2 DEF KInv, QueuedIsNotCached, Copying
    <2> QED
      BY <2>1, <2>2, <2>3, <2>4
  <1>5. worker.pc \in Copying /\ worker.type = "PROMOTION" => entry[worker.blk].key = worker.key
    BY <1>1 DEF KInv, PromotingKey, WorkerOK, Copying
  <1> QED
    BY <1>1, <1>2, <1>3, <1>4, <1>5 DEF Base, AllocatedHasKey, ClientOK, KInv, UniqueKeys

-----------------------------------------------------------------------------
(* What a step leaves as it is for a page.                                  *)

\* The block of k and its file are left alone; a block that is written for the
\* first time shows nothing before and nothing after.
SamePlace(k) ==
  /\ h_lookup(k)' = h_lookup(k)
  /\ file'[k] = file[k]
  /\ \A e \in h_lookup(k) : /\ e \in fresh' <=> e \in fresh
                            /\ e \notin fresh => ssd'[e] = ssd[e]

\* What users hold: of the others, at most more valid answers for their reads.
OthersWait(c) ==
  \A d \in Clients \ {c} :
    /\ client'[d] = client[d]
    /\ Reading(d) => io[d].seen \subseteq io'[d].seen
    /\ ~Reading(d) => io'[d].seen = io[d].seen

LEMMA SameCurrent ==
  ASSUME NEW k \in Keys, SamePlace(k)
  PROVE  Current(k)' = Current(k)
  BY DEF SamePlace, Current

\* The worker is copying, and the users are waiting.
LEMMA WorkerFrame ==
  ASSUME NEW k \in Keys, KeyOK(k), SamePlace(k), UNCHANGED <<client, io, valid>>,
         \A e \in h_lookup(k) : BlockOK(k, e)', PromotionOK(k)',
         worker'.type = "WRITEBACK" /\ worker'.pc = "mg_write" /\ worker'.blk \in h_lookup(k) =>
           \/ buf' \in Current(k)
           \/ UNCHANGED <<worker, buf>>
  PROVE  KeyOK(k)'
  <1>1. Current(k)' = Current(k) /\ h_lookup(k)' = h_lookup(k) /\ file'[k] = file[k]
    BY SameCurrent DEF SamePlace
  <1>2. ASSUME NEW c \in Clients PROVE ReaderOK(k, c)'
    <2>1. ReaderOK(k, c)
      BY DEF KeyOK
    <2> QED
      BY <1>1, <2>1 DEF ReaderOK, Reading
  <1>3. ASSUME NEW c \in Clients PROVE WriterOK(k, c)'
    <2>1. WriterOK(k, c)
      BY DEF KeyOK
    <2> QED
      BY <1>1, <2>1 DEF WriterOK, SamePlace
  <1>4. Current(k)' \subseteq valid'[k]
    BY <1>1 DEF KeyOK
  <1>5. \A e \in h_lookup(k)' : BlockOK(k, e)'
    BY <1>1
  <1> QED
    BY <1>2, <1>3, <1>4, <1>5 DEF KeyOK

\* A user takes a step, and the worker and the other users are waiting.
LEMMA UserFrame ==
  ASSUME NEW k \in Keys, NEW c \in Clients, RequestsOK, KeyOK(k), SamePlace(k), OthersWait(c),
         UNCHANGED <<worker, buf>>,
         \A e \in h_lookup(k) : WrittenSince(e) => WrittenSince(e)',
         PromotionOK(k) => PromotionOK(k)',
         Current(k) \subseteq valid'[k],
         ReaderOK(k, c)', WriterOK(k, c)'
  PROVE  KeyOK(k)'
  <1>1. Current(k)' = Current(k) /\ h_lookup(k)' = h_lookup(k) /\ file'[k] = file[k]
    BY SameCurrent DEF SamePlace
  <1>2. ASSUME NEW d \in Clients PROVE ReaderOK(k, d)'
    <2>1. CASE d = c
      BY <2>1
    <2>2. CASE d # c
      <3>1. /\ ReaderOK(k, d) /\ client'[d] = client[d]
            /\ Reading(d) => io[d].seen \subseteq io'[d].seen
        BY <2>2 DEF KeyOK, OthersWait
      <3>2. Reading(d)' <=> Reading(d)
        BY <3>1 DEF Reading
      <3> QED
        BY <1>1, <3>1, <3>2 DEF ReaderOK
    <2> QED
      BY <2>1, <2>2
  <1>3. ASSUME NEW d \in Clients PROVE WriterOK(k, d)'
    <2>1. CASE d = c
      BY <2>1
    <2>2. CASE d # c
      <3>1. WriterOK(k, d) /\ client'[d] = client[d]
        BY <2>2 DEF KeyOK, OthersWait
      <3>2. CASE Reading(d)
        BY <3>1, <3>2 DEF RequestsOK, RequestOK, WriterOK, Reading
      <3>3. CASE ~Reading(d)
        <4>1. io'[d].seen = io[d].seen
          BY <2>2, <3>3 DEF OthersWait
        <4> QED
          BY <1>1, <3>1, <4>1 DEF WriterOK, SamePlace
      <3> QED
        BY <3>2, <3>3
    <2> QED
      BY <2>1, <2>2
  <1>4. ASSUME NEW e \in h_lookup(k) PROVE BlockOK(k, e)'
    <2>1. BlockOK(k, e) /\ (UnderWriteback(e)' <=> UnderWriteback(e))
      BY DEF KeyOK, UnderWriteback
    <2>2. (e \in fresh' <=> e \in fresh) /\ (e \notin fresh => ssd'[e] = ssd[e])
      BY DEF SamePlace
    <2>3. WrittenSince(e) => WrittenSince(e)'
      OBVIOUS
    <2> HIDE DEF WrittenSince
    <2> QED
      BY <1>1, <2>1, <2>2, <2>3 DEF BlockOK
  <1> QED
    BY <1>1, <1>2, <1>3, <1>4 DEF KeyOK

-----------------------------------------------------------------------------
(* The steps of the worker, page by page.                                   *)

\* The worker has nothing in its hands, or takes a block to copy it.
LEMMA StartKey ==
  ASSUME NEW k \in Keys, KeyOK(k), worker.pc \notin Copying,
         worker'.pc \notin {"mg_write", "complete"},
         UNCHANGED <<client, media, promise>>, h_lookup(k)' = h_lookup(k),
         \A e \in h_lookup(k) : WrittenSince(e) => WrittenSince(e)' \/ UnderWriteback(e)'
  PROVE  KeyOK(k)'
  <1>1. SamePlace(k) /\ UNCHANGED <<io, valid, ssd, file, buf, fresh>>
    BY DEF SamePlace, media, promise
  <1>2. PromotionOK(k)'
    BY DEF PromotionOK
  <1>3. ASSUME NEW e \in h_lookup(k) PROVE BlockOK(k, e)'
    <2>1. ~UnderWriteback(e) /\ BlockOK(k, e)
      BY DEF UnderWriteback, Copying, KeyOK
    <2>2. WrittenSince(e) \/ (e \notin fresh' /\ ssd'[e] = file'[k])
      BY <1>1, <2>1 DEF BlockOK
    <2>3. WrittenSince(e)' \/ UnderWriteback(e)' \/ (e \notin fresh' /\ ssd'[e] = file'[k])
      BY <2>2
    <2> HIDE DEF WrittenSince, UnderWriteback
    <2> QED
      BY <2>3 DEF BlockOK
  <1> QED
    BY <1>1, <1>2, <1>3, WorkerFrame

\* The entries of the table keep their keys and bits.
SameEntries ==
  /\ table' = table
  /\ \A e \in table : entry'[e].key = entry[e].key /\ entry'[e].dirty = entry[e].dirty

LEMMA SameEntriesKeep ==
  ASSUME NEW k \in Keys, SameEntries
  PROVE  /\ h_lookup(k)' = h_lookup(k)
         /\ \A e \in h_lookup(k) :
              UNCHANGED client => (WrittenSince(e)' <=> WrittenSince(e))
  <1>1. \A e \in h_lookup(k) : e \in table
    BY DEF h_lookup
  <1>2. h_lookup(k)' = h_lookup(k)
    BY DEF SameEntries, h_lookup
  <1> QED
    BY <1>1, <1>2 DEF SameEntries, WrittenSince

LEMMA SteerStartKeys ==
  ASSUME Base, UNCHANGED <<media, promise>>, NEW k \in Keys, KeyOK(k),
         \/ peak_work \/ promotion_free_to_clean \/ PromotionRefused
         \/ demotion_clean_to_free \/ DemotionRefused
         \/ writeback_dirty_to_clean \/ WritebackRefused \/ remove_work
  PROVE  KeyOK(k)'
  <1>0. /\ TypeOK /\ Struct /\ entry \in [Entries -> EntryRecord] /\ table \subseteq Entries
        /\ worker \in WorkerRecord
    BY BaseFacts
  <1>1. CASE peak_work \/ PromotionRefused \/ DemotionRefused \/ WritebackRefused \/ remove_work
    <2>1. /\ worker.pc \notin Copying /\ worker'.pc \notin {"mg_write", "complete"}
          /\ UNCHANGED <<client, entry, table>>
      <3>1. CASE peak_work
        BY <1>0, <3>1 DEF peak_work, Copying, WorkerRecord, lists
      <3>2. CASE PromotionRefused \/ DemotionRefused \/ WritebackRefused
        BY <1>0, <3>2 DEF PromotionRefused, DemotionRefused, WritebackRefused, goto, Copying,
             WorkerRecord
      <3>3. CASE remove_work
        BY <1>0, <3>3 DEF remove_work, Copying, IdleWorker
      <3> QED
        BY <1>1, <3>1, <3>2, <3>3
    <2>2. SameEntries
      BY <2>1 DEF SameEntries
    <2> QED
      BY <2>1, <2>2, SameEntriesKeep, StartKey
  <1>2. CASE promotion_free_to_clean
    <2>1. /\ worker.pc \notin Copying /\ worker'.pc \notin {"mg_write", "complete"}
          /\ UNCHANGED <<client, table>>
      BY <1>0, <1>2 DEF promotion_free_to_clean, start, Copying, WorkerRecord
    <2>2. Head(free) \in Entries /\ Head(free) \notin table
      <3>1. free # <<>> /\ free \in Seq(Entries)
        BY <1>0, <1>2 DEF promotion_free_to_clean, TypeOK
      <3>2. Head(free) \in ToSet(free) /\ Head(free) \in Entries
        BY <3>1, PopProperties
      <3> QED
        BY <1>0, <3>2, WhereIs
    <2>3. SameEntries
      <3>1. \A e \in Entries : e # Head(free) => entry'[e] = entry[e]
        BY <1>0, <1>2 DEF promotion_free_to_clean
      <3> QED
        BY <1>0, <2>1, <2>2, <3>1 DEF SameEntries
    <2> QED
      BY <2>1, <2>3, SameEntriesKeep, StartKey
  <1>3. CASE demotion_clean_to_free
    <2>1. /\ worker.pc \notin Copying /\ worker'.pc \notin {"mg_write", "complete"}
          /\ UNCHANGED <<client, table>>
      BY <1>0, <1>3 DEF demotion_clean_to_free, start, Copying, WorkerRecord
    <2>2. SameEntries
      <3> DEFINE e == Head(clean)
      <3>1. entry' = [entry EXCEPT ![e].pending = TRUE]
        BY <1>3 DEF demotion_clean_to_free
      <3> HIDE DEF e
      <3>2. \A f \in Entries : entry'[f].key = entry[f].key /\ entry'[f].dirty = entry[f].dirty
        BY <1>0, <3>1 DEF EntryRecord
      <3> QED
        BY <1>0, <2>1, <3>2 DEF SameEntries
    <2> QED
      BY <2>1, <2>2, SameEntriesKeep, StartKey
  <1>4. CASE writeback_dirty_to_clean
    <2> DEFINE e == Head(dirty)
    <2>1. /\ worker.pc \notin Copying /\ worker'.pc = "mg_read"
          /\ worker'.type = "WRITEBACK" /\ worker'.blk = e
          /\ UNCHANGED <<client, table>>
          /\ entry' = [entry EXCEPT ![e].pending = TRUE, ![e].dirty = FALSE]
      BY <1>0, <1>4 DEF writeback_dirty_to_clean, start, Copying, WorkerRecord
    <2> HIDE DEF e
    <2>2. \A f \in Entries : /\ entry'[f].key = entry[f].key
                             /\ f # e => entry'[f].dirty = entry[f].dirty
      BY <1>0, <2>1 DEF EntryRecord
    <2>3. h_lookup(k)' = h_lookup(k) /\ h_lookup(k) \subseteq Entries
      <3>1. table' = table /\ table \subseteq Entries
        BY <1>0, <2>1
      <3> QED
        BY <2>2, <3>1 DEF h_lookup
    <2>4. \A f \in h_lookup(k) : WrittenSince(f) => WrittenSince(f)' \/ UnderWriteback(f)'
      BY <2>1, <2>2, <2>3 DEF WrittenSince, UnderWriteback
    <2> QED
      BY <2>1, <2>3, <2>4, StartKey
  <1> QED
    BY <1>1, <1>2, <1>3, <1>4

\* Copying moves data; the table and the users stay as they are.
LEMMA CopyLeaves ==
  ASSUME Base, NEW k \in Keys, UNCHANGED <<entry, table, client>>
  PROVE  /\ h_lookup(k)' = h_lookup(k) /\ h_lookup(k) \subseteq table
         /\ \A e \in h_lookup(k) : WrittenSince(e)' <=> WrittenSince(e)
         /\ \A e \in h_lookup(k), f \in h_lookup(k) : e = f
         /\ \A e \in h_lookup(k) : entry[e].key = k
         /\ worker.pc \in Copying /\ worker.type = "PROMOTION" /\ worker.key = k =>
              h_lookup(k) = {}
  <1>1. SameEntries
    BY DEF SameEntries
  <1>2. h_lookup(k) \subseteq table /\ \A e \in h_lookup(k) : entry[e].key = k
    BY DEF h_lookup
  <1>3. \A e \in h_lookup(k), f \in h_lookup(k) : e = f
    BY <1>2, BaseFacts
  <1> QED
    BY <1>1, <1>2, <1>3, SameEntriesKeep, BaseFacts


\* A step of the copy goes on or fails.
LEMMA CopyWorker ==
  ASSUME Base, MgRead \/ MgWrite \/ MgTrim
  PROVE  /\ UNCHANGED <<entry, lists, table, client>>
         /\ worker.ok /\ worker.pc \in Copying /\ worker'.type = worker.type
         /\ worker'.blk = worker.blk /\ worker'.key = worker.key
         /\ MgRead => /\ worker.pc = "mg_read" /\ worker.type \in {"PROMOTION", "WRITEBACK"}
                      /\ worker'.pc = IF worker'.ok THEN "mg_write" ELSE "complete"
         /\ MgWrite => /\ worker.pc = "mg_write" /\ worker.type \in {"PROMOTION", "WRITEBACK"}
                       /\ worker'.pc = "complete"
         /\ MgTrim => worker.pc = "mg_trim" /\ worker.type = "DEMOTION" /\ worker'.pc = "complete"
  <1>1. worker \in WorkerRecord /\ WorkerOK /\ OkSoFar
    BY BaseFacts DEF Base, IInv
  <1>2. CASE MgRead
    BY <1>1, <1>2 DEF MgRead, MgWrite, MgTrim, goto, WorkerRecord, WorkerOK, OkSoFar, Copying
  <1>3. CASE MgWrite
    BY <1>1, <1>3 DEF MgRead, MgWrite, MgTrim, goto, WorkerRecord, WorkerOK, OkSoFar, Copying
  <1>4. CASE MgTrim
    BY <1>1, <1>4 DEF MgRead, MgWrite, MgTrim, goto, WorkerRecord, WorkerOK, OkSoFar, Copying
  <1> QED
    BY <1>2, <1>3, <1>4

LEMMA FetchKey ==
  ASSUME Base, Fetch, NEW k \in Keys \ spoiled', k \notin spoiled => KeyOK(k)
  PROVE  KeyOK(k)'
  <1>1. /\ UNCHANGED <<entry, table, client, ssd, file, io, valid, fresh>>
        /\ worker.ok /\ worker.pc = "mg_read" /\ worker.pc \in Copying
        /\ worker.type \in {"PROMOTION", "WRITEBACK"}
        /\ worker'.type = worker.type /\ worker'.blk = worker.blk /\ worker'.key = worker.key
        /\ worker'.pc = IF worker'.ok THEN "mg_write" ELSE "complete"
    BY CopyWorker DEF Fetch
  <1>2. /\ h_lookup(k)' = h_lookup(k) /\ h_lookup(k) \subseteq table
        /\ \A e \in h_lookup(k) : WrittenSince(e)' <=> WrittenSince(e)
        /\ \A e \in h_lookup(k) : entry[e].key = k
        /\ worker.type = "PROMOTION" /\ worker.key = k => h_lookup(k) = {}
    BY <1>1, CopyLeaves
  <1>3. SamePlace(k)
    BY <1>1, <1>2 DEF SamePlace
  <1>4. KeyOK(k)
    BY DEF Fetch, FetchFile, FetchBlock, spoil_if, spoil
  <1>5. ASSUME worker.type = "WRITEBACK", worker'.ok, worker.blk \in h_lookup(k)
        PROVE  worker.blk \notin fresh /\ buf' = ssd[worker.blk]
    <2>1. moving = k
      BY <1>2, <1>5 DEF moving
    <2>2. FetchBlock
      BY <1>5 DEF Fetch, FetchFile
    <2> QED
      BY <2>1, <2>2 DEF FetchBlock, spoil_if, spoil
  <1>6. ASSUME NEW e \in h_lookup(k) PROVE BlockOK(k, e)'
    <2>1. BlockOK(k, e) /\ (UnderWriteback(e) => UnderWriteback(e)')
      BY <1>1, <1>4 DEF KeyOK, UnderWriteback
    <2>2. (e \in fresh' <=> e \in fresh) /\ ssd'[e] = ssd[e] /\ file'[k] = file[k]
      BY <1>1
    <2>3. WrittenSince(e)' <=> WrittenSince(e)
      BY <1>2
    <2>4. worker'.type = "WRITEBACK" /\ worker'.blk = e /\ worker'.pc = "mg_write" =>
            e \notin fresh' /\ ssd'[e] = buf'
      BY <1>1, <1>5, <2>2
    <2> HIDE DEF WrittenSince, UnderWriteback
    <2> QED
      BY <2>1, <2>2, <2>3, <2>4 DEF BlockOK
  <1>7. PromotionOK(k)'
    <2> SUFFICES ASSUME worker'.type = "PROMOTION", worker'.key = k, worker'.ok
                 PROVE  worker'.pc = "mg_write" /\ buf' = file'[k]
      BY <1>1 DEF PromotionOK
    <2>1. moving = k
      BY <1>1, BaseFacts DEF moving
    <2>2. FetchFile
      BY <1>1 DEF Fetch, FetchBlock
    <2> QED
      BY <1>1, <2>1, <2>2 DEF FetchFile, spoil_if, spoil
  <1>8. worker'.type = "WRITEBACK" /\ worker'.pc = "mg_write" /\ worker'.blk \in h_lookup(k) =>
          buf' \in Current(k)
    BY <1>1, <1>5 DEF Current
  <1> QED
    BY <1>1, <1>3, <1>4, <1>6, <1>7, <1>8, WorkerFrame

\* The copy reaches the block of a page that is not cached yet.
LEMMA StoreBlockKey ==
  ASSUME Base, Store, StoreBlock, worker'.ok, ssd \in [Entries -> Written], NEW k \in Keys \ spoiled', KeyOK(k)
  PROVE  KeyOK(k)'
  <1>1. /\ UNCHANGED <<entry, table, client, file, buf, io, valid>>
        /\ worker.pc = "mg_write" /\ worker.pc \in Copying /\ worker.type = "PROMOTION"
        /\ worker'.type = worker.type /\ worker'.blk = worker.blk /\ worker'.key = worker.key
        /\ worker'.pc = "complete" /\ fresh' = fresh \ {worker.blk}
    BY CopyWorker DEF Store, StoreBlock
  <1>2. /\ h_lookup(k)' = h_lookup(k) /\ h_lookup(k) \subseteq table
        /\ \A e \in h_lookup(k) : WrittenSince(e)' <=> WrittenSince(e)
    BY <1>1, CopyLeaves
  <1>3. /\ worker.blk \notin table /\ worker.blk \in Entries
        /\ entry[worker.blk].key = worker.key
    BY <1>1, BaseFacts
  <1>4. \A e \in Entries \ {worker.blk} : ssd'[e] = ssd[e]
    <2>1. ssd' = ssd \/ ssd' = [ssd EXCEPT ![worker.blk] = buf]
      BY DEF StoreBlock
    <2> QED
      BY <2>1
  <1>5. SamePlace(k)
    <2>1. \A e \in h_lookup(k) : e \in Entries \ {worker.blk}
      BY <1>2, <1>3, BaseFacts
    <2> QED
      BY <1>1, <1>2, <1>4, <2>1 DEF SamePlace
  <1>6. ASSUME NEW e \in h_lookup(k) PROVE BlockOK(k, e)'
    <2>1. BlockOK(k, e) /\ ~UnderWriteback(e)
      BY <1>1 DEF KeyOK, UnderWriteback
    <2>2. (e \in fresh' <=> e \in fresh) /\ (e \notin fresh => ssd'[e] = ssd[e]) /\ file'[k] = file[k]
      BY <1>5 DEF SamePlace
    <2>3. WrittenSince(e)' <=> WrittenSince(e)
      BY <1>2
    <2>4. worker'.pc # "mg_write"
      BY <1>1
    <2> HIDE DEF WrittenSince, UnderWriteback
    <2> QED
      BY <2>1, <2>2, <2>3, <2>4 DEF BlockOK
  <1>7. PromotionOK(k)'
    <2> SUFFICES ASSUME worker.key = k
                 PROVE  worker.blk \notin fresh' /\ ssd'[worker.blk] = file'[k]
      BY <1>1 DEF PromotionOK
    <2>1. buf = file[k]
      BY <1>1 DEF KeyOK, PromotionOK
    <2>2. ssd' = [ssd EXCEPT ![worker.blk] = buf]
      BY <1>1, <1>3 DEF StoreBlock, moving, spoil
    <2>3. ssd'[worker.blk] = buf
      BY <1>3, <2>2
    <2> QED
      BY <1>1, <2>1, <2>3
  <1>8. worker'.pc # "mg_write"
    BY <1>1
  <1> QED
    BY <1>1, <1>5, <1>6, <1>7, <1>8, WorkerFrame

\* The copy reaches the file of a page that is cached.
LEMMA StoreFileKey ==
  ASSUME Base, Store, StoreFile, worker'.ok, file \in [Keys -> Written],
         NEW k \in Keys \ spoiled', KeyOK(k)
  PROVE  KeyOK(k)'
  <1>0. PICK b \in Entries : b = worker.blk
    BY CopyWorker, BaseFacts DEF Store
  <1>1. /\ UNCHANGED <<entry, table, client, ssd, buf, io, valid, fresh>>
        /\ worker.pc = "mg_write" /\ worker.pc \in Copying /\ worker.type = "WRITEBACK"
        /\ worker'.type = worker.type /\ worker'.blk = b
        /\ worker'.pc = "complete"
        /\ b \in table
    BY <1>0, CopyWorker, BaseFacts DEF Store, StoreFile
  <1>2. /\ h_lookup(k)' = h_lookup(k) /\ h_lookup(k) \subseteq table
        /\ \A e \in h_lookup(k) : WrittenSince(e)' <=> WrittenSince(e)
        /\ \A e \in h_lookup(k), f \in h_lookup(k) : e = f
    BY <1>1, CopyLeaves
  <1>3. /\ b \in h_lookup(k) <=> moving = k
        /\ file'[k] = IF moving = k THEN buf ELSE file[k]
    BY <1>0, <1>1 DEF h_lookup, moving, StoreFile, spoil
  <1>4. PromotionOK(k)'
    BY <1>1 DEF PromotionOK
  <1>5. CASE moving # k
    <2>1. SamePlace(k)
      BY <1>1, <1>2, <1>3, <1>5 DEF SamePlace
    <2>2. ASSUME NEW e \in h_lookup(k) PROVE BlockOK(k, e)'
      <3>1. BlockOK(k, e) /\ e # b
        BY <1>3, <1>5 DEF KeyOK
      <3>2. WrittenSince(e)' <=> WrittenSince(e)
        BY <1>2
      <3>3. WrittenSince(e)' \/ (e \notin fresh' /\ ssd'[e] = file'[k])
        BY <1>0, <1>1, <1>3, <1>5, <3>1, <3>2 DEF BlockOK, UnderWriteback
      <3> HIDE DEF WrittenSince, UnderWriteback
      <3> QED
        BY <1>1, <3>3 DEF BlockOK
    <2> QED
      BY <1>1, <1>4, <2>1, <2>2, WorkerFrame
  <1>6. CASE moving = k
    <2>1. b \in h_lookup(k) /\ BlockOK(k, b)
      BY <1>3, <1>6 DEF KeyOK
    <2>2. Current(k)' = Current(k)
      BY <1>1, <1>2, <2>1 DEF Current
    <2>3. BlockOK(k, b)'
      <3>1. b \notin fresh /\ (WrittenSince(b) \/ ssd[b] = buf)
        BY <1>0, <1>1, <2>1 DEF BlockOK
      <3>2. WrittenSince(b)' \/ (b \notin fresh' /\ ssd'[b] = file'[k])
        BY <1>1, <1>2, <1>3, <1>6, <2>1, <3>1
      <3> HIDE DEF WrittenSince
      <3> QED
        BY <1>1, <3>2 DEF BlockOK
    <2>4. \A e \in h_lookup(k)' : BlockOK(k, e)'
      BY <1>2, <2>1, <2>3
    <2>5. ASSUME NEW c \in Clients PROVE ReaderOK(k, c)'
      <3>1. ReaderOK(k, c)
        BY DEF KeyOK
      <3> QED
        BY <1>1, <1>2, <1>3, <1>6, <2>1, <2>2, <3>1, <1>0 DEF ReaderOK, Reading
    <2>6. ASSUME NEW c \in Clients PROVE WriterOK(k, c)'
      <3>1. WriterOK(k, c)
        BY DEF KeyOK
      <3> QED
        BY <1>1, <1>2, <3>1 DEF WriterOK
    <2>7. Current(k)' \subseteq valid'[k]
      BY <1>1, <2>2 DEF KeyOK
    <2> QED
      BY <1>4, <2>4, <2>5, <2>6, <2>7 DEF KeyOK
  <1> QED
    BY <1>5, <1>6

\* The copy of a block fails, or a trim is submitted: no data moves.
LEMMA NoCopyKey ==
  ASSUME Base, NEW k \in Keys, KeyOK(k),
         \/ MgWrite /\ ~worker'.ok
         \/ MgTrim,
         UNCHANGED <<ssd, file, buf, io, valid, fresh>>
  PROVE  KeyOK(k)'
  <1>1. /\ UNCHANGED <<entry, table, client>>
        /\ worker'.type = worker.type /\ worker'.blk = worker.blk
        /\ worker'.pc = "complete" /\ (~worker'.ok \/ worker.type = "DEMOTION")
        /\ worker.pc \in {"mg_write", "mg_trim"}
    BY CopyWorker
  <1>2. /\ h_lookup(k)' = h_lookup(k)
        /\ \A e \in h_lookup(k) : WrittenSince(e)' <=> WrittenSince(e)
    BY <1>1, CopyLeaves
  <1>3. SamePlace(k)
    BY <1>1, <1>2 DEF SamePlace
  <1>4. PromotionOK(k)'
    BY <1>1 DEF PromotionOK
  <1>5. ASSUME NEW e \in h_lookup(k) PROVE BlockOK(k, e)'
    <2>1. BlockOK(k, e) /\ (UnderWriteback(e) => UnderWriteback(e)')
      BY <1>1 DEF KeyOK, UnderWriteback
    <2>2. WrittenSince(e)' <=> WrittenSince(e)
      BY <1>2
    <2> HIDE DEF WrittenSince, UnderWriteback
    <2> QED
      BY <1>1, <2>1, <2>2 DEF BlockOK
  <1> QED
    BY <1>1, <1>3, <1>4, <1>5, WorkerFrame

LEMMA StoreKey ==
  ASSUME Base, Store, ssd \in [Entries -> Written], file \in [Keys -> Written],
         NEW k \in Keys \ spoiled', k \notin spoiled => KeyOK(k)
  PROVE  KeyOK(k)'
  <1>1. KeyOK(k) /\ MgWrite /\ UNCHANGED <<buf, io, valid>>
    BY DEF Store, StoreBlock, StoreFile, spoil
  <1>2. CASE ~worker'.ok /\ UNCHANGED <<ssd, file, fresh>>
    BY <1>1, <1>2, NoCopyKey
  <1>3. CASE worker'.ok /\ StoreBlock
    BY <1>1, <1>3, StoreBlockKey
  <1>4. CASE worker'.ok /\ StoreFile
    BY <1>1, <1>4, StoreFileKey
  <1> QED
    BY <1>2, <1>3, <1>4 DEF Store

\* The trim of a demotion reaches cblock 0.
LEMMA TrimLandsKey ==
  ASSUME Base, TrimLands, NEW k \in Keys \ spoiled', k \notin spoiled => KeyOK(k)
  PROVE  KeyOK(k)'
  <1>1. /\ UNCHANGED <<entry, table, client, worker, file, buf, io, valid, fresh>>
        /\ \A e \in Entries : e # 0 => ssd'[e] = ssd[e]
    BY DEF TrimLands, vars
  <1>2. k \notin spoiled /\ KeyOK(k) /\ (Loaded(0) => k \notin Victim(0))
    BY DEF TrimLands, spoil
  <1>3. /\ h_lookup(k)' = h_lookup(k) /\ h_lookup(k) \subseteq table
        /\ \A e \in h_lookup(k) : WrittenSince(e)' <=> WrittenSince(e)
        /\ \A e \in h_lookup(k) : entry[e].key = k
    BY <1>1, CopyLeaves
  <1>4. ASSUME NEW e \in h_lookup(k), e \notin fresh PROVE ssd'[e] = ssd[e]
    <2>1. e \in table /\ e \in Entries /\ entry[e].alloc /\ entry[e].key = k
      BY <1>3, BaseFacts
    <2>2. CASE e = 0
      <3>1. Loaded(0)
        BY <1>4, <2>1, <2>2, BaseFacts DEF Loaded, Copying
      <3> QED
        BY <1>2, <2>1, <2>2, <3>1 DEF Victim
    <2> QED
      BY <1>1, <2>1, <2>2
  <1>5. SamePlace(k)
    BY <1>1, <1>3, <1>4 DEF SamePlace
  <1>6. PromotionOK(k)'
    <2> SUFFICES ASSUME worker.type = "PROMOTION", worker.key = k, worker.pc = "complete", worker.ok
                 PROVE  ssd'[worker.blk] = ssd[worker.blk]
      BY <1>1, <1>2 DEF KeyOK, PromotionOK
    <2>1. /\ worker.blk \in Entries /\ entry[worker.blk].alloc /\ entry[worker.blk].key = k
          /\ worker.blk \notin fresh
      BY <1>2, BaseFacts DEF Copying, KeyOK, PromotionOK
    <2>2. worker.blk # 0
      BY <1>2, <2>1 DEF Loaded, Victim
    <2> QED
      BY <1>1, <2>1, <2>2
  <1>7. ASSUME NEW e \in h_lookup(k) PROVE BlockOK(k, e)'
    <2>1. BlockOK(k, e) /\ (UnderWriteback(e)' <=> UnderWriteback(e))
      BY <1>1, <1>2 DEF KeyOK, UnderWriteback
    <2>2. WrittenSince(e)' <=> WrittenSince(e)
      BY <1>3
    <2> HIDE DEF WrittenSince, UnderWriteback
    <2> QED
      BY <1>1, <1>4, <2>1, <2>2 DEF BlockOK
  <1> QED
    BY <1>1, <1>2, <1>5, <1>6, <1>7, WorkerFrame

\* The promoted block is hashed: the page is found there from now on.
LEMMA PromotedKey ==
  ASSUME Base, promotion_complete, UNCHANGED <<media, promise>>, NEW k \in Keys, KeyOK(k)
  PROVE  KeyOK(k)'
  <1>0. PICK b \in Entries : b = worker.blk
    BY BaseFacts DEF promotion_complete, completes, Copying
  <1>1. /\ worker \in WorkerRecord /\ entry \in [Entries -> EntryRecord] /\ table \subseteq Entries
        /\ worker.pc = "complete" /\ worker.pc \in Copying /\ worker.type = "PROMOTION"
        /\ worker'.pc = "remove" /\ UNCHANGED <<client, ssd, file, buf, io, valid, fresh>>
    BY BaseFacts DEF promotion_complete, completes, goto, Copying, WorkerRecord, media, promise
  <1>2. b \notin table /\ entry[b].key = worker.key /\ h_lookup(worker.key) = {}
    BY <1>0, <1>1, BaseFacts
  <1>3. /\ table' = IF worker.ok THEN table \cup {b} ELSE table
        /\ \A e \in Entries : entry'[e].key = entry[e].key /\ entry'[e].dirty = entry[e].dirty
    <2>1. entry' = [entry EXCEPT ![b].pending = FALSE]
            \/ entry' = [entry EXCEPT ![b].pending = FALSE, ![b].alloc = FALSE]
      BY <1>0 DEF promotion_complete, unpend
    <2>2. \A e \in Entries : entry'[e].key = entry[e].key /\ entry'[e].dirty = entry[e].dirty
      BY <1>1, <2>1 DEF EntryRecord
    <2> QED
      BY <1>0, <2>2 DEF promotion_complete
  <1>4. PromotionOK(k)' /\ \A e : UnderWriteback(e)' = FALSE /\ UnderWriteback(e) = FALSE
    BY <1>1 DEF PromotionOK, UnderWriteback
  <1>5. \A e \in Entries : WrittenSince(e)' <=> WrittenSince(e)
    BY <1>1, <1>3 DEF WrittenSince
  <1>6. ASSUME ~(worker.ok /\ worker.key = k) PROVE KeyOK(k)'
    <2>1. h_lookup(k)' = h_lookup(k) /\ h_lookup(k) \subseteq Entries
      <3>1. \A e \in table : entry'[e].key = entry[e].key /\ e \in Entries
        BY <1>1, <1>3
      <3> QED
        BY <1>2, <1>3, <1>6, <3>1 DEF h_lookup
    <2>2. SamePlace(k)
      BY <1>1, <2>1 DEF SamePlace
    <2>3. ASSUME NEW e \in h_lookup(k) PROVE BlockOK(k, e)'
      <3>1. BlockOK(k, e) /\ (WrittenSince(e)' <=> WrittenSince(e))
        BY <1>5, <2>1 DEF KeyOK
      <3> HIDE DEF WrittenSince, UnderWriteback
      <3> QED
        BY <1>1, <1>4, <3>1 DEF BlockOK
    <2> QED
      BY <1>1, <1>4, <2>2, <2>3, WorkerFrame
  <1>7. ASSUME worker.ok, worker.key = k PROVE KeyOK(k)'
    <2>1. h_lookup(k) = {} /\ h_lookup(k)' = {b}
      <3>1. \A e \in table : entry'[e].key = entry[e].key /\ entry'[b].key = k
        BY <1>1, <1>2, <1>3, <1>7
      <3> QED
        BY <1>2, <1>3, <1>7, <3>1 DEF h_lookup
    <2>2. b \notin fresh /\ ssd[b] = file[k]
      BY <1>0, <1>1, <1>7 DEF KeyOK, PromotionOK
    <2>3. Current(k)' = Current(k) /\ Current(k) = {file[k]}
      BY <1>1, <2>1, <2>2 DEF Current
    <2>4. BlockOK(k, b)'
      BY <1>1, <2>2 DEF BlockOK
    <2>5. ASSUME NEW c \in Clients PROVE ReaderOK(k, c)'
      <3>1. ReaderOK(k, c)
        BY DEF KeyOK
      <3> QED
        BY <1>1, <2>3, <3>1 DEF ReaderOK, Reading
    <2>6. ASSUME NEW c \in Clients PROVE WriterOK(k, c)'
      <3>1. WriterOK(k, c)
        BY DEF KeyOK
      <3> QED
        BY <1>1, <2>1, <3>1 DEF WriterOK
    <2>7. Current(k)' \subseteq valid'[k]
      BY <1>1, <2>3 DEF KeyOK
    <2>8. \A e \in h_lookup(k)' : BlockOK(k, e)'
      BY <2>1, <2>4
    <2> QED
      BY <1>4, <2>5, <2>6, <2>7, <2>8 DEF KeyOK
  <1> QED
    BY <1>6, <1>7

\* A block that leaves the cache has what the file has.
LEMMA EvictKey ==
  ASSUME Base, Evict, NEW k \in Keys \ spoiled', k \notin spoiled => KeyOK(k)
  PROVE  KeyOK(k)'
  <1>0. PICK b \in Entries : b = worker.blk
    BY BaseFacts DEF Evict, demotion_complete, completes, Copying
  <1>1. /\ worker \in WorkerRecord /\ entry \in [Entries -> EntryRecord] /\ table \subseteq Entries
        /\ worker.pc = "complete" /\ worker.pc \in Copying /\ worker.type = "DEMOTION"
        /\ worker'.pc = "remove" /\ UNCHANGED <<client, ssd, file, buf, io, valid, fresh>>
        /\ table' = table \ {b}
    BY <1>0, BaseFacts DEF Evict, demotion_complete, completes, goto, Copying, WorkerRecord, media
  <1>2. b \in table
    BY <1>0, <1>1, BaseFacts
  <1>3. \A e \in Entries : entry'[e].key = entry[e].key /\ entry'[e].dirty = entry[e].dirty
    <2>1. entry' = [entry EXCEPT ![b].pending = FALSE, ![b].alloc = FALSE]
      BY <1>0 DEF Evict, demotion_complete
    <2> QED
      BY <1>1, <2>1 DEF EntryRecord
  <1>4. PromotionOK(k)' /\ \A e : UnderWriteback(e)' = FALSE /\ UnderWriteback(e) = FALSE
    BY <1>1 DEF PromotionOK, UnderWriteback
  <1>5. \A e \in Entries : WrittenSince(e)' <=> WrittenSince(e)
    BY <1>1, <1>3 DEF WrittenSince
  <1>6. KeyOK(k) /\ (entry[b].key = k => ~WrittenSince(b))
    BY <1>0 DEF Evict, spoil_if, spoil, moving
  <1>7. CASE entry[b].key # k
    <2>1. h_lookup(k)' = h_lookup(k) /\ h_lookup(k) \subseteq Entries
      <3>1. \A e \in table : entry'[e].key = entry[e].key /\ e \in Entries
        BY <1>1, <1>3
      <3> QED
        BY <1>1, <1>7, <3>1 DEF h_lookup
    <2>2. SamePlace(k)
      BY <1>1, <2>1 DEF SamePlace
    <2>3. ASSUME NEW e \in h_lookup(k) PROVE BlockOK(k, e)'
      <3>1. BlockOK(k, e) /\ (WrittenSince(e)' <=> WrittenSince(e))
        BY <1>5, <1>6, <2>1 DEF KeyOK
      <3> HIDE DEF WrittenSince, UnderWriteback
      <3> QED
        BY <1>1, <1>4, <3>1 DEF BlockOK
    <2> QED
      BY <1>1, <1>4, <1>6, <2>2, <2>3, WorkerFrame
  <1>8. CASE entry[b].key = k
    <2>1. h_lookup(k) = {b} /\ h_lookup(k)' = {}
      <3>1. \A e \in table : entry'[e].key = entry[e].key /\ (entry[e].key = k => e = b)
        BY <1>1, <1>2, <1>3, <1>8, BaseFacts
      <3> QED
        BY <1>1, <1>2, <1>8, <3>1 DEF h_lookup
    <2>2. b \notin fresh /\ ssd[b] = file[k]
      BY <1>4, <1>6, <1>8, <2>1 DEF KeyOK, BlockOK
    <2>3. Current(k)' = Current(k) /\ Current(k) = {file[k]}
      BY <1>1, <2>1, <2>2 DEF Current
    <2>5. ASSUME NEW c \in Clients PROVE ReaderOK(k, c)'
      <3>1. ReaderOK(k, c)
        BY <1>6 DEF KeyOK
      <3> QED
        BY <1>1, <2>3, <3>1 DEF ReaderOK, Reading
    <2>6. ASSUME NEW c \in Clients PROVE WriterOK(k, c)'
      <3>1. WriterOK(k, c)
        BY <1>6 DEF KeyOK
      <3>2. ~(client[c].pc = "set_dirty" /\ client[c].blk = b)
        BY <1>6, <1>8 DEF WrittenSince
      <3> QED
        BY <1>1, <2>1, <3>1, <3>2 DEF WriterOK
    <2>7. Current(k)' \subseteq valid'[k]
      BY <1>1, <1>6, <2>3 DEF KeyOK
    <2> QED
      BY <1>4, <2>1, <2>5, <2>6, <2>7 DEF KeyOK
  <1> QED
    BY <1>7, <1>8

\* A block that has been written back has what the file has, or has been
\* written meanwhile.
LEMMA WrittenBackKey ==
  ASSUME Base, WrittenBack, NEW k \in Keys \ spoiled', k \notin spoiled => KeyOK(k)
  PROVE  KeyOK(k)'
  <1>0. PICK b \in Entries : b = worker.blk
    BY BaseFacts DEF WrittenBack, writeback_complete, completes, Copying
  <1>1. /\ worker \in WorkerRecord /\ entry \in [Entries -> EntryRecord] /\ table \subseteq Entries
        /\ worker.pc = "complete" /\ worker.type = "WRITEBACK"
        /\ worker'.pc = "remove" /\ UNCHANGED <<client, ssd, file, buf, io, valid, fresh, table>>
    BY <1>0, BaseFacts DEF WrittenBack, writeback_complete, completes, goto, WorkerRecord, media
  <1>2. \A e \in Entries : entry'[e].key = entry[e].key /\ entry'[e].dirty = entry[e].dirty
    <2>1. entry' = [entry EXCEPT ![b].pending = FALSE]
      BY <1>0 DEF WrittenBack, writeback_complete, unpend
    <2> QED
      BY <1>1, <2>1 DEF EntryRecord
  <1>3. h_lookup(k)' = h_lookup(k) /\ h_lookup(k) \subseteq Entries
    <2>1. \A e \in table : entry'[e].key = entry[e].key /\ e \in Entries
      BY <1>1, <1>2
    <2> QED
      BY <1>1, <2>1 DEF h_lookup
  <1>4. KeyOK(k) /\ (entry[b].key = k => worker.ok \/ WrittenSince(b))
    BY <1>0 DEF WrittenBack, spoil_if, spoil, moving
  <1>5. \A e \in Entries : WrittenSince(e)' <=> WrittenSince(e)
    BY <1>1, <1>2 DEF WrittenSince
  <1>6. SamePlace(k) /\ PromotionOK(k)'
    BY <1>1, <1>3 DEF SamePlace, PromotionOK
  <1>7. ASSUME NEW e \in h_lookup(k) PROVE BlockOK(k, e)'
    <2>1. BlockOK(k, e) /\ entry[e].key = k /\ (WrittenSince(e)' <=> WrittenSince(e))
      BY <1>3, <1>4, <1>5 DEF KeyOK, h_lookup
    <2>2. WrittenSince(e) \/ (e \notin fresh /\ ssd[e] = file[k])
      <3> HIDE DEF WrittenSince
      <3> QED
        BY <1>0, <1>1, <1>4, <2>1 DEF BlockOK, UnderWriteback
    <2> HIDE DEF WrittenSince, UnderWriteback
    <2> QED
      BY <1>1, <2>1, <2>2 DEF BlockOK
  <1> QED
    BY <1>1, <1>4, <1>6, <1>7, WorkerFrame

\* Whatever the worker does, what it has not spoiled is as promised.
LEMMA WorkerKeys ==
  ASSUME Base, DInv, Fetch \/ Store \/ Trim \/ TrimLands \/ Evict \/ WrittenBack \/ Steer,
         NEW k \in Keys \ spoiled'
  PROVE  KeyOK(k)'
  <1>1. /\ ssd \in [Entries -> Written] /\ file \in [Keys -> Written] /\ k \in Keys
        /\ k \notin spoiled => KeyOK(k)
    BY DEF DInv, DTypeOK
  <1>2. CASE Fetch
    BY <1>1, <1>2, FetchKey
  <1>3. CASE Store
    BY <1>1, <1>3, StoreKey
  <1>4. CASE Trim
    <2>1. MgTrim /\ UNCHANGED <<ssd, file, buf, io, valid, fresh, spoiled>>
      BY <1>4 DEF Trim, promise
    <2> QED
      BY <1>1, <2>1, NoCopyKey
  <1>5. CASE TrimLands
    BY <1>1, <1>5, TrimLandsKey
  <1>6. CASE Evict
    BY <1>1, <1>6, EvictKey
  <1>7. CASE WrittenBack
    BY <1>1, <1>7, WrittenBackKey
  <1>8. CASE Steer
    <2>1. UNCHANGED <<media, promise>> /\ KeyOK(k)
      BY <1>1, <1>8 DEF Steer, promise
    <2>2. CASE promotion_complete
      BY <2>1, <2>2, PromotedKey
    <2> QED
      BY <1>8, <2>1, <2>2, SteerStartKeys DEF Steer
  <1> QED
    BY <1>2, <1>3, <1>4, <1>5, <1>6, <1>7, <1>8

-----------------------------------------------------------------------------
(* Types and requests, while the worker moves what is there.                *)

Held == {NoData, buf} \cup {ssd[e] : e \in Entries} \cup {file[k] : k \in Keys}

LEMMA HeldIsWritten ==
  ASSUME DTypeOK
  PROVE  /\ Held \subseteq Written
         /\ \A c \in Clients : RequestsOK /\ Writing(c) /\ client[c].pc # "set_dirty" =>
                                 io[c].data \notin Held
  <1>1. Held \subseteq Written
    BY DEF DTypeOK, Held, Written
  <1>2. ASSUME RequestsOK, NEW c \in Clients, Writing(c), client[c].pc # "set_dirty"
        PROVE  io[c].data \notin Held
    <2>1. RequestOK(c) /\ UnseenOK(c) /\ writes \in Nat
      BY <1>2 DEF RequestsOK, DTypeOK
    <2>2. io[c].data \in Keys \X Nat
      BY <1>2, <2>1 DEF RequestOK, Writing
    <2>3. io[c].data # NoData
      BY <2>2, DataPathAssumption
    <2> QED
      BY <1>2, <2>1, <2>3 DEF UnseenOK, Held
  <1> QED
    BY <1>1, <1>2

LEMMA WorkerData ==
  ASSUME DTypeOK, RequestsOK, UNCHANGED <<client, io, valid, writes>>,
         ssd' \in [Entries -> Held], file' \in [Keys -> Held], buf' \in Held,
         trims' \in 0 .. MaxTrims, spoiled' \subseteq Keys, fresh' \subseteq Entries
  PROVE  DTypeOK' /\ RequestsOK'
  <1>1. Written' = Written
    BY DEF Written
  <1>2. DTypeOK'
    BY <1>1, HeldIsWritten DEF DTypeOK
  <1>3. ASSUME NEW c \in Clients PROVE RequestOK(c)' /\ PromiseOK(c)'
    <2>1. RequestOK(c) /\ PromiseOK(c)
      BY DEF RequestsOK
    <2> QED
      BY <2>1 DEF RequestOK, PromiseOK, Reading, Writing
  <1>4. ASSUME NEW c \in Clients PROVE UnseenOK(c)'
    <2> SUFFICES ASSUME Writing(c), client[c].pc # "set_dirty"
                 PROVE  /\ \A e \in Entries : ssd'[e] # io[c].data
                        /\ \A k \in Keys : file'[k] # io[c].data
                        /\ buf' # io[c].data
      BY DEF UnseenOK, Writing
    <2>1. io[c].data \notin Held
      BY HeldIsWritten
    <2> HIDE DEF Held
    <2> QED
      BY <2>1
  <1> QED
    BY <1>2, <1>3, <1>4 DEF RequestsOK

LEMMA WorkerGlobal ==
  ASSUME Base, DInv, Fetch \/ Store \/ Trim \/ TrimLands \/ Evict \/ WrittenBack \/ Steer
  PROVE  DTypeOK' /\ RequestsOK'
  <1>0. /\ DTypeOK /\ RequestsOK /\ MaxTrims \in Nat
        /\ entry \in [Entries -> EntryRecord] /\ table \subseteq Entries
    BY BaseFacts, DataPathAssumption DEF DInv
  <1>1. ssd \in [Entries -> Held] /\ file \in [Keys -> Held] /\ buf \in Held /\ NoData \in Held
    BY <1>0 DEF DTypeOK, Held
  <1>2. /\ trims \in 0 .. MaxTrims /\ spoiled \subseteq Keys /\ fresh \subseteq Entries
    BY <1>0 DEF DTypeOK
  <1> HIDE DEF Held
  <1>3. UNCHANGED <<client, io, valid, writes>>
    BY CopyWorker DEF Fetch, Store, Trim, TrimLands, Evict, WrittenBack, Steer, promise, vars,
       demotion_complete, writeback_complete, peak_work, promotion_free_to_clean,
       PromotionRefused, demotion_clean_to_free, DemotionRefused, writeback_dirty_to_clean,
       WritebackRefused, promotion_complete, remove_work
  <1>4. worker.pc \in Copying => worker.blk \in Entries /\ moving \in Keys
    BY BaseFacts DEF moving
  <1>5. CASE Fetch
    <2>1. worker.pc \in Copying
      BY <1>5, CopyWorker DEF Fetch
    <2>2. buf' \in Held
      BY <1>0, <1>1, <1>4, <1>5, <2>1 DEF Fetch, FetchFile, FetchBlock
    <2>3. spoiled' \subseteq Keys
      BY <1>2, <1>4, <1>5, <2>1 DEF Fetch, FetchFile, FetchBlock, spoil_if, spoil
    <2>4. UNCHANGED <<ssd, file, trims, fresh>>
      BY <1>5 DEF Fetch
    <2> QED
      BY <1>0, <1>1, <1>2, <1>3, <2>2, <2>3, <2>4, WorkerData
  <1>6. CASE Store
    <2>1. worker.pc \in Copying
      BY <1>6, CopyWorker DEF Store
    <2>2. ssd' = ssd \/ ssd' = [ssd EXCEPT ![worker.blk] = buf]
      BY <1>6 DEF Store, StoreBlock, StoreFile
    <2>3. file' = file \/ file' = [file EXCEPT ![moving] = buf]
      BY <1>6 DEF Store, StoreBlock, StoreFile
    <2>4. ssd' \in [Entries -> Held] /\ file' \in [Keys -> Held]
      BY <1>1, <2>2, <2>3
    <2>5. spoiled' \subseteq Keys /\ fresh' \subseteq Entries
      BY <1>2, <1>4, <1>6, <2>1 DEF Store, StoreBlock, StoreFile, spoil
    <2>6. UNCHANGED <<buf, trims>>
      BY <1>6 DEF Store
    <2> QED
      BY <1>0, <1>1, <1>2, <1>3, <2>4, <2>5, <2>6, WorkerData
  <1>7. CASE Trim
    <2>1. trims' \in 0 .. MaxTrims
      BY <1>0, <1>2, <1>7 DEF Trim
    <2>2. UNCHANGED <<ssd, file, buf, spoiled, fresh>>
      BY <1>7 DEF Trim, promise
    <2> QED
      BY <1>0, <1>1, <1>2, <1>3, <2>1, <2>2, WorkerData
  <1>8. CASE TrimLands
    <2>1. trims' \in 0 .. MaxTrims
      BY <1>0, <1>2, <1>8 DEF TrimLands
    <2>2. ssd' \in [Entries -> Held]
      BY <1>1, <1>8 DEF TrimLands
    <2>3. 0 \in Entries
      BY MappingAssumption DEF Entries
    <2>4. spoiled' \subseteq Keys
      BY <1>2, <1>8, <2>3, BaseFacts DEF TrimLands, spoil, Victim
    <2>5. UNCHANGED <<file, buf, fresh>>
      BY <1>8 DEF TrimLands
    <2> QED
      BY <1>0, <1>1, <1>2, <1>3, <2>1, <2>2, <2>4, <2>5, WorkerData
  <1>9. CASE Evict \/ WrittenBack
    <2>1. worker.pc \in Copying
      BY <1>9 DEF Evict, WrittenBack, demotion_complete, writeback_complete, completes, Copying
    <2>2. spoiled' \subseteq Keys
      BY <1>2, <1>4, <1>9, <2>1 DEF Evict, WrittenBack, spoil_if, spoil
    <2>3. UNCHANGED <<ssd, file, buf, trims, fresh>>
      BY <1>9 DEF Evict, WrittenBack, media
    <2> QED
      BY <1>0, <1>1, <1>2, <1>3, <2>2, <2>3, WorkerData
  <1>10. CASE Steer
    <2>1. UNCHANGED <<ssd, file, buf, trims, spoiled, fresh>>
      BY <1>10 DEF Steer, media, promise
    <2> QED
      BY <1>0, <1>1, <1>2, <1>3, <2>1, WorkerData
  <1> QED
    BY <1>5, <1>6, <1>7, <1>8, <1>9, <1>10

-----------------------------------------------------------------------------
(* Types and requests, while the users submit, write and get answers.       *)

\* A request finds the table as it is, or takes a free entry for its page.
Inserts(c, e) ==
  /\ e \in Entries \ table /\ ~entry[e].alloc
  /\ table' = table \cup {e}
  /\ entry' = [entry EXCEPT ![e] =
                 [key |-> client'[c].key, pending |-> FALSE, dirty |-> TRUE, alloc |-> TRUE]]
  /\ client'[c].pc = "cache_io" /\ client'[c].op = "OVERWRITE" /\ client'[c].blk = e
  /\ h_lookup(client'[c].key) = {}

Submits(c) ==
  /\ client[c].pc = "idle" /\ client'[c].key \in Keys
  /\ client'[c].op \in {"READ", "WRITE", "OVERWRITE"}
  /\ client'[c].pc \in {"cache_io", "origin_io"}
  /\ client'[c].pc = "origin_io" => h_lookup(client'[c].key) = {}
  /\ \A d \in Clients \ {c} : client'[d] = client[d]

LEMMA RequestFacts ==
  ASSUME Base, NEW c \in Clients, Request(c)
  PROVE  /\ Submits(c) /\ UNCHANGED worker
         /\ \/ UNCHANGED <<entry, table>>
            \/ \E e \in Entries : Inserts(c, e)
  <1>0. /\ client \in [Clients -> ClientRecord] /\ TypeOK /\ Struct
        /\ Ops \subseteq {"READ", "WRITE", "OVERWRITE"}
    BY BaseFacts, MappingAssumption, DataPathAssumption DEF AllOps
  <1>1. ASSUME NEW pc, NEW op, NEW k, NEW e, goes(c, pc, op, k, e)
        PROVE  /\ client'[c].pc = pc /\ client'[c].op = op /\ client'[c].key = k
               /\ client'[c].blk = e
               /\ \A d \in Clients \ {c} : client'[d] = client[d]
    BY <1>0, <1>1 DEF goes
  <1>2. PICK k \in Keys : \/ \E op \in Ops : LookupHit(c, op, k) \/ LookupMiss(c, op, k)
                          \/ InsertQueued(c, k) \/ InsertNoRoom(c, k) \/ InsertDirty(c, k)
    BY DEF Request
  <1>3. CASE \E op \in Ops : LookupHit(c, op, k)
    <2>1. PICK op \in Ops, e \in h_lookup(k) : goes(c, "cache_io", op, k, e)
      BY <1>3 DEF LookupHit
    <2>2. client[c].pc = "idle" /\ UNCHANGED <<entry, table, worker>>
      BY <1>3 DEF LookupHit
    <2> QED
      BY <1>0, <1>1, <2>1, <2>2 DEF Submits
  <1>4. CASE \E op \in Ops : LookupMiss(c, op, k)
    <2>1. PICK op \in Ops : goes(c, "origin_io", op, k, NoBlock) /\ h_lookup(k) = {}
      BY <1>4 DEF LookupMiss
    <2>2. client[c].pc = "idle" /\ UNCHANGED <<entry, table, worker>>
      BY <1>4 DEF LookupMiss
    <2> QED
      BY <1>0, <1>1, <2>1, <2>2 DEF Submits
  <1>5. CASE InsertQueued(c, k) \/ InsertNoRoom(c, k)
    <2>1. /\ client[c].pc = "idle" /\ UNCHANGED <<entry, table, worker>> /\ h_lookup(k) = {}
          /\ goes(c, "origin_io", "OVERWRITE", k, NoBlock)
      BY <1>5 DEF InsertQueued, InsertNoRoom, InsertMiss
    <2> QED
      BY <1>1, <2>1 DEF Submits
  <1>6. CASE InsertDirty(c, k)
    <2> DEFINE h == Head(free)
    <2>1. /\ client[c].pc = "idle" /\ UNCHANGED worker /\ h_lookup(k) = {}
          /\ goes(c, "cache_io", "OVERWRITE", k, h)
          /\ free # <<>> /\ table' = table \cup {h}
          /\ entry' = [entry EXCEPT ![h] =
                         [key |-> k, pending |-> FALSE, dirty |-> TRUE, alloc |-> TRUE]]
      BY <1>6 DEF InsertDirty, InsertMiss, insert_dirty
    <2>2. h \in Entries /\ ~entry[h].alloc /\ h \notin table
      <3>1. h \in ToSet(free) /\ h \in Entries
        BY <1>0, <2>1, PopProperties DEF TypeOK
      <3> QED
        BY <1>0, <3>1, WhereIs
    <2> HIDE DEF h
    <2>3. /\ client'[c].pc = "cache_io" /\ client'[c].op = "OVERWRITE" /\ client'[c].key = k
          /\ client'[c].blk = h
          /\ \A d \in Clients \ {c} : client'[d] = client[d]
      BY <1>1, <2>1
    <2> QED
      BY <2>1, <2>2, <2>3 DEF Submits, Inserts
  <1> QED
    BY <1>2, <1>3, <1>4, <1>5, <1>6

\* A read takes part in what is promised, and so does a write.
SubmitsRead(c) ==
  /\ client'[c].op = "READ"
  /\ io' = [io EXCEPT ![c].seen = valid[client'[c].key]]
  /\ UNCHANGED <<valid, writes>>

UnderWay == {io[d].data : d \in Clients} \ {NoData}

SubmitsWrite(c, k, v) ==
  /\ k = client'[c].key /\ v = <<k, writes + 1>>
  /\ client'[c].op # "READ"
  /\ writes < MaxWrites /\ writes' = writes + 1
  /\ valid' = [valid EXCEPT ![k] = @ \cup {v}]
  /\ io' = [d \in Clients |->
              IF d = c THEN [data |-> v, seen |-> valid[k] \ UnderWay]
              ELSE IF Reading(d) /\ client[d].key = k THEN [io[d] EXCEPT !.seen = @ \cup {v}]
              ELSE io[d]]

LEMMA SubmitCases ==
  ASSUME NEW c \in Clients, Submit(c)
  PROVE  /\ Request(c) /\ fresh' = fresh \cup (table' \ table)
         /\ UNCHANGED <<ssd, file, buf, trims, spoiled>>
         /\ SubmitsRead(c) \/ \E k, v : SubmitsWrite(c, k, v)
  BY DEF Submit, SubmitsRead, SubmitsWrite, UnderWay, Reading, media

\* Of the others, a read sees one more version, and the rest is as before.
LEMMA SubmitIO ==
  ASSUME DTypeOK, RequestsOK, NEW c \in Clients, Submits(c), Submit(c)
  PROVE  /\ OthersWait(c)
         /\ \A d \in Clients \ {c} : io'[d].data = io[d].data
         /\ \A k \in Keys : valid[k] \subseteq valid'[k]
         /\ io'[c].seen \subseteq valid[client'[c].key]
         /\ client'[c].op = "READ" => io'[c].seen = valid[client'[c].key]
  <1>0. io \in [Clients -> [data : Written, seen : SUBSET Written]] /\ valid \in [Keys -> SUBSET Written]
    BY DEF DTypeOK
  <1>1. CASE SubmitsRead(c)
    <2>1. /\ \A d \in Clients \ {c} : io'[d] = io[d]
          /\ io'[c].seen = valid[client'[c].key]
      BY <1>0, <1>1 DEF SubmitsRead
    <2> QED
      BY <1>1, <2>1 DEF SubmitsRead, OthersWait, Submits
  <1>2. ASSUME NEW k, NEW v, SubmitsWrite(c, k, v)
        PROVE  /\ OthersWait(c)
               /\ \A d \in Clients \ {c} : io'[d].data = io[d].data
               /\ \A j \in Keys : valid[j] \subseteq valid'[j]
               /\ io'[c].seen \subseteq valid[client'[c].key]
               /\ client'[c].op # "READ"
    <2>1. \A j \in Keys : valid[j] \subseteq valid'[j]
      BY <1>0, <1>2 DEF SubmitsWrite
    <2>2. io'[c].seen \subseteq valid[client'[c].key] /\ client'[c].op # "READ"
      BY <1>2 DEF SubmitsWrite
    <2>3. ASSUME NEW d \in Clients \ {c}
          PROVE  /\ io'[d].data = io[d].data
                 /\ io[d].seen \subseteq io'[d].seen
                 /\ ~Reading(d) => io'[d].seen = io[d].seen
      <3>1. CASE Reading(d) /\ client[d].key = k
        <4>1. io'[d] = [io[d] EXCEPT !.seen = io[d].seen \cup {v}]
          BY <1>2, <3>1 DEF SubmitsWrite
        <4> QED
          BY <1>0, <3>1, <4>1
      <3>2. CASE ~(Reading(d) /\ client[d].key = k)
        <4>1. io'[d] = io[d]
          BY <1>2, <3>2 DEF SubmitsWrite
        <4> QED
          BY <4>1
      <3> QED
        BY <3>1, <3>2
    <2> QED
      BY <2>1, <2>2, <2>3 DEF OthersWait, Submits
  <1> QED
    BY <1>1, <1>2, SubmitCases

LEMMA SubmitReadGlobal ==
  ASSUME DTypeOK, RequestsOK, NEW c \in Clients, Submits(c), SubmitsRead(c),
         UNCHANGED <<ssd, file, buf, trims, spoiled>>, fresh' \subseteq Entries
  PROVE  DTypeOK' /\ RequestsOK'
  <1> DEFINE k == client'[c].key
  <1>0. /\ Written' = Written
        /\ io \in [Clients -> [data : Written, seen : SUBSET Written]]
        /\ valid \in [Keys -> SUBSET Written]
    BY DEF DTypeOK, Written, SubmitsRead
  <1>1. /\ k \in Keys /\ \A d \in Clients \ {c} : io'[d] = io[d] /\ client'[d] = client[d]
        /\ io'[c].seen = valid[k] /\ io'[c].data = io[c].data
        /\ client'[c].op = "READ" /\ client'[c].pc \in {"cache_io", "origin_io"}
        /\ client[c].pc = "idle" /\ UNCHANGED <<valid, writes>>
    BY <1>0 DEF SubmitsRead, Submits
  <1>2. DTypeOK'
    <2>1. io' \in [Clients -> [data : Written, seen : SUBSET Written]]
      BY <1>0, <1>1 DEF SubmitsRead
    <2> QED
      BY <1>0, <1>1, <2>1 DEF DTypeOK
  <1>3. RequestOK(c)' /\ UnseenOK(c)' /\ PromiseOK(c)'
    <2>1. io[c].data = NoData
      BY <1>1 DEF RequestsOK, RequestOK, Writing
    <2> QED
      BY <1>1, <2>1 DEF RequestOK, UnseenOK, PromiseOK, Writing
  <1>4. ASSUME NEW d \in Clients \ {c} PROVE RequestOK(d)' /\ UnseenOK(d)' /\ PromiseOK(d)'
    <2>1. RequestOK(d) /\ UnseenOK(d) /\ PromiseOK(d) /\ io'[d] = io[d] /\ client'[d] = client[d]
      BY <1>1 DEF RequestsOK
    <2>2. RequestOK(d)' /\ UnseenOK(d)'
      BY <1>1, <2>1 DEF RequestOK, UnseenOK, Writing
    <2>3. ASSUME Writing(d), NEW f \in Clients
          PROVE  /\ Writing(f)' => io[d].data \notin io'[f].seen /\ (io[d].data = io'[f].data => d = f)
                 /\ Reading(f)' /\ client'[f].key = client[d].key => io[d].data \in io'[f].seen
      <3>1. CASE f = c
        BY <1>1, <2>1, <2>3, <3>1 DEF PromiseOK, Writing
      <3>2. CASE f # c
        BY <1>1, <2>1, <2>3, <3>2 DEF PromiseOK, Writing, Reading
      <3> QED
        BY <3>1, <3>2
    <2>4. PromiseOK(d)'
      BY <1>1, <2>1, <2>3 DEF PromiseOK, Writing
    <2> QED
      BY <2>2, <2>4
  <1>5. ASSUME NEW d \in Clients PROVE RequestOK(d)' /\ UnseenOK(d)' /\ PromiseOK(d)'
    BY <1>3, <1>4
  <1> QED
    BY <1>2, <1>5 DEF RequestsOK

\* A version that is submitted is new: it is nowhere, and supersedes only what
\* is not under way.
LEMMA SubmitWriteGlobal ==
  ASSUME DTypeOK, RequestsOK, NEW c \in Clients, Submits(c), NEW k, NEW v, SubmitsWrite(c, k, v),
         UNCHANGED <<ssd, file, buf, trims, spoiled>>, fresh' \subseteq Entries
  PROVE  DTypeOK' /\ RequestsOK'
  <1>0. /\ io \in [Clients -> [data : Written, seen : SUBSET Written]]
        /\ valid \in [Keys -> SUBSET Written] /\ ssd \in [Entries -> Written]
        /\ file \in [Keys -> Written] /\ buf \in Written
        /\ writes \in Nat /\ writes < MaxWrites /\ writes' = writes + 1
        /\ MaxWrites \in Nat /\ writes' \in 0 .. MaxWrites
    BY DataPathAssumption DEF DTypeOK, SubmitsWrite
  <1>1. /\ k \in Keys /\ k = client'[c].key /\ \A d \in Clients \ {c} : client'[d] = client[d]
        /\ client'[c].op \in {"WRITE", "OVERWRITE"}
        /\ client'[c].pc \in {"cache_io", "origin_io"} /\ client[c].pc = "idle"
    BY DEF SubmitsWrite, Submits
  <1>2. v \in Keys \X (1 .. writes') /\ v \in {k} \X (1 .. writes') /\ v \notin Written /\ v # NoData
    <2>1. v = <<k, writes + 1>>
      BY DEF SubmitsWrite
    <2>2. v \in Keys \X Nat
      BY <1>0, <1>1, <2>1
    <2>3. v # NoData
      BY <2>2, DataPathAssumption
    <2> QED
      BY <1>0, <1>1, <2>1, <2>3 DEF Written
  <1>3. Written \subseteq Written' /\ v \in Written'
    BY <1>0, <1>2 DEF Written
  <1>4. /\ valid' = [valid EXCEPT ![k] = valid[k] \cup {v}]
        /\ io'[c].data = v /\ io'[c].seen = valid[k] \ UnderWay
        /\ \A d \in Clients \ {c} :
             /\ io'[d].data = io[d].data
             /\ io[d].seen \subseteq io'[d].seen /\ io'[d].seen \subseteq io[d].seen \cup {v}
             /\ ~Reading(d) => io'[d].seen = io[d].seen
             /\ Reading(d) /\ client[d].key = k => v \in io'[d].seen
    <2>1. ASSUME NEW d \in Clients \ {c}
          PROVE  /\ io'[d].data = io[d].data
                 /\ io[d].seen \subseteq io'[d].seen /\ io'[d].seen \subseteq io[d].seen \cup {v}
                 /\ ~Reading(d) => io'[d].seen = io[d].seen
                 /\ Reading(d) /\ client[d].key = k => v \in io'[d].seen
      <3>1. CASE Reading(d) /\ client[d].key = k
        <4>1. io'[d] = [io[d] EXCEPT !.seen = io[d].seen \cup {v}]
          BY <3>1 DEF SubmitsWrite
        <4> QED
          BY <1>0, <3>1, <4>1
      <3>2. CASE ~(Reading(d) /\ client[d].key = k)
        <4>1. io'[d] = io[d]
          BY <3>2 DEF SubmitsWrite
        <4> QED
          BY <3>2, <4>1
      <3> QED
        BY <3>1, <3>2
    <2> QED
      BY <2>1 DEF SubmitsWrite
  <1>5. DTypeOK'
    <2>1. ASSUME NEW d \in Clients PROVE io'[d] \in [data : Written', seen : SUBSET Written']
      <3>1. CASE d = c
        BY <1>0, <1>1, <1>3, <3>1 DEF SubmitsWrite
      <3>2. CASE d # c
        BY <1>0, <1>3, <3>2 DEF SubmitsWrite
      <3> QED
        BY <3>1, <3>2
    <2>2. io' \in [Clients -> [data : Written', seen : SUBSET Written']]
      BY <2>1 DEF SubmitsWrite
    <2>3. valid' \in [Keys -> SUBSET Written']
      BY <1>0, <1>1, <1>3, <1>4
    <2>4. ssd \in [Entries -> Written'] /\ file \in [Keys -> Written'] /\ buf \in Written'
      BY <1>0, <1>3
    <2> QED
      BY <1>0, <2>2, <2>3, <2>4 DEF DTypeOK
  <1>6. ASSUME NEW j \in Keys PROVE valid[j] \subseteq valid'[j]
    BY <1>0, <1>1, <1>4
  <1>7. RequestOK(c)' /\ UnseenOK(c)'
    <2>1. RequestOK(c)'
      BY <1>1, <1>2, <1>4 DEF RequestOK, Writing
    <2>2. /\ \A e \in Entries : ssd[e] # v
          /\ \A j \in Keys : file[j] # v
          /\ buf # v
      BY <1>0, <1>2
    <2> QED
      BY <1>4, <2>1, <2>2 DEF UnseenOK
  <1>8. PromiseOK(c)'
    <2>1. v \in valid'[k]
      BY <1>0, <1>1, <1>4
    <2>2. ASSUME NEW d \in Clients
          PROVE  /\ Writing(d)' => v \notin io'[d].seen /\ (v = io'[d].data => c = d)
                 /\ Reading(d)' /\ client'[d].key = k => v \in io'[d].seen
      <3>1. CASE d = c
        BY <1>0, <1>1, <1>2, <1>4, <3>1 DEF Reading
      <3>2. CASE d # c
        <4>1. io[d].data \in Written /\ io[d].seen \subseteq Written
          BY <1>0
        <4>2. client'[d] = client[d]
          BY <1>1, <3>2
        <4> QED
          BY <1>2, <1>4, <3>2, <4>1, <4>2 DEF Writing, Reading
      <3> QED
        BY <3>1, <3>2
    <2> QED
      BY <1>1, <1>4, <2>1, <2>2 DEF PromiseOK
  <1>9. ASSUME NEW d \in Clients \ {c} PROVE RequestOK(d)' /\ UnseenOK(d)' /\ PromiseOK(d)'
    <2>1. /\ RequestOK(d) /\ UnseenOK(d) /\ PromiseOK(d)
          /\ io'[d].data = io[d].data /\ client'[d] = client[d]
      BY <1>1, <1>4 DEF RequestsOK
    <2>2. RequestOK(d)'
      <3>1. 1 .. writes \subseteq 1 .. writes'
        BY <1>0
      <3> QED
        BY <2>1, <3>1 DEF RequestOK, Writing
    <2>3. UnseenOK(d)'
      BY <2>1 DEF UnseenOK, Writing
    <2>4. ASSUME Writing(d), NEW f \in Clients
          PROVE  /\ Writing(f)' => io[d].data \notin io'[f].seen /\ (io[d].data = io'[f].data => d = f)
                 /\ Reading(f)' /\ client'[f].key = client[d].key => io[d].data \in io'[f].seen
      <3>1. io[d].data \in UnderWay /\ io[d].data # v
        <4>1. io[d].data \in Keys \X Nat /\ io[d].data \in Written
          BY <1>0, <2>1, <2>4 DEF RequestOK, Writing
        <4> QED
          BY <1>2, <4>1, DataPathAssumption DEF UnderWay
      <3>2. CASE f = c
        BY <1>1, <1>4, <3>1, <3>2 DEF Reading
      <3>3. CASE f # c
        <4>1. /\ client'[f] = client[f] /\ io'[f].data = io[f].data
              /\ io[f].seen \subseteq io'[f].seen
              /\ ~Reading(f) => io'[f].seen = io[f].seen
          BY <1>1, <1>4, <3>3
        <4> QED
          BY <2>1, <2>4, <4>1 DEF PromiseOK, Writing, Reading
      <3> QED
        BY <3>2, <3>3
    <2>5. Writing(d) => client[d].key \in Keys
      BY <2>1 DEF RequestOK, Writing
    <2>6. PromiseOK(d)'
      BY <1>6, <2>1, <2>4, <2>5 DEF PromiseOK, Writing
    <2> QED
      BY <2>2, <2>3, <2>6
  <1>10. ASSUME NEW d \in Clients PROVE RequestOK(d)' /\ UnseenOK(d)' /\ PromiseOK(d)'
    BY <1>7, <1>8, <1>9
  <1> QED
    BY <1>5, <1>10 DEF RequestsOK

LEMMA SubmitGlobal ==
  ASSUME Base, DTypeOK, RequestsOK, NEW c \in Clients, Submit(c)
  PROVE  DTypeOK' /\ RequestsOK'
  <1>1. /\ Submits(c) /\ UNCHANGED <<ssd, file, buf, trims, spoiled>>
        /\ SubmitsRead(c) \/ \E k, v : SubmitsWrite(c, k, v)
    BY SubmitCases, RequestFacts
  <1>2. fresh' \subseteq Entries
    BY SubmitCases, RequestFacts, BaseFacts DEF DTypeOK, Inserts
  <1> QED
    BY <1>1, <1>2, SubmitReadGlobal, SubmitWriteGlobal

\* What a user writes is new to everyone but itself.
Moves(c) ==
  /\ ssd' \in [Entries -> Held \cup {io[c].data}]
  /\ file' \in [Keys -> Held \cup {io[c].data}]
  /\ \A d \in Clients \ {c} : client'[d] = client[d]
  /\ UNCHANGED <<buf, trims, writes>>
  /\ spoiled' \subseteq Keys /\ fresh' \subseteq Entries

LEMMA MovesUnseen ==
  ASSUME DTypeOK, RequestsOK, NEW c \in Clients, client[c].pc # "idle", Moves(c),
         NEW d \in Clients \ {c}, io'[d] = io[d]
  PROVE  RequestOK(d)' /\ UnseenOK(d)'
  <1>1. RequestOK(d) /\ client'[d] = client[d] /\ writes' = writes
    BY DEF RequestsOK, Moves
  <1>2. RequestOK(d)'
    BY <1>1 DEF RequestOK, Writing
  <1>3. UnseenOK(d)'
    <2> SUFFICES ASSUME Writing(d), client[d].pc # "set_dirty"
                 PROVE  /\ \A e \in Entries : ssd'[e] # io[d].data
                        /\ \A k \in Keys : file'[k] # io[d].data
                        /\ buf' # io[d].data
      BY <1>1 DEF UnseenOK, Writing
    <2>1. io[d].data \notin Held /\ buf \in Held
      BY HeldIsWritten DEF Held
    <2>2. io[d].data # io[c].data
      <3>1. CASE Writing(c)
        BY <3>1 DEF RequestsOK, PromiseOK
      <3>2. CASE ~Writing(c)
        <4>1. io[c].data = NoData /\ NoData \in Held
          BY <3>2 DEF RequestsOK, RequestOK, Held
        <4> QED
          BY <2>1, <4>1
      <3> QED
        BY <3>1, <3>2
    <2> HIDE DEF Held
    <2> QED
      BY <2>1, <2>2 DEF Moves
  <1> QED
    BY <1>2, <1>3

LEMMA MovesType ==
  ASSUME DTypeOK, RequestsOK, NEW c \in Clients, Moves(c),
         io' \in [Clients -> [data : Written, seen : SUBSET Written]],
         valid' \in [Keys -> SUBSET Written]
  PROVE  DTypeOK'
  <1>1. Written' = Written /\ io[c].data \in Written
    BY DEF Written, Moves, DTypeOK
  <1>2. Held \cup {io[c].data} \subseteq Written
    BY <1>1, HeldIsWritten
  <1> HIDE DEF Held
  <1> QED
    BY <1>1, <1>2 DEF DTypeOK, Moves

\* A user gets its answer: what it had written, or what that supersedes, is no
\* valid answer any more, and nobody is promised it.
LEMMA AnswerGlobal ==
  ASSUME DTypeOK, RequestsOK, NEW c \in Clients, NEW ok, client[c].pc # "idle",
         Moves(c), client' = [client EXCEPT ![c] = IdleClient], answer(c, ok),
         client \in [Clients -> ClientRecord]
  PROVE  DTypeOK' /\ RequestsOK'
  <1>0. /\ io \in [Clients -> [data : Written, seen : SUBSET Written]]
        /\ valid \in [Keys -> SUBSET Written] /\ NoData \in Written
        /\ RequestOK(c) /\ PromiseOK(c)
    BY DEF DTypeOK, Written, RequestsOK
  <1>1. /\ client'[c] = IdleClient /\ io'[c] = NoIO
        /\ io' \in [Clients -> [data : Written, seen : SUBSET Written]]
        /\ \A d \in Clients \ {c} : io'[d] = io[d] /\ client'[d] = client[d]
    BY <1>0 DEF answer, NoIO
  <1>2. valid' = IF Reading(c) THEN valid
                 ELSE [valid EXCEPT ![client[c].key] =
                         valid[client[c].key] \ (IF ok THEN io[c].seen ELSE {io[c].data})]
    BY DEF answer, Reading
  <1>3. DTypeOK'
    <2>1. valid' \in [Keys -> SUBSET Written]
      BY <1>0, <1>2
    <2> QED
      BY <1>1, <2>1, MovesType
  <1>4. RequestOK(c)' /\ UnseenOK(c)' /\ PromiseOK(c)'
    BY <1>1 DEF RequestOK, UnseenOK, PromiseOK, Writing, IdleClient, NoIO
  <1>5. ASSUME NEW d \in Clients \ {c} PROVE RequestOK(d)' /\ UnseenOK(d)' /\ PromiseOK(d)'
    <2>1. RequestOK(d)' /\ UnseenOK(d)'
      BY <1>1, MovesUnseen
    <2>2. PromiseOK(d) /\ RequestOK(d)
      BY DEF RequestsOK
    <2>3. ASSUME Writing(d) PROVE io[d].data \in valid'[client[d].key]
      <3>1. io[d].data \in valid[client[d].key] /\ client[d].key \in Keys
        BY <2>2, <2>3 DEF PromiseOK, RequestOK, Writing
      <3>2. CASE Reading(c)
        BY <1>2, <3>1, <3>2
      <3>3. CASE ~Reading(c)
        <4>1. Writing(c)
          BY <1>0, <3>3 DEF RequestOK, Reading, Writing
        <4>2. io[d].data \notin io[c].seen /\ io[d].data # io[c].data
          BY <2>2, <2>3, <4>1 DEF PromiseOK
        <4> QED
          BY <1>0, <1>2, <3>1, <3>3, <4>2
      <3> QED
        BY <3>2, <3>3
    <2>4. ASSUME Writing(d), NEW f \in Clients
          PROVE  /\ Writing(f)' => io[d].data \notin io'[f].seen /\ (io[d].data = io'[f].data => d = f)
                 /\ Reading(f)' /\ client'[f].key = client[d].key => io[d].data \in io'[f].seen
      <3>1. CASE f = c
        BY <1>1, <3>1 DEF Writing, Reading, IdleClient
      <3>2. CASE f # c
        BY <1>1, <2>2, <2>4, <3>2 DEF PromiseOK, Writing, Reading
      <3> QED
        BY <3>1, <3>2
    <2>5. PromiseOK(d)'
      BY <1>1, <2>3, <2>4 DEF PromiseOK, Writing
    <2> QED
      BY <2>1, <2>5
  <1>6. ASSUME NEW d \in Clients PROVE RequestOK(d)' /\ UnseenOK(d)' /\ PromiseOK(d)'
    BY <1>4, <1>5
  <1> QED
    BY <1>3, <1>6 DEF RequestsOK

\* A write has reached the block and is still to be marked.
LEMMA MarkGlobal ==
  ASSUME DTypeOK, RequestsOK, NEW c \in Clients, client[c].pc = "cache_io", client[c].op # "READ",
         Moves(c), client' = [client EXCEPT ![c].pc = "set_dirty"], UNCHANGED <<io, valid>>,
         client \in [Clients -> ClientRecord]
  PROVE  DTypeOK' /\ RequestsOK'
  <1>1. /\ client'[c].pc = "set_dirty" /\ client'[c].op = client[c].op
        /\ client'[c].key = client[c].key
        /\ \A d \in Clients \ {c} : client'[d] = client[d]
    BY DEF ClientRecord
  <1>2. \A d \in Clients : client'[d].op = client[d].op /\ client'[d].key = client[d].key
    BY <1>1
  <1>3. DTypeOK'
    BY MovesType DEF DTypeOK
  <1>4. ASSUME NEW d \in Clients PROVE PromiseOK(d)'
    <2>1. PromiseOK(d)
      BY DEF RequestsOK
    <2> QED
      BY <1>2, <2>1 DEF PromiseOK, Writing, Reading
  <1>5. ASSUME NEW d \in Clients PROVE RequestOK(d)' /\ UnseenOK(d)'
    <2>1. CASE d = c
      <3>1. RequestOK(c) /\ writes' = writes
        BY DEF RequestsOK, Moves
      <3>2. RequestOK(c)'
        BY <1>1, <3>1 DEF RequestOK, Writing
      <3> QED
        BY <1>1, <2>1, <3>2 DEF UnseenOK
    <2>2. CASE d # c
      BY <2>2, MovesUnseen
    <2> QED
      BY <2>1, <2>2
  <1> QED
    BY <1>3, <1>4, <1>5 DEF RequestsOK

LEMMA MovesHeld ==
  ASSUME DTypeOK
  PROVE  \A c \in Clients : /\ ssd \in [Entries -> Held \cup {io[c].data}]
                            /\ file \in [Keys -> Held \cup {io[c].data}]
  BY DEF DTypeOK, Held

LEMMA ProceedGlobal ==
  ASSUME Base, DTypeOK, RequestsOK, NEW c \in Clients, DataIO(c)
  PROVE  DTypeOK' /\ RequestsOK'
  <1>0. /\ client \in [Clients -> ClientRecord] /\ spoiled \subseteq Keys /\ fresh \subseteq Entries
        /\ ssd \in [Entries -> Held \cup {io[c].data}] /\ file \in [Keys -> Held \cup {io[c].data}]
        /\ client[c].pc # "idle" => client[c].key \in Keys
    BY BaseFacts, MovesHeld DEF DTypeOK, RequestsOK, RequestOK
  <1> HIDE DEF Held
  <1>1. CASE WriteCache(c)
    <2>1. /\ client[c].pc = "cache_io" /\ UNCHANGED <<file, buf, trims, io, valid, writes>>
          /\ client[c].op # "READ" /\ client' = [client EXCEPT ![c].pc = "set_dirty"]
      BY <1>0, <1>1 DEF WriteCache, CacheIO, ClientRecord, IdleClient
    <2>2. /\ ssd' = ssd \/ ssd' = [ssd EXCEPT ![client[c].blk] = io[c].data]
          /\ fresh' \subseteq fresh
      BY <1>1 DEF WriteCache
    <2>3. client[c].blk \in Entries
      BY <2>1, BaseFacts
    <2>4. spoiled' \subseteq Keys
      BY <1>0, <1>1, <2>1, <2>3, BaseFacts DEF WriteCache, spoil, Victim
    <2>5. Moves(c)
      BY <1>0, <2>1, <2>2, <2>4 DEF Moves
    <2> QED
      BY <1>0, <2>1, <2>5, MarkGlobal
  <1>2. CASE ReadCache(c) \/ CacheRefuses(c)
    <2>1. /\ client[c].pc = "cache_io" /\ client' = [client EXCEPT ![c] = IdleClient]
          /\ UNCHANGED <<ssd, file, buf, trims, fresh, writes>>
      BY <1>0, <1>2 DEF ReadCache, CacheRefuses, CacheIO, ClientRecord, media
    <2>2. spoiled' \subseteq Keys
      BY <1>0, <1>2, <2>1 DEF ReadCache, CacheRefuses, spoil_if, spoil
    <2>3. PICK ok \in BOOLEAN : answer(c, ok)
      BY <1>2 DEF ReadCache, CacheRefuses
    <2>4. Moves(c)
      BY <1>0, <2>1, <2>2 DEF Moves
    <2> QED
      BY <1>0, <2>1, <2>3, <2>4, AnswerGlobal
  <1>4. CASE WriteOrigin(c) \/ ReadOrigin(c)
    <2>1. /\ client[c].pc = "origin_io" /\ client' = [client EXCEPT ![c] = IdleClient]
          /\ UNCHANGED <<ssd, buf, trims, fresh, writes>>
      BY <1>4 DEF WriteOrigin, ReadOrigin, OriginIO, media
    <2>2. PICK ok \in BOOLEAN : answer(c, ok)
      BY <1>4 DEF WriteOrigin, ReadOrigin
    <2>3. /\ file' = file \/ file' = [file EXCEPT ![client[c].key] = io[c].data]
          /\ spoiled' \subseteq Keys
      BY <1>0, <1>4, <2>1 DEF WriteOrigin, ReadOrigin, spoil_if, spoil, media
    <2>4. Moves(c)
      BY <1>0, <2>1, <2>3 DEF Moves
    <2> QED
      BY <1>0, <2>1, <2>2, <2>4, AnswerGlobal
  <1>3. CASE WriteDone(c)
    <2>1. /\ client[c].pc = "set_dirty" /\ client' = [client EXCEPT ![c] = IdleClient]
          /\ UNCHANGED <<ssd, file, buf, trims, fresh, spoiled, writes>> /\ answer(c, TRUE)
      BY <1>3 DEF WriteDone, set_dirty_after_write, media
    <2>2. Moves(c)
      BY <1>0, <2>1 DEF Moves
    <2> QED
      BY <1>0, <2>1, <2>2, AnswerGlobal
  <1> QED
    BY <1>1, <1>2, <1>3, <1>4 DEF DataIO

-----------------------------------------------------------------------------
(* The steps of the users, page by page.                                    *)

\* The copy on its way is not disturbed if its block is not.
LEMMA PromotionKept ==
  ASSUME NEW k \in Keys, UNCHANGED <<worker, buf>>, file'[k] = file[k],
         worker.type = "PROMOTION" /\ worker.key = k /\ worker.pc = "complete" =>
           /\ ssd'[worker.blk] = ssd[worker.blk]
           /\ worker.blk \notin fresh => worker.blk \notin fresh'
  PROVE  PromotionOK(k) => PromotionOK(k)'
  BY DEF PromotionOK

\* A request that leaves the table alone.
LEMMA SubmitKey ==
  ASSUME Base, DTypeOK, RequestsOK, NEW c \in Clients, Submit(c), Submits(c),
         UNCHANGED <<entry, table, worker>>, NEW k \in Keys, KeyOK(k)
  PROVE  KeyOK(k)'
  <1>1. /\ UNCHANGED <<ssd, file, buf>> /\ fresh' = fresh
        /\ OthersWait(c) /\ valid[k] \subseteq valid'[k]
        /\ client'[c].op = "READ" => io'[c].seen = valid[client'[c].key]
    BY SubmitCases, SubmitIO
  <1>2. h_lookup(k)' = h_lookup(k)
    BY DEF h_lookup
  <1>3. SamePlace(k) /\ Current(k)' = Current(k) /\ Current(k) \subseteq valid[k]
    BY <1>1, <1>2 DEF SamePlace, Current, KeyOK
  <1>4. \A e \in h_lookup(k) : WrittenSince(e) => WrittenSince(e)'
    BY DEF WrittenSince, Submits
  <1>5. ReaderOK(k, c)'
    <2> SUFFICES ASSUME client'[c].op = "READ", client'[c].key = k
                 PROVE  /\ Current(k)' \subseteq io'[c].seen
                        /\ client'[c].pc = "origin_io" =>
                             file'[k] \in io'[c].seen /\ h_lookup(k)' = {}
      BY DEF ReaderOK, Reading
    <2> QED
      BY <1>1, <1>2, <1>3 DEF Current, Submits
  <1>6. WriterOK(k, c)'
    BY DEF WriterOK, Submits
  <1>7. PromotionOK(k) => PromotionOK(k)'
    BY <1>1 DEF PromotionOK
  <1> QED
    BY <1>1, <1>3, <1>4, <1>5, <1>6, <1>7, UserFrame

\* A request that takes a free entry: the page has a block with nothing in it.
LEMMA InsertKey ==
  ASSUME Base, DTypeOK, RequestsOK, NEW c \in Clients, Submit(c), Submits(c),
         NEW b \in Entries, Inserts(c, b), UNCHANGED worker, NEW k \in Keys, KeyOK(k)
  PROVE  KeyOK(k)'
  <1>0. /\ UNCHANGED <<ssd, file, buf>> /\ OthersWait(c) /\ valid[k] \subseteq valid'[k]
        /\ b \notin table /\ ~entry[b].alloc /\ table' = table \cup {b} /\ table \subseteq Entries
        /\ client'[c].op = "OVERWRITE" /\ client'[c].pc = "cache_io"
        /\ entry \in [Entries -> EntryRecord]
    BY SubmitCases, SubmitIO, BaseFacts DEF Inserts
  <1>1. fresh' = fresh \cup {b}
    BY <1>0, SubmitCases
  <1>2. /\ \A e \in table : e # b /\ entry'[e] = entry[e]
        /\ entry'[b].key = client'[c].key /\ entry'[b].dirty
    BY <1>0 DEF Inserts
  <1>3. ReaderOK(k, c)' /\ WriterOK(k, c)'
    BY <1>0 DEF ReaderOK, WriterOK, Reading
  <1>4. PromotionOK(k) => PromotionOK(k)'
    <2>1. worker.type = "PROMOTION" /\ worker.pc = "complete" => worker.blk # b
      BY <1>0, BaseFacts DEF Copying
    <2> QED
      BY <1>0, <1>1, <2>1, PromotionKept
  <1>5. CASE client'[c].key # k
    <2>1. h_lookup(k)' = h_lookup(k) /\ h_lookup(k) \subseteq table
      BY <1>0, <1>2, <1>5 DEF h_lookup
    <2>2. SamePlace(k)
      BY <1>0, <1>1, <1>2, <2>1 DEF SamePlace
    <2>3. \A e \in h_lookup(k) : WrittenSince(e) => WrittenSince(e)'
      BY <1>2, <2>1 DEF WrittenSince, Submits
    <2>4. Current(k) \subseteq valid'[k]
      BY <1>0 DEF KeyOK
    <2> QED
      BY <1>0, <1>3, <1>4, <2>2, <2>3, <2>4, UserFrame
  <1>6. CASE client'[c].key = k
    <2>1. h_lookup(k) = {} /\ h_lookup(k)' = {b}
      BY <1>0, <1>2, <1>6 DEF h_lookup, Inserts
    <2>2. Current(k)' = {}
      BY <1>1, <2>1 DEF Current
    <2>3. worker.pc \in Copying /\ worker.type = "WRITEBACK" => worker.blk # b
      BY <1>0, BaseFacts
    <2>4. \A e \in h_lookup(k)' : BlockOK(k, e)'
      <3>1. WrittenSince(b)'
        BY <1>2 DEF WrittenSince
      <3>2. ~(worker'.type = "WRITEBACK" /\ worker'.blk = b /\ worker'.pc = "mg_write")
        BY <2>3 DEF Copying
      <3>3. BlockOK(k, b)'
        <4> HIDE DEF WrittenSince
        <4> QED
          BY <3>1, <3>2 DEF BlockOK
      <3> QED
        BY <2>1, <3>3
    <2>5. ASSUME NEW d \in Clients PROVE ReaderOK(k, d)' /\ WriterOK(k, d)'
      <3>1. CASE d = c
        BY <1>3, <3>1
      <3>2. CASE d # c
        <4>1. /\ ReaderOK(k, d) /\ WriterOK(k, d) /\ client'[d] = client[d]
              /\ Reading(d) => io[d].seen \subseteq io'[d].seen
          BY <1>0, <3>2 DEF KeyOK, OthersWait
        <4>2. ReaderOK(k, d)'
          BY <1>0, <2>1, <2>2, <2>3, <4>1 DEF ReaderOK, Reading, Copying
        <4>3. WriterOK(k, d)'
          BY <2>1, <4>1 DEF WriterOK
        <4> QED
          BY <4>2, <4>3
      <3> QED
        BY <3>1, <3>2
    <2>6. PromotionOK(k)'
      BY <1>4 DEF KeyOK
    <2> QED
      BY <2>2, <2>4, <2>5, <2>6 DEF KeyOK
  <1> QED
    BY <1>5, <1>6

LEMMA SubmitKeys ==
  ASSUME Base, DInv, NEW c \in Clients, Submit(c), NEW k \in Keys \ spoiled'
  PROVE  KeyOK(k)'
  <1>1. DTypeOK /\ RequestsOK /\ KeyOK(k)
    BY SubmitCases DEF DInv
  <1>2. /\ Submits(c) /\ UNCHANGED worker
        /\ UNCHANGED <<entry, table>> \/ \E e \in Entries : Inserts(c, e)
    BY SubmitCases, RequestFacts
  <1> QED
    BY <1>1, <1>2, SubmitKey, InsertKey

\* The users and the worker that are not served by an answer to c.
LEMMA AnswerIO ==
  ASSUME DTypeOK, RequestsOK, NEW c \in Clients, NEW ok,
         client \in [Clients -> ClientRecord],
         client' = [client EXCEPT ![c] = IdleClient], answer(c, ok)
  PROVE  /\ OthersWait(c)
         /\ \A d \in Clients \ {c} : io'[d] = io[d]
         /\ \A k \in Keys : ReaderOK(k, c)' /\ WriterOK(k, c)'
         /\ \A k \in Keys : k # client[c].key \/ Reading(c) => valid'[k] = valid[k]
         /\ ~Reading(c) /\ client[c].key \in Keys =>
              valid'[client[c].key] =
                valid[client[c].key] \ (IF ok THEN io[c].seen ELSE {io[c].data})
  <1>0. /\ io \in [Clients -> [data : Written, seen : SUBSET Written]]
        /\ valid \in [Keys -> SUBSET Written]
    BY DEF DTypeOK
  <1>1. /\ client'[c] = IdleClient
        /\ \A d \in Clients \ {c} : io'[d] = io[d] /\ client'[d] = client[d]
    BY <1>0 DEF answer
  <1>2. \A k \in Keys : ReaderOK(k, c)' /\ WriterOK(k, c)'
    BY <1>1 DEF ReaderOK, WriterOK, Reading, IdleClient
  <1>3. OthersWait(c)
    BY <1>1 DEF OthersWait
  <1>4. /\ \A k \in Keys : k # client[c].key \/ Reading(c) => valid'[k] = valid[k]
        /\ ~Reading(c) /\ client[c].key \in Keys =>
              valid'[client[c].key] =
                valid[client[c].key] \ (IF ok THEN io[c].seen ELSE {io[c].data})
    BY <1>0 DEF answer, Reading
  <1> QED
    BY <1>1, <1>2, <1>3, <1>4

\* What is found in a place has been written, and is not on its way.
LEMMA CurrentHeld ==
  ASSUME Base, NEW k \in Keys
  PROVE  Current(k) \subseteq Held /\ h_lookup(k) \subseteq Entries
  <1>1. h_lookup(k) \subseteq Entries
    BY BaseFacts DEF h_lookup
  <1> QED
    BY <1>1 DEF Current, Held

\* An answer that nothing was moved for.
LEMMA AnswerKey ==
  ASSUME Base, DTypeOK, RequestsOK, NEW c \in Clients, NEW ok \in BOOLEAN,
         client' = [client EXCEPT ![c] = IdleClient], answer(c, ok), Reading(c) \/ ~ok,
         UNCHANGED <<entry, table, worker, ssd, file, buf, fresh>>,
         client[c].pc \in {"cache_io", "origin_io"},
         NEW k \in Keys, KeyOK(k)
  PROVE  KeyOK(k)'
  <1>0. client \in [Clients -> ClientRecord]
    BY BaseFacts
  <1>1. h_lookup(k)' = h_lookup(k)
    BY DEF h_lookup
  <1>2. SamePlace(k)
    BY <1>1 DEF SamePlace
  <1>3. \A e \in h_lookup(k) : WrittenSince(e) => WrittenSince(e)'
    <2>1. \A d \in Clients : client[d].pc = "set_dirty" => client'[d] = client[d]
      BY <1>0
    <2> QED
      BY <2>1 DEF WrittenSince
  <1>4. PromotionOK(k) => PromotionOK(k)'
    BY DEF PromotionOK
  <1>5. OthersWait(c) /\ ReaderOK(k, c)' /\ WriterOK(k, c)'
    BY <1>0, AnswerIO
  <1>6. Current(k) \subseteq valid'[k]
    <2>1. Current(k) \subseteq valid[k]
      BY DEF KeyOK
    <2>2. CASE k # client[c].key \/ Reading(c)
      BY <1>0, <2>1, <2>2, AnswerIO
    <2>3. CASE k = client[c].key /\ ~Reading(c)
      <3>1. Writing(c)
        BY <2>3 DEF RequestsOK, RequestOK, Writing, Reading
      <3>2. io[c].data \notin Current(k)
        <4>1. io[c].data \notin Held
          BY <3>1, HeldIsWritten
        <4>2. Current(k) \subseteq Held
          BY CurrentHeld
        <4> QED
          BY <4>1, <4>2
      <3>3. valid'[k] = valid[k] \ {io[c].data}
        <4>1. valid' = [valid EXCEPT ![k] = valid[k] \ {io[c].data}]
          BY <2>3 DEF answer, Reading
        <4> QED
          BY <4>1 DEF DTypeOK
      <3> QED
        BY <2>1, <3>2, <3>3
    <2> QED
      BY <2>2, <2>3
  <1> QED
    BY <1>2, <1>3, <1>4, <1>5, <1>6, UserFrame

\* A write reaches the block that its page has, or spoils the page.
LEMMA WriteCacheKey ==
  ASSUME Base, DTypeOK, RequestsOK, NEW c \in Clients,
         client[c].pc = "cache_io", client[c].op # "READ",
         client' = [client EXCEPT ![c].pc = "set_dirty"],
         NEW b \in Entries, b = client[c].blk,
         UNCHANGED <<entry, table, worker, file, buf, io, valid>>,
         \/ /\ ssd' = [ssd EXCEPT ![b] = io[c].data] /\ fresh' = fresh \ {b}
            /\ Moved(c) => spoil({client[c].key} \cup Victim(b))
         \/ UNCHANGED <<ssd, fresh>> /\ spoil({client[c].key}),
         NEW k \in Keys \ spoiled', KeyOK(k)
  PROVE  KeyOK(k)'
  <1>0. /\ client \in [Clients -> ClientRecord] /\ ssd \in [Entries -> Written]
        /\ RequestOK(c) /\ PromiseOK(c)
    BY BaseFacts DEF DTypeOK, RequestsOK
  <1>1. /\ client'[c].pc = "set_dirty" /\ client'[c].op = client[c].op
        /\ client'[c].key = client[c].key /\ client'[c].blk = client[c].blk
        /\ \A d \in Clients \ {c} : client'[d] = client[d]
    BY <1>0 DEF ClientRecord
  <1>2. h_lookup(k)' = h_lookup(k) /\ h_lookup(k) \subseteq table /\ h_lookup(k) \subseteq Entries
    BY BaseFacts DEF h_lookup
  <1>3. \A e \in Entries : WrittenSince(e) => WrittenSince(e)'
    <2>1. \A d \in Clients : client[d].pc = "set_dirty" => client'[d] = client[d]
      BY <1>0
    <2> QED
      BY <2>1 DEF WrittenSince
  <1>4. \A e \in Entries : e # b => ssd'[e] = ssd[e] /\ (e \in fresh' <=> e \in fresh)
    BY <1>0
  <1>5. OthersWait(c) /\ ReaderOK(k, c)'
    BY <1>1 DEF OthersWait, ReaderOK, Reading
  <1>6. CASE client[c].key # k
    <2>1. b \in h_lookup(k) => UNCHANGED <<ssd, fresh>>
      <3> SUFFICES ASSUME b \in h_lookup(k), ~UNCHANGED <<ssd, fresh>> PROVE FALSE
        OBVIOUS
      <3>1. b \notin h_lookup(client[c].key) /\ entry[b].alloc /\ entry[b].key = k
        BY <1>2, <1>6, BaseFacts DEF h_lookup
      <3>2. k \in spoiled'
        BY <3>1 DEF Moved, Victim, spoil
      <3> QED
        BY <3>2
    <2>2. SamePlace(k)
      BY <1>2, <1>4, <2>1 DEF SamePlace
    <2>3. PromotionOK(k) => PromotionOK(k)'
      <3>1. ASSUME worker.type = "PROMOTION", worker.key = k, worker.pc = "complete",
                   worker.blk = b, ~UNCHANGED <<ssd, fresh>>
            PROVE  FALSE
        <4>1. b \notin table /\ entry[b].alloc /\ entry[b].key = k
          BY <3>1, BaseFacts DEF Copying
        <4>2. Moved(c)
          BY <4>1 DEF Moved, h_lookup
        <4>3. k \in spoiled'
          BY <3>1, <4>1, <4>2 DEF Victim, spoil
        <4> QED
          BY <4>3
      <3>2. worker.pc = "complete" /\ worker.type = "PROMOTION" => worker.blk \in Entries
        BY BaseFacts DEF Copying
      <3> QED
        BY <1>4, <3>1, <3>2, PromotionKept
    <2>4. WriterOK(k, c)'
      BY <1>1, <1>6 DEF WriterOK
    <2>5. Current(k) \subseteq valid'[k]
      BY DEF KeyOK
    <2> QED
      BY <1>2, <1>3, <1>5, <2>2, <2>3, <2>4, <2>5, UserFrame
  <1>7. CASE client[c].key = k
    <2> DEFINE v == io[c].data
    <2>1. /\ ssd' = [ssd EXCEPT ![b] = io[c].data] /\ fresh' = fresh \ {b}
          /\ b \in h_lookup(k)
      BY <1>7 DEF spoil, Moved
    <2>2. h_lookup(k) = {b} /\ ssd'[b] = v /\ b \notin fresh'
      <3>1. \A e \in h_lookup(k) : e = b
        BY <1>2, <2>1, BaseFacts DEF h_lookup
      <3> QED
        BY <1>0, <2>1, <3>1
    <2>3. Current(k)' = {v}
      BY <1>2, <2>2 DEF Current
    <2>4. /\ Writing(c) /\ v \in valid[k]
          /\ \A d \in Clients :
               /\ Writing(d) => v \notin io[d].seen
               /\ Reading(d) /\ client[d].key = k => v \in io[d].seen
      <3>1. Writing(c)
        BY <1>0 DEF RequestOK, Writing
      <3> QED
        BY <1>0, <1>7, <3>1 DEF PromiseOK
    <2>5. BlockOK(k, b)'
      <3>1. WrittenSince(b)'
        BY <1>1 DEF WrittenSince
      <3> HIDE DEF WrittenSince
      <3> QED
        BY <2>2, <3>1 DEF BlockOK
    <2>6. \A e \in h_lookup(k)' : BlockOK(k, e)'
      BY <1>2, <2>2, <2>5
    <2>7. ASSUME NEW d \in Clients PROVE ReaderOK(k, d)'
      <3>1. /\ client'[d].op = client[d].op /\ client'[d].key = client[d].key
            /\ client'[d].pc = "origin_io" => client[d].pc = "origin_io"
        BY <1>1
      <3>2. ReaderOK(k, d)
        BY DEF KeyOK
      <3> QED
        BY <1>2, <2>3, <2>4, <3>1, <3>2 DEF ReaderOK, Reading
    <2>8. ASSUME NEW d \in Clients PROVE WriterOK(k, d)'
      <3> SUFFICES ASSUME client'[d].pc = "set_dirty", client'[d].key = k
                   PROVE  client'[d].blk = b /\ Writing(d)
        BY <1>2, <2>2, <2>4 DEF WriterOK
      <3>1. CASE d = c
        BY <1>1, <2>4, <3>1
      <3>2. CASE d # c
        <4>1. client'[d] = client[d] /\ WriterOK(k, d) /\ RequestOK(d)
          BY <1>1, <3>2 DEF KeyOK, RequestsOK
        <4> QED
          BY <2>2, <4>1 DEF WriterOK, RequestOK, Writing
      <3> QED
        BY <3>1, <3>2
    <2>9. PromotionOK(k)'
      <3>1. ~(worker.pc \in Copying /\ worker.type = "PROMOTION" /\ worker.key = k)
        BY <2>2, BaseFacts
      <3> QED
        BY <3>1 DEF PromotionOK, Copying
    <2> QED
      BY <2>3, <2>4, <2>6, <2>7, <2>8, <2>9 DEF KeyOK
  <1> QED
    BY <1>6, <1>7

LEMMA CacheKey ==
  ASSUME Base, DTypeOK, RequestsOK, NEW c \in Clients,
         WriteCache(c) \/ ReadCache(c) \/ CacheRefuses(c),
         NEW k \in Keys \ spoiled', k \notin spoiled => KeyOK(k)
  PROVE  KeyOK(k)'
  <1>0. client \in [Clients -> ClientRecord]
    BY BaseFacts
  <1>1. PICK b \in Entries : b = client[c].blk
    BY BaseFacts DEF WriteCache, ReadCache, CacheRefuses, CacheIO
  <1>2. /\ client[c].pc = "cache_io" /\ UNCHANGED <<entry, table, worker, file, buf>>
        /\ KeyOK(k)
    BY DEF WriteCache, ReadCache, CacheRefuses, CacheIO, spoil_if, spoil, media
  <1>3. CASE ReadCache(c) \/ CacheRefuses(c)
    <2>1. client' = [client EXCEPT ![c] = IdleClient] /\ UNCHANGED <<ssd, fresh>>
      BY <1>0, <1>3 DEF ReadCache, CacheRefuses, CacheIO, ClientRecord, media
    <2>2. \E ok \in BOOLEAN : answer(c, ok) /\ (Reading(c) \/ ~ok)
      BY <1>3 DEF ReadCache, CacheRefuses, Reading
    <2> QED
      BY <1>2, <2>1, <2>2, AnswerKey
  <1>4. CASE WriteCache(c)
    <2>1. client[c].op # "READ" /\ client' = [client EXCEPT ![c].pc = "set_dirty"]
      BY <1>0, <1>4 DEF WriteCache, CacheIO, ClientRecord, IdleClient
    <2>2. /\ UNCHANGED <<io, valid>>
          /\ \/ /\ ssd' = [ssd EXCEPT ![b] = io[c].data] /\ fresh' = fresh \ {b}
                /\ Moved(c) => spoil({client[c].key} \cup Victim(b))
             \/ UNCHANGED <<ssd, fresh>> /\ spoil({client[c].key})
      BY <1>1, <1>4 DEF WriteCache
    <2> QED
      BY <1>1, <1>2, <2>1, <2>2, WriteCacheKey
  <1> QED
    BY <1>3, <1>4

\* A write reaches the file: no copy of the page is in the cache or on its way.
LEMMA WriteOriginKey ==
  ASSUME Base, DTypeOK, RequestsOK, NEW c \in Clients, OriginIO(c), client[c].op # "READ",
         file' = [file EXCEPT ![client[c].key] = io[c].data],
         spoil_if(StalePromotion(client[c].key), client[c].key), answer(c, TRUE),
         UNCHANGED <<ssd, buf, fresh>>,
         NEW k \in Keys \ spoiled', KeyOK(k)
  PROVE  KeyOK(k)'
  <1>0. /\ client \in [Clients -> ClientRecord] /\ file \in [Keys -> Written]
        /\ client[c].pc = "origin_io" /\ client' = [client EXCEPT ![c] = IdleClient]
        /\ UNCHANGED <<entry, table, worker>> /\ RequestOK(c) /\ PromiseOK(c)
    BY BaseFacts DEF DTypeOK, RequestsOK, OriginIO
  <1>1. h_lookup(k)' = h_lookup(k)
    BY <1>0 DEF h_lookup
  <1>2. \A e \in h_lookup(k) : WrittenSince(e) => WrittenSince(e)'
    <2>1. \A d \in Clients : client[d].pc = "set_dirty" => client'[d] = client[d]
      BY <1>0
    <2> QED
      BY <1>0, <2>1 DEF WrittenSince
  <1>3. OthersWait(c) /\ ReaderOK(k, c)' /\ WriterOK(k, c)'
    BY <1>0, AnswerIO
  <1>4. CASE client[c].key # k
    <2>1. file'[k] = file[k] /\ valid'[k] = valid[k]
      BY <1>0, <1>4, AnswerIO
    <2>2. SamePlace(k)
      BY <1>1, <2>1 DEF SamePlace
    <2>3. PromotionOK(k) => PromotionOK(k)'
      BY <1>0, <2>1 DEF PromotionOK
    <2>4. Current(k) \subseteq valid'[k]
      BY <2>1 DEF KeyOK
    <2> QED
      BY <1>0, <1>2, <1>3, <2>2, <2>3, <2>4, UserFrame
  <1>5. CASE client[c].key = k
    <2> DEFINE v == io[c].data
    <2>1. ~StalePromotion(k)
      BY <1>5 DEF spoil_if, spoil
    <2>2. h_lookup(k) = {} /\ file'[k] = v /\ Current(k)' = {v}
      BY <1>0, <1>1, <1>5, <2>1 DEF StalePromotion, Current
    <2>3. /\ Writing(c) /\ v \in valid[k] /\ v \notin io[c].seen
          /\ \A d \in Clients : Reading(d) /\ client[d].key = k => v \in io[d].seen
      <3>1. Writing(c)
        BY <1>0 DEF RequestOK, Writing
      <3> QED
        BY <1>0, <1>5, <3>1 DEF PromiseOK
    <2>4. v \in valid'[k]
      <3>1. valid'[k] = valid[k] \ io[c].seen
        BY <1>0, <1>5, AnswerIO DEF Reading
      <3> QED
        BY <2>3, <3>1
    <2>5. PromotionOK(k)'
      BY <1>0, <2>1 DEF PromotionOK, StalePromotion
    <2>6. ASSUME NEW d \in Clients PROVE ReaderOK(k, d)' /\ WriterOK(k, d)'
      <3>1. CASE d = c
        BY <1>3, <3>1
      <3>2. CASE d # c
        <4>1. client'[d] = client[d] /\ io'[d] = io[d] /\ WriterOK(k, d)
          BY <1>0, <3>2, AnswerIO DEF KeyOK
        <4>2. ReaderOK(k, d)'
          BY <1>1, <2>2, <2>3, <4>1 DEF ReaderOK, Reading
        <4>3. WriterOK(k, d)'
          BY <2>2, <4>1 DEF WriterOK
        <4> QED
          BY <4>2, <4>3
      <3> QED
        BY <3>1, <3>2
    <2>7. \A e \in h_lookup(k)' : BlockOK(k, e)'
      BY <1>1, <2>2
    <2> QED
      BY <2>2, <2>4, <2>5, <2>6, <2>7 DEF KeyOK
  <1> QED
    BY <1>4, <1>5

LEMMA OriginKey ==
  ASSUME Base, DTypeOK, RequestsOK, NEW c \in Clients, WriteOrigin(c) \/ ReadOrigin(c),
         NEW k \in Keys \ spoiled', k \notin spoiled => KeyOK(k)
  PROVE  KeyOK(k)'
  <1>1. /\ KeyOK(k) /\ OriginIO(c) /\ UNCHANGED <<ssd, buf, fresh>>
    BY DEF WriteOrigin, ReadOrigin, spoil_if, spoil, media
  <1>2. CASE /\ client[c].op # "READ"
             /\ file' = [file EXCEPT ![client[c].key] = io[c].data]
             /\ spoil_if(StalePromotion(client[c].key), client[c].key)
             /\ answer(c, TRUE)
    BY <1>1, <1>2, WriteOriginKey
  <1>3. ASSUME NEW ok \in BOOLEAN, answer(c, ok), Reading(c) \/ ~ok, UNCHANGED file
        PROVE  KeyOK(k)'
    <2>1. /\ client[c].pc = "origin_io" /\ client' = [client EXCEPT ![c] = IdleClient]
          /\ UNCHANGED <<entry, table, worker>>
      BY <1>1 DEF OriginIO
    <2> QED
      BY <1>1, <1>3, <2>1, AnswerKey
  <1> QED
    BY <1>2, <1>3 DEF WriteOrigin, ReadOrigin, Reading, media

\* A write is done: its block is marked, and what it supersedes is not found.
LEMMA WriteDoneKey ==
  ASSUME Base, DTypeOK, RequestsOK, NEW c \in Clients, WriteDone(c), NEW k \in Keys, KeyOK(k)
  PROVE  KeyOK(k)'
  <1> DEFINE b == client[c].blk
  <1>0. /\ client \in [Clients -> ClientRecord] /\ entry \in [Entries -> EntryRecord]
        /\ client[c].pc = "set_dirty" /\ client' = [client EXCEPT ![c] = IdleClient]
        /\ UNCHANGED <<table, worker, ssd, file, buf, fresh>> /\ answer(c, TRUE)
        /\ RequestOK(c) /\ table \subseteq Entries /\ \A e \in table : entry[e].alloc
        /\ b \in Entries
    BY BaseFacts DEF RequestsOK, WriteDone, set_dirty_after_write, media
  <1>1. /\ \A e \in Entries : /\ entry'[e].key = entry[e].key
                              /\ entry[e].dirty => entry'[e].dirty
        /\ b \in table => entry'[b].dirty
    <2>1. \/ entry' = entry /\ ~entry[b].alloc
          \/ entry' = [entry EXCEPT ![b].dirty = TRUE]
      BY DEF WriteDone, set_dirty_after_write, mark_dirty
    <2> HIDE DEF b
    <2> QED
      BY <1>0, <2>1 DEF EntryRecord
  <1>2. h_lookup(k)' = h_lookup(k) /\ h_lookup(k) \subseteq table
    <2>1. \A e \in table : entry'[e].key = entry[e].key
      BY <1>0, <1>1
    <2> QED
      BY <1>0, <2>1 DEF h_lookup
  <1>3. SamePlace(k)
    BY <1>0, <1>2 DEF SamePlace
  <1>4. ASSUME NEW e \in h_lookup(k), WrittenSince(e) PROVE WrittenSince(e)'
    <2>1. e \in table /\ e \in Entries
      BY <1>0, <1>2
    <2>2. CASE entry[e].dirty
      BY <1>1, <2>1, <2>2 DEF WrittenSince
    <2>3. ASSUME NEW d \in Clients, client[d].pc = "set_dirty", client[d].blk = e
          PROVE  WrittenSince(e)'
      <3>1. CASE d = c
        BY <1>1, <2>1, <2>3, <3>1 DEF WrittenSince
      <3>2. CASE d # c
        BY <1>0, <2>3, <3>2 DEF WrittenSince
      <3> QED
        BY <3>1, <3>2
    <2> QED
      BY <1>4, <2>2, <2>3 DEF WrittenSince
  <1>5. PromotionOK(k) => PromotionOK(k)'
    BY <1>0 DEF PromotionOK
  <1>6. OthersWait(c) /\ ReaderOK(k, c)' /\ WriterOK(k, c)'
    BY <1>0, AnswerIO
  <1>7. Current(k) \subseteq valid'[k]
    <2>1. Current(k) \subseteq valid[k] /\ WriterOK(k, c)
      BY DEF KeyOK
    <2>2. CASE k # client[c].key
      BY <1>0, <2>1, <2>2, AnswerIO
    <2>3. CASE k = client[c].key
      <3>1. valid'[k] = valid[k] \ io[c].seen
        BY <1>0, <2>3, AnswerIO DEF RequestOK, Reading
      <3>2. b \in h_lookup(k) \ fresh /\ ssd[b] \notin io[c].seen
        BY <1>0, <2>1, <2>3 DEF WriterOK
      <3>3. \A e \in h_lookup(k) : e = b
        BY <1>2, <3>2, BaseFacts DEF h_lookup
      <3>4. Current(k) = {ssd[b]}
        BY <3>2, <3>3 DEF Current
      <3> QED
        BY <2>1, <3>1, <3>2, <3>4
    <2> QED
      BY <2>2, <2>3
  <1> QED
    BY <1>0, <1>3, <1>4, <1>5, <1>6, <1>7, UserFrame

-----------------------------------------------------------------------------
(* Blocks that are hashed and not yet written.                              *)

\* A block that is new among them is being filled, and no other one loses the
\* write that will fill it, unless its page is spoiled.
LEMMA FilledFrame ==
  ASSUME FilledOK, spoiled \subseteq spoiled',
         \A e \in table' \cap fresh' :
           \/ entry'[e].key \in spoiled'
           \/ \E c \in Clients : Filling(c, e)'
           \/ /\ e \in table \cap fresh /\ entry'[e].key = entry[e].key
              /\ \A c \in Clients : Filling(c, e) => Filling(c, e)'
  PROVE  FilledOK'
  BY DEF FilledOK

\* The worker does not touch the users; what it promotes has been written.
LEMMA WorkerFilled ==
  ASSUME Base, DInv, Fetch \/ Store \/ Trim \/ TrimLands \/ Evict \/ WrittenBack \/ Steer
  PROVE  FilledOK'
  <1>0. /\ FilledOK /\ TypeOK /\ Struct /\ entry \in [Entries -> EntryRecord] /\ table \subseteq Entries
        /\ spoiled \subseteq spoiled'
    BY BaseFacts DEF DInv, Fetch, FetchFile, FetchBlock, Store, StoreBlock, StoreFile, Trim,
       TrimLands, Evict, WrittenBack, Steer, spoil_if, spoil, promise
  <1>1. UNCHANGED client /\ fresh' \subseteq fresh
    BY CopyWorker DEF Fetch, Store, StoreBlock, StoreFile, Trim, TrimLands, Evict, WrittenBack,
       Steer, promise, vars, demotion_complete, writeback_complete, peak_work,
       promotion_free_to_clean, PromotionRefused, demotion_clean_to_free, DemotionRefused,
       writeback_dirty_to_clean, WritebackRefused, promotion_complete, remove_work
  <1>2. ASSUME \A e \in table' \cap fresh' :
                 entry'[e].key \notin spoiled' => e \in table /\ entry'[e].key = entry[e].key
        PROVE  FilledOK'
    BY <1>0, <1>1, <1>2, FilledFrame DEF Filling
  <1>3. CASE UNCHANGED <<entry, table>>
    BY <1>2, <1>3
  <1>4. ASSUME NEW f, \/ entry' = [entry EXCEPT ![f].pending = TRUE]
                      \/ entry' = [entry EXCEPT ![f].pending = FALSE]
                      \/ entry' = [entry EXCEPT ![f].pending = TRUE, ![f].dirty = FALSE]
                      \/ entry' = [entry EXCEPT ![f].pending = FALSE, ![f].alloc = FALSE]
        PROVE  \A e \in Entries : entry'[e].key = entry[e].key
    BY <1>0, <1>4 DEF EntryRecord
  <1>5. CASE Fetch \/ Store \/ Trim \/ TrimLands
    BY <1>3, <1>5, CopyWorker DEF Fetch, Store, Trim, TrimLands, vars
  <1>6. CASE Evict
    <2>1. table' \subseteq table /\ \A e \in Entries : entry'[e].key = entry[e].key
      BY <1>4, <1>6 DEF Evict, demotion_complete
    <2> QED
      BY <1>0, <1>2, <2>1
  <1>7. CASE WrittenBack
    <2>1. table' = table /\ \A e \in Entries : entry'[e].key = entry[e].key
      BY <1>4, <1>7 DEF WrittenBack, writeback_complete, unpend
    <2> QED
      BY <1>0, <1>2, <2>1
  <1>8. CASE Steer
    <2>1. CASE peak_work \/ PromotionRefused \/ DemotionRefused \/ WritebackRefused \/ remove_work
      BY <1>3, <2>1 DEF peak_work, PromotionRefused, DemotionRefused, WritebackRefused, remove_work
    <2>2. CASE promotion_free_to_clean
      <3>1. Head(free) \in Entries /\ Head(free) \notin table
        <4>1. free # <<>> /\ free \in Seq(Entries)
          BY <1>0, <2>2 DEF promotion_free_to_clean, TypeOK
        <4>2. Head(free) \in ToSet(free) /\ Head(free) \in Entries
          BY <4>1, PopProperties
        <4> QED
          BY <1>0, <4>2, WhereIs
      <3>2. table' = table /\ \A e \in Entries : e # Head(free) => entry'[e] = entry[e]
        BY <1>0, <2>2 DEF promotion_free_to_clean
      <3> QED
        BY <1>0, <1>2, <3>1, <3>2
    <2>3. CASE demotion_clean_to_free
      <3>1. table' = table /\ \A e \in Entries : entry'[e].key = entry[e].key
        BY <1>4, <2>3 DEF demotion_clean_to_free
      <3> QED
        BY <1>0, <1>2, <3>1
    <2>4. CASE writeback_dirty_to_clean
      <3>1. table' = table /\ \A e \in Entries : entry'[e].key = entry[e].key
        BY <1>4, <2>4 DEF writeback_dirty_to_clean
      <3> QED
        BY <1>0, <1>2, <3>1
    <2>5. CASE promotion_complete
      <3>1. /\ \A e \in Entries : entry'[e].key = entry[e].key
            /\ table' = table \/ (worker.ok /\ table' = table \cup {worker.blk})
        BY <1>4, <2>5 DEF promotion_complete, unpend
      <3>2. ASSUME worker.ok, worker.key \notin spoiled PROVE worker.blk \notin fresh
        <4>1. worker.type = "PROMOTION" /\ worker.pc = "complete" /\ worker.key \in Keys
          BY <2>5, BaseFacts DEF promotion_complete, completes, Copying
        <4> QED
          BY <3>2, <4>1 DEF DInv, KeyOK, PromotionOK
      <3>3. entry[worker.blk].key = worker.key
        BY <2>5, BaseFacts DEF promotion_complete, completes, Copying
      <3> QED
        BY <1>0, <1>1, <1>2, <2>5, <3>1, <3>2, <3>3, BaseFacts DEF promotion_complete, completes, Copying
    <2> QED
      BY <1>8, <2>1, <2>2, <2>3, <2>4, <2>5 DEF Steer
  <1> QED
    BY <1>5, <1>6, <1>7, <1>8

\* The write that inserts a block is the one that fills it.
LEMMA SubmitFilled ==
  ASSUME Base, DInv, NEW c \in Clients, Submit(c)
  PROVE  FilledOK'
  <1>1. /\ FilledOK /\ spoiled' = spoiled /\ fresh' = fresh \cup (table' \ table)
        /\ Submits(c) /\ table \subseteq Entries /\ entry \in [Entries -> EntryRecord]
        /\ UNCHANGED <<entry, table>> \/ \E e \in Entries : Inserts(c, e)
    BY SubmitCases, RequestFacts, BaseFacts DEF DInv
  <1>2. \A e \in Entries, d \in Clients :
          Filling(d, e) /\ entry'[e].key = entry[e].key => Filling(d, e)'
    BY <1>1 DEF Filling, Submits
  <1>3. CASE UNCHANGED <<entry, table>>
    BY <1>1, <1>2, <1>3, FilledFrame
  <1>4. ASSUME NEW b \in Entries, Inserts(c, b) PROVE FilledOK'
    <2>1. /\ table' = table \cup {b} /\ b \notin table
          /\ \A e \in table : entry'[e] = entry[e]
          /\ entry'[b].key = client'[c].key
      BY <1>1, <1>4 DEF Inserts
    <2>2. Filling(c, b)'
      BY <1>4, <2>1 DEF Filling, Inserts
    <2> QED
      BY <1>1, <1>2, <2>1, <2>2, FilledFrame
  <1> QED
    BY <1>1, <1>3, <1>4

\* A write fills its block, or gives up: if no other one will, the page is
\* spoiled.
LEMMA ProceedFilled ==
  ASSUME Base, DInv, NEW c \in Clients, DataIO(c)
  PROVE  FilledOK'
  <1>0. /\ FilledOK /\ client \in [Clients -> ClientRecord] /\ table \subseteq Entries
        /\ spoiled \subseteq spoiled' /\ entry \in [Entries -> EntryRecord]
    BY BaseFacts DEF DInv, DataIO, WriteCache, ReadCache, CacheRefuses, WriteOrigin, ReadOrigin,
       WriteDone, spoil_if, spoil
  <1>1. /\ table' = table /\ fresh' \subseteq fresh
        /\ \A e \in Entries : entry'[e].key = entry[e].key
        /\ \A d \in Clients \ {c} : client'[d] = client[d]
    <2>1. CASE WriteCache(c) \/ ReadCache(c) \/ CacheRefuses(c)
      <3>1. UNCHANGED <<entry, table>> /\ fresh' \subseteq fresh
        BY <2>1 DEF WriteCache, ReadCache, CacheRefuses, CacheIO
      <3>2. \A d \in Clients \ {c} : client'[d] = client[d]
        BY <1>0, <2>1 DEF WriteCache, ReadCache, CacheRefuses, CacheIO
      <3> QED
        BY <3>1, <3>2
    <2>2. CASE WriteOrigin(c) \/ ReadOrigin(c)
      <3>1. UNCHANGED <<entry, table, fresh>> /\ client' = [client EXCEPT ![c] = IdleClient]
        BY <2>2 DEF WriteOrigin, ReadOrigin, OriginIO
      <3> QED
        BY <1>0, <3>1
    <2>3. CASE WriteDone(c)
      <3>1. UNCHANGED <<table, fresh>> /\ client' = [client EXCEPT ![c] = IdleClient]
        BY <2>3 DEF WriteDone, set_dirty_after_write
      <3>2. entry' = entry \/ entry' = [entry EXCEPT ![client[c].blk].dirty = TRUE]
        BY <2>3 DEF WriteDone, set_dirty_after_write, mark_dirty
      <3>3. \A e \in Entries : entry'[e].key = entry[e].key
        BY <1>0, <3>2 DEF EntryRecord
      <3> QED
        BY <1>0, <3>1, <3>3
    <2> QED
      BY <2>1, <2>2, <2>3 DEF DataIO
  <1>2. \A e \in Entries, d \in Clients \ {c} : Filling(d, e) => Filling(d, e)'
    BY <1>1 DEF Filling
  <1>3. ASSUME NEW e \in table \cap fresh', Filling(c, e), entry[e].key \notin spoiled'
        PROVE  \E d \in Clients \ {c} : Filling(d, e)
    <2>1. client[c].pc = "cache_io" /\ client[c].op # "READ" /\ client[c].blk = e
          /\ client[c].key = entry[e].key /\ e \in fresh
      BY <1>1, <1>3 DEF Filling
    <2>2. ~WriteCache(c)
      BY <1>3, <2>1 DEF WriteCache, spoil
    <2>3. CacheRefuses(c)
      BY <2>1, <2>2 DEF DataIO, ReadCache, WriteOrigin, ReadOrigin, WriteDone, OriginIO,
         set_dirty_after_write
    <2>4. ~Moved(c) /\ ~Abandoned(c)
      BY <1>3, <2>1, <2>3 DEF CacheRefuses, spoil_if, spoil, Moved, h_lookup
    <2> QED
      BY <2>1, <2>4 DEF Abandoned
  <1> QED
    BY <1>0, <1>1, <1>2, <1>3, FilledFrame DEF FilledOK

-----------------------------------------------------------------------------
(* The invariant of the data, and the properties.                           *)

LEMMA InitDInv == DataInit => DInv
  <1> SUFFICES ASSUME DataInit PROVE DInv
    OBVIOUS
  <1>1. /\ ssd = [e \in Entries |-> NoData] /\ file \in [Keys -> {NoData} \cup Keys \X {0}]
        /\ buf = NoData /\ trims = 0 /\ io = [c \in Clients |-> NoIO]
        /\ valid = [k \in Keys |-> {file[k]}] /\ spoiled = {} /\ fresh = {} /\ writes = 0
        /\ client = [c \in Clients |-> IdleClient] /\ table = {} /\ worker = IdleWorker
    BY DEF DataInit, Init
  <1>2. 0 .. writes = {0} /\ MaxWrites \in Nat /\ MaxTrims \in Nat
    BY <1>1, DataPathAssumption
  <1>3. Written = {NoData} \cup Keys \X {0}
    BY <1>2 DEF Written
  <1>4. DTypeOK
    <2>1. io \in [Clients -> [data : Written, seen : SUBSET Written]]
      BY <1>1, <1>3 DEF NoIO
    <2>2. valid \in [Keys -> SUBSET Written]
      BY <1>1, <1>3
    <2>3. trims \in 0 .. MaxTrims /\ writes \in 0 .. MaxWrites
      BY <1>1, <1>2
    <2> QED
      BY <1>1, <1>3, <2>1, <2>2, <2>3 DEF DTypeOK
  <1>5. RequestsOK
    <2>1. \A c \in Clients : client[c] = IdleClient /\ io[c] = NoIO
      BY <1>1
    <2> QED
      BY <2>1 DEF RequestsOK, RequestOK, UnseenOK, PromiseOK, Writing, IdleClient, NoIO
  <1>6. ASSUME NEW k \in Keys PROVE KeyOK(k)
    <2>1. h_lookup(k) = {} /\ Current(k) \subseteq valid[k]
      BY <1>1 DEF h_lookup, Current
    <2>2. PromotionOK(k)
      BY <1>1 DEF PromotionOK, IdleWorker
    <2>3. \A c \in Clients : ReaderOK(k, c) /\ WriterOK(k, c)
      BY <1>1 DEF ReaderOK, WriterOK, Reading, IdleClient
    <2> QED
      BY <2>1, <2>2, <2>3 DEF KeyOK
  <1>7. FilledOK
    BY <1>1 DEF FilledOK
  <1> QED
    BY <1>4, <1>5, <1>6, <1>7 DEF DInv

LEMMA ProceedKeys ==
  ASSUME Base, DInv, NEW c \in Clients, DataIO(c), NEW k \in Keys \ spoiled'
  PROVE  KeyOK(k)'
  <1>1. DTypeOK /\ RequestsOK /\ (k \notin spoiled => KeyOK(k))
    BY DEF DInv
  <1>2. CASE WriteDone(c)
    <2>1. KeyOK(k)
      BY <1>1, <1>2 DEF WriteDone
    <2> QED
      BY <1>1, <1>2, <2>1, WriteDoneKey
  <1> QED
    BY <1>1, <1>2, CacheKey, OriginKey DEF DataIO

LEMMA StepDInv == Base /\ DInv /\ [DataNext]_dataVars => DInv'
  <1> SUFFICES ASSUME Base, DInv, [DataNext]_dataVars PROVE DInv'
    OBVIOUS
  <1>0. DTypeOK /\ RequestsOK
    BY DEF DInv
  <1>1. CASE Fetch \/ Store \/ Trim \/ TrimLands \/ Evict \/ WrittenBack \/ Steer
    BY <1>1, WorkerGlobal, WorkerKeys, WorkerFilled DEF DInv
  <1>2. ASSUME NEW c \in Clients, Submit(c) PROVE DInv'
    BY <1>0, <1>2, SubmitGlobal, SubmitKeys, SubmitFilled DEF DInv
  <1>3. ASSUME NEW c \in Clients, DataIO(c) PROVE DInv'
    BY <1>0, <1>3, ProceedGlobal, ProceedKeys, ProceedFilled DEF DInv
  <1>4. CASE UNCHANGED dataVars
    <2>1. UNCHANGED <<entry, table, worker, client, ssd, file, buf, trims, io, valid, spoiled,
                      fresh, writes>>
      BY <1>4 DEF dataVars, media, promise
    <2>2. DTypeOK' /\ RequestsOK'
      BY <1>0, <2>1 DEF DTypeOK, Written, RequestsOK, RequestOK, UnseenOK, PromiseOK, Writing,
         Reading
    <2>3. ASSUME NEW k \in Keys \ spoiled' PROVE KeyOK(k)'
      <3>1. KeyOK(k)
        BY <2>1 DEF DInv
      <3> QED
        BY <2>1, <3>1 DEF KeyOK, BlockOK, PromotionOK, ReaderOK, WriterOK, Current, h_lookup,
           WrittenSince, UnderWriteback, Reading
    <2>4. FilledOK'
      BY <2>1 DEF DInv, FilledOK, Filling
    <2> QED
      BY <2>2, <2>3, <2>4 DEF DInv
  <1> QED
    BY <1>1, <1>2, <1>3, <1>4 DEF DataNext, DataIO

LEMMA DataInvariance == DataSpec => [](Base /\ DInv)
  <1>1. DataInit => Base /\ DInv
    BY BaseInit, InitDInv
  <1>2. Base /\ DInv /\ [DataNext]_dataVars => (Base /\ DInv)'
    BY BaseStep, StepDInv
  <1> QED
    BY <1>1, <1>2, PTL DEF DataSpec

\* The device, the files, the buffer of the worker and what is promised keep
\* their types, for any number of blocks, pages, users, writes and trims.
THEOREM DataTypeCorrect == DataSpec => []DataTypeOK
  <1>1. Base /\ DInv => DataTypeOK
    <2> SUFFICES ASSUME Base, DInv PROVE DataTypeOK
      OBVIOUS
    <2>1. TypeOK /\ DTypeOK
      BY BaseFacts DEF DInv
    <2>2. Written \subseteq Contents
      BY <2>1, DataPathAssumption DEF DTypeOK, Written, Contents
    <2> QED
      BY <2>1, <2>2 DEF DataTypeOK, DTypeOK
  <1> QED
    BY <1>1, DataInvariance, PTL

\* No acknowledged write is lost and no old version comes back: the file of an
\* unspoiled page that is not cached, or its block, holds a version that a read
\* which begins now may return, or a write that has been submitted is about to
\* put it into the block.  What submit_pio, the promotions, demotions and
\* writebacks do without a common lock breaks this by the named races only, and
\* those name every page they hit.
THEOREM NewReadsAreValid == DataSpec => []NewReadsValid
  <1>1. Base /\ DInv => NewReadsValid
    <2> SUFFICES ASSUME Base, DInv, NEW k \in Keys \ spoiled
                 PROVE  /\ h_lookup(k) = {} => file[k] \in valid[k]
                        /\ \A e \in h_lookup(k) : ssd[e] \in valid[k] \/ BeingFilled(e)
      BY DEF NewReadsValid
    <2>1. Current(k) \subseteq valid[k]
      BY DEF DInv, KeyOK
    <2>2. ASSUME NEW e \in h_lookup(k), e \in fresh PROVE BeingFilled(e)
      BY <2>2 DEF DInv, FilledOK, BeingFilled, h_lookup
    <2> QED
      BY <2>1, <2>2 DEF Current
  <1> QED
    BY <1>1, DataInvariance, PTL

\* What a read returns, from whichever block or file submit_pio was sent to
\* before the page was promoted, written back, demoted or overwritten: a version
\* that was valid at some time since the read began.  A read of a block that is
\* another page's by now or has not been written yet returns something else; it
\* is one of the races, and its page is on record as spoiled.
THEOREM ReadsAreValid == DataSpec => ReadsValid
  <1>1. ASSUME Base, DInv, NEW c \in Clients, ReadCache(c)
        PROVE  client[c].key \in spoiled' \/ ssd[client[c].blk] \in io[c].seen
    <2> DEFINE k == client[c].key
    <2>1. Reading(c) /\ k \in Keys /\ spoiled \subseteq spoiled'
      BY <1>1 DEF ReadCache, CacheIO, Reading, DInv, RequestsOK, RequestOK, spoil_if, spoil
    <2> SUFFICES ASSUME k \notin spoiled' PROVE ssd[client[c].blk] \in io[c].seen
      OBVIOUS
    <2>2. ~MisplacedRead(c)
      BY <1>1 DEF ReadCache, spoil_if, spoil
    <2>3. Current(k) \subseteq io[c].seen
      BY <1>1, <2>1 DEF DInv, KeyOK, ReaderOK
    <2> QED
      BY <2>2, <2>3 DEF MisplacedRead, Moved, Current
  <1>2. ASSUME Base, DInv, NEW c \in Clients, ReadOrigin(c)
        PROVE  client[c].key \in spoiled \/ file[client[c].key] \in io[c].seen
    <2>1. Reading(c) /\ client[c].pc = "origin_io" /\ client[c].key \in Keys
      BY <1>2 DEF ReadOrigin, OriginIO, Reading, DInv, RequestsOK, RequestOK
    <2> QED
      BY <1>2, <2>1 DEF DInv, KeyOK, ReaderOK
  <1>3. Base /\ DInv =>
          [\A c \in Clients :
             LET k == client[c].key IN
             /\ ReadCache(c) => k \in spoiled' \/ ssd[client[c].blk] \in io[c].seen
             /\ ReadOrigin(c) => k \in spoiled \/ file[k] \in io[c].seen]_dataVars
    BY <1>1, <1>2
  <1> QED
    BY <1>3, DataInvariance, PTL DEF ReadsValid

\* A block on the clean queue may be dropped: the file has what it holds, but
\* for a write that is about to mark it dirty.  Losing the cache therefore loses
\* what is dirty, being written or being written back, and no more.
THEOREM CleanBlocksAreInFile == DataSpec => []CleanIsInFile
  <1>1. Base /\ DInv => CleanIsInFile
    <2> SUFFICES ASSUME Base, DInv, NEW e \in ToSet(clean), entry[e].key \notin spoiled
                 PROVE  WrittenSince(e) \/ ssd[e] = file[entry[e].key]
      BY DEF CleanIsInFile
    <2>1. e \in Entries /\ entry[e].alloc /\ e \notin InFlight
      BY BaseFacts, ListSets, WhereIs
    <2>2. e \in table /\ entry[e].key \in Keys
      BY <2>1, BaseFacts DEF Struct, HashedIsAllocated
    <2>3. BlockOK(entry[e].key, e)
      BY <2>2 DEF DInv, KeyOK, h_lookup
    <2>4. ~UnderWriteback(e)
      BY <2>1 DEF UnderWriteback, InFlight
    <2> QED
      BY <2>3, <2>4 DEF BlockOK
  <1> QED
    BY <1>1, DataInvariance, PTL
=============================================================================
