------------------------------ MODULE DataPath ------------------------------
(***************************************************************************)
(* The data that the actions of Mapping move: what the blocks of the cache *)
(* device and the files hold while users read and write and the worker     *)
(* migrates (write_cache ... map_pio in lib/ssd_cache_target.c, mg_start   *)
(* in lib/ssd_cache_mapping.c, the device operations of lib/spdk.c).       *)
(*                                                                         *)
(* Data.  Of each cache page one 4 KB page is watched: its content is      *)
(* <<key, version>>, or NoData for whatever an unwritten or trimmed block  *)
(* and a page past the end of its file hold.  Requests are those of        *)
(* Mapping but DISCARD.                                                    *)
(*                                                                         *)
(* What a page store promises is in ghost variables: valid[k] are the      *)
(* versions that a read of k that begins now may return, io[c].seen those  *)
(* that the read in progress of c may (what was valid when it began and    *)
(* what was written since), and spoiled the pages hit by one of the races  *)
(* that the code leaves open, each of which is named where it happens.     *)
(* The properties say that the list of races is complete: a page that met  *)
(* none of them is read and kept as promised.                              *)
(***************************************************************************)
EXTENDS Mapping

CONSTANTS
  MaxWrites,   \* bound: writes submitted
  MaxTrims,    \* bound: trims submitted and not yet carried out
  Short,       \* keys whose page is past the end of its file at first
  NoData

ASSUME DataPathAssumption ==
  /\ MaxWrites \in Nat /\ MaxTrims \in Nat \ {0}
  /\ Short \subseteq Keys
  /\ "DISCARD" \notin Ops
  /\ NoData \notin Keys \X Nat

VARIABLES
  ssd,      \* cache device: the content of each cblock
  file,     \* origin: the content of each key in its file
  buf,      \* dma_buf of the worker
  trims,    \* deallocate commands on their way: trim_spdk does not wait
  io,       \* request of each user: what it writes, and see above
  valid, spoiled,
  fresh,    \* cblocks inserted by lookup_mapping_with_insert and not yet written
  writes    \* writes submitted so far

media == <<ssd, file, buf, trims>>
promise == <<io, valid, spoiled, fresh, writes>>
dataVars == <<entry, lists, table, wq, worker, client, corrupt, media, promise>>

Contents == {NoData} \cup Keys \X (0 .. MaxWrites)

NoIO == [data |-> NoData, seen |-> {}]

DataInit ==
  /\ Init
  /\ ssd = [e \in Entries |-> NoData]
  /\ file = [k \in Keys |-> IF k \in Short THEN NoData ELSE <<k, 0>>]
  /\ buf = NoData /\ trims = 0
  /\ io = [c \in Clients |-> NoIO]
  /\ valid = [k \in Keys |-> {file[k]}]
  /\ spoiled = {} /\ fresh = {}
  /\ writes = 0

-----------------------------------------------------------------------------
(* The races. *)

\* The copy in the cache, or the one the worker is about to put there, was
\* taken before the write of this user reached the file.
StalePromotion(k) ==
  \/ h_lookup(k) # {}
  \/ worker.type = "PROMOTION" /\ worker.key = k /\ worker.pc \in {"mg_write", "complete"}

\* The block of the user's look-up was demoted meanwhile, and perhaps taken
\* for another key.
Moved(c) == client[c].blk \notin h_lookup(client[c].key)

Victim(e) == IF entry[e].alloc THEN {entry[e].key} ELSE {}

\* A write that reached the block is not in the file yet.
WrittenSince(e) ==
  entry[e].dirty \/ \E c \in Clients : client[c].pc = "set_dirty" /\ client[c].blk = e

\* A block that holds the data of its key.
Loaded(e) ==
  /\ entry[e].alloc
  /\ e \notin fresh
  /\ ~(worker.type = "PROMOTION" /\ worker.blk = e /\ worker.pc \in {"mg_read", "mg_write"})

\* A write that will put the data of its page into e.
Filling(c, e) ==
  /\ client[c].pc = "cache_io" /\ client[c].op # "READ"
  /\ client[c].blk = e /\ client[c].key = entry[e].key

BeingFilled(e) == e \in fresh /\ \E c \in Clients : Filling(c, e)

\* The read goes to a block that is another page's by now, or that still holds
\* what it held before it was inserted.
MisplacedRead(c) == Moved(c) \/ client[c].blk \in fresh

\* The last write that could fill the block has failed; the block stays in the
\* table with what it held before.
Abandoned(c) ==
  LET e == client[c].blk IN
  ~Moved(c) /\ e \in fresh /\ \A d \in Clients \ {c} : ~Filling(d, e)

spoil(S) == spoiled' = spoiled \cup S
spoil_if(cond, k) == spoil(IF cond THEN {k} ELSE {})

-----------------------------------------------------------------------------
(* The users. *)

\* A write is promised to supersede what had been written before it began.
Submit(c) ==
  /\ Request(c)
  /\ LET k == client'[c].key
         v == <<k, writes + 1>>
         underWay == {io[d].data : d \in Clients} \ {NoData}
         reads(d) == client[d].op = "READ" /\ client[d].key = k
     IN \/ /\ client'[c].op = "READ"
           /\ io' = [io EXCEPT ![c].seen = valid[k]]
           /\ UNCHANGED <<valid, writes>>
        \/ /\ client'[c].op # "READ"
           /\ writes < MaxWrites /\ writes' = writes + 1
           /\ valid' = [valid EXCEPT ![k] = @ \cup {v}]
           /\ io' = [d \in Clients |->
                       IF d = c THEN [data |-> v, seen |-> valid[k] \ underWay]
                       ELSE IF reads(d) THEN [io[d] EXCEPT !.seen = @ \cup {v}]
                       ELSE io[d]]
  /\ fresh' = fresh \cup (table' \ table)
  /\ UNCHANGED <<media, spoiled>>

\* The user gets its answer.
answer(c, ok) ==
  LET k == client[c].key IN
  /\ valid' = IF client[c].op = "READ" THEN valid
              ELSE [valid EXCEPT ![k] = @ \ (IF ok THEN io[c].seen ELSE {io[c].data})]
  /\ io' = [io EXCEPT ![c] = NoIO]

\* writev_spdk on the cblock.  A request that the device completes with an error
\* counts as done: cb_fn does not look at the status.
WriteCache(c) ==
  LET e == client[c].blk
      k == client[c].key
  IN /\ CacheIO(c) /\ client'[c].pc = "set_dirty"
     /\ \/ /\ ssd' = [ssd EXCEPT ![e] = io[c].data]
           /\ fresh' = fresh \ {e}
           /\ spoil(IF Moved(c) THEN {k} \cup Victim(e) ELSE {})
        \/ /\ IOFaults
           /\ spoil({k})
           /\ UNCHANGED <<ssd, fresh>>
     /\ UNCHANGED <<file, buf, trims, io, valid, writes>>

\* readv_spdk, which ends with the user's answer.
ReadCache(c) ==
  /\ CacheIO(c) /\ client[c].op = "READ"
  /\ answer(c, TRUE)
  /\ \/ spoil_if(MisplacedRead(c), client[c].key)
     \/ IOFaults /\ spoil({client[c].key})
  /\ UNCHANGED <<media, fresh, writes>>

\* The device does not take the request.
CacheRefuses(c) ==
  /\ CacheIO(c) /\ client'[c].pc = "idle" /\ IOFaults
  /\ answer(c, FALSE)
  /\ spoil_if(client[c].op # "READ" /\ Abandoned(c), client[c].key)
  /\ UNCHANGED <<media, fresh, writes>>

\* pwritev either reaches the watched page or, when it fails or stops short of it,
\* does not.  The user cannot tell which, as the result is 1 for any number of bytes
\* and for an error; only the first counts as acknowledged here.
WriteOrigin(c) ==
  LET k == client[c].key IN
  /\ OriginIO(c) /\ client[c].op # "READ"
  /\ \/ /\ file' = [file EXCEPT ![k] = io[c].data]
        /\ spoil_if(StalePromotion(k), k)
        /\ answer(c, TRUE)
     \/ /\ IOFaults
        /\ answer(c, FALSE)
        /\ UNCHANGED <<file, spoiled>>
  /\ UNCHANGED <<ssd, buf, trims, fresh, writes>>

ReadOrigin(c) ==
  /\ OriginIO(c) /\ client[c].op = "READ"
  /\ answer(c, TRUE)
  /\ UNCHANGED <<media, spoiled, fresh, writes>>

WriteDone(c) ==
  /\ set_dirty_after_write(c)
  /\ answer(c, TRUE)
  /\ UNCHANGED <<media, spoiled, fresh, writes>>

-----------------------------------------------------------------------------
(* The worker: mg_start and the completions. *)

moving == entry[worker.blk].key

\* pread past the end of the file returns 0, which is not < 0: what the
\* previous migration left in the buffer is promoted.
FetchFile ==
  /\ worker.type = "PROMOTION"
  /\ buf' = IF file[moving] = NoData THEN buf ELSE file[moving]
  /\ spoil_if(file[moving] = NoData, moving)

\* A block that was inserted and not written yet is written back as it is; and
\* an error in the completion is ignored, here too.
FetchBlock ==
  /\ worker.type = "WRITEBACK"
  /\ \/ buf' = ssd[worker.blk] /\ spoil_if(worker.blk \in fresh, moving)
     \/ IOFaults /\ UNCHANGED buf /\ spoil({moving})

Fetch ==
  /\ MgRead
  /\ \/ worker'.ok /\ (FetchFile \/ FetchBlock)
     \/ ~worker'.ok /\ UNCHANGED <<buf, spoiled>>
  /\ UNCHANGED <<ssd, file, trims, io, valid, fresh, writes>>

StoreBlock ==
  /\ worker.type = "PROMOTION"
  /\ \/ ssd' = [ssd EXCEPT ![worker.blk] = buf] /\ UNCHANGED spoiled
     \/ IOFaults /\ UNCHANGED ssd /\ spoil({moving})
  /\ fresh' = fresh \ {worker.blk}
  /\ UNCHANGED file

\* As if the block were written to the file of the work, which the worker also
\* has at hand (mutant).
StoreFile_of_the_work ==
  /\ worker.type = "WRITEBACK"
  /\ file' = [file EXCEPT ![worker.key] = buf]
  /\ UNCHANGED <<ssd, fresh, spoiled>>

\* A pwrite that stops before it comes to the page is not < 0 and counts as done.
StoreFile ==
  /\ worker.type = "WRITEBACK"
  /\ \/ file' = [file EXCEPT ![moving] = buf] /\ UNCHANGED spoiled
     \/ IOFaults /\ UNCHANGED file /\ spoil({moving})
  /\ UNCHANGED <<ssd, fresh>>

Store ==
  /\ MgWrite
  /\ \/ worker'.ok /\ (StoreBlock \/ StoreFile)
     \/ ~worker'.ok /\ UNCHANGED <<ssd, file, fresh, spoiled>>
  /\ UNCHANGED <<buf, trims, io, valid, writes>>

\* do_migration_work passes 0 as the page of the demotion, so the trim is
\* always that of cblock 0.  It is submitted, or refused, and not waited for.
Trim ==
  /\ MgTrim
  /\ \/ trims < MaxTrims /\ trims' = trims + 1
     \/ IOFaults /\ UNCHANGED trims
  /\ UNCHANGED <<ssd, file, buf, promise>>

\* The device carries out a trim.
TrimLands ==
  /\ trims > 0
  /\ trims' = trims - 1
  /\ ssd' = [ssd EXCEPT ![0] = NoData]
  /\ spoil(IF Loaded(0) THEN Victim(0) ELSE {})
  /\ UNCHANGED <<vars, file, buf, io, valid, fresh, writes>>

\* Neither does the completion look at the dirty bit, nor does it know of the
\* writes that are about to set it.
Evict ==
  /\ demotion_complete
  /\ spoil_if(WrittenSince(worker.blk), moving)
  /\ UNCHANGED <<media, io, valid, fresh, writes>>

\* After a failed copy the block is clean, although the file is older.
WrittenBack ==
  /\ writeback_complete
  /\ spoil_if(~worker.ok /\ ~WrittenSince(worker.blk), moving)
  /\ UNCHANGED <<media, io, valid, fresh, writes>>

\* The steps of the worker that move no data.
Steer ==
  /\ \/ peak_work
     \/ promotion_free_to_clean \/ PromotionRefused
     \/ demotion_clean_to_free \/ DemotionRefused
     \/ writeback_dirty_to_clean \/ WritebackRefused
     \/ promotion_complete
     \/ remove_work
  /\ UNCHANGED <<media, promise>>

-----------------------------------------------------------------------------
\* Once every page is spoiled nothing is promised any more: the model stops.
DataNext ==
  /\ spoiled # Keys
  /\ \/ \E c \in Clients :
          \/ Submit(c) \/ WriteDone(c)
          \/ WriteCache(c) \/ ReadCache(c) \/ CacheRefuses(c)
          \/ WriteOrigin(c) \/ ReadOrigin(c)
     \/ Fetch \/ Store \/ Trim \/ TrimLands \/ Evict \/ WrittenBack \/ Steer

DataSpec == DataInit /\ [][DataNext]_dataVars

-----------------------------------------------------------------------------
\* Every variable keeps its type.
DataTypeOK ==
  /\ TypeOK
  /\ ssd \in [Entries -> Contents] /\ file \in [Keys -> Contents] /\ buf \in Contents
  /\ trims \in 0 .. MaxTrims
  /\ io \in [Clients -> [data : Contents, seen : SUBSET Contents]]
  /\ valid \in [Keys -> SUBSET Contents]
  /\ spoiled \subseteq Keys /\ fresh \subseteq Entries
  /\ writes \in 0 .. MaxWrites

\* No acknowledged write is lost and no old version comes back while the worker
\* promotes, demotes and writes back without the lock: wherever map_pio would
\* send a read of the page now, to the file or to the cache, a valid version is
\* or the write that will put it there is under way.  Only the named races break
\* that.  (A read that overtakes such a write is one of them, MisplacedRead.)
NewReadsValid ==
  \A k \in Keys \ spoiled :
    /\ h_lookup(k) = {} => file[k] \in valid[k]
    /\ \A e \in h_lookup(k) : ssd[e] \in valid[k] \/ BeingFilled(e)

\* A read gets a version that was valid at some time since it began, though the
\* page moves between the look-up and the device: promoted, written back,
\* demoted or overwritten meanwhile.  If not, a race has hit the page, and is on
\* record from here on.
ReadsValid ==
  [][\A c \in Clients :
       LET k == client[c].key IN
       /\ ReadCache(c) => k \in spoiled' \/ ssd[client[c].blk] \in io[c].seen
       /\ ReadOrigin(c) => k \in spoiled \/ file[k] \in io[c].seen]_dataVars

\* A block on the clean queue may be dropped at any time, so the file has what
\* it holds, but for a write that is about to mark it dirty.  What an exit or a
\* forced exit of the server loses is therefore what is dirty or being written.
CleanIsInFile ==
  \A e \in ToSet(clean) :
    \/ entry[e].key \in spoiled
    \/ WrittenSince(e)
    \/ ssd[e] = file[entry[e].key]
=============================================================================
