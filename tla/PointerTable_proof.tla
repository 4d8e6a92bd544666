------------------------ MODULE PointerTable_proof -------------------------
(***************************************************************************)
(* The table as it lies in memory, for every size of the pool, every hash  *)
(* function and every number of users: it is well linked, and implements   *)
(* Mapping.                                                                *)
(***************************************************************************)
EXTENDS PointerLists_proof

-----------------------------------------------------------------------------
(* The theorems about Mapping, at the abstract table.                      *)

\* PointerTable and the theorems speak of the same actions of Mapping,
LEMMA SameNext == M!Next => MP!Next
  BY DEF M!Next, MP!Next, M!Migrate, MP!Migrate, M!Request, MP!Request, M!Proceed, MP!Proceed,
     M!LookupHit, MP!LookupHit, M!LookupMiss, MP!LookupMiss, M!InsertMiss, MP!InsertMiss,
     M!InsertQueued, MP!InsertQueued, M!InsertNoRoom, MP!InsertNoRoom, M!insert_dirty, MP!insert_dirty,
     M!InsertDirty, MP!InsertDirty, M!CacheIO, MP!CacheIO, M!OriginIO, MP!OriginIO,
     M!mark_dirty, MP!mark_dirty, M!set_dirty_after_write, MP!set_dirty_after_write,
     M!remove_mapping, MP!remove_mapping, M!goto, MP!goto, M!start, MP!start, M!peak_work, MP!peak_work,
     M!promotion_free_to_clean, MP!promotion_free_to_clean, M!PromotionRefused, MP!PromotionRefused,
     M!demotable, MP!demotable, M!demotion_clean_to_free, MP!demotion_clean_to_free,
     M!DemotionRefused, MP!DemotionRefused, M!writable, MP!writable,
     M!writeback_dirty_to_clean, MP!writeback_dirty_to_clean, M!WritebackRefused, MP!WritebackRefused,
     M!MgRead, MP!MgRead, M!MgWrite, MP!MgWrite, M!MgTrim, MP!MgTrim, M!completes, MP!completes,
     M!unpend, MP!unpend, M!promotion_complete, MP!promotion_complete,
     M!demotion_complete, MP!demotion_complete, M!writeback_complete, MP!writeback_complete,
     M!remove_work, MP!remove_work, M!add_tail, MP!add_tail, M!add_head, MP!add_head,
     M!l_del, MP!l_del, M!RemoveAt, MP!RemoveAt, M!queue_of, MP!queue_of, M!h_lookup, MP!h_lookup,
     M!contains_work, MP!contains_work, M!insert_work, MP!insert_work, M!goes, MP!goes,
     M!IdleClient, MP!IdleClient, M!IdleWorker, MP!IdleWorker, M!lists, MP!lists,
     M!WQ!Queued, MP!WQ!Queued, M!WQ!Accepts, MP!WQ!Accepts, M!WQ!Insert, MP!WQ!Insert,
     M!WQ!Remove, MP!WQ!Remove, M!ToSet, MP!ToSet, M!AllOps, MP!AllOps

\* of the same initial states
LEMMA SameInit == M!Init => MP!Init
  BY DEF M!Init, MP!Init, M!Entries, MP!Entries, M!IdleClient, MP!IdleClient, M!IdleWorker, MP!IdleWorker

\* The invariants of Mapping, for the table that is read off the links.
LEMMA AbstractStep ==
  ASSUME MP!IInv, MP!KInv, [M!Next]_(M!vars)
  PROVE  MP!IInv' /\ MP!KInv'
  <1>1. [MP!Next]_MP!vars
    BY SameNext DEF M!vars, MP!vars, M!lists, MP!lists
  <1> QED
    BY <1>1, MP!StepIInv, MP!StepKInv, TableAssumption DEF M!MappingAssumption, M!AllOps, MP!AllOps

\* They hold initially.
LEMMA AbstractInit ==
  ASSUME M!Init
  PROVE  MP!IInv /\ MP!KInv
  <1>1. MP!Init
    BY SameInit
  <1> QED
    BY <1>1, MP!InitIInv, MP!InitKInv, TableAssumption DEF M!MappingAssumption, M!AllOps, MP!AllOps

-----------------------------------------------------------------------------
(* The table that is read off the links.                                   *)

\* Queue l and the chains of a table.
ListedIn(u, l) == Walk(nexts(u), heads(u)[l])
HashedIn(u) == UNION {ToSet(Walk(hashes(u), u.buckets[b])) : b \in Buckets}

\* What is read off a table that holds S and C.
LEMMA ReadIn ==
  ASSUME NEW u, NEW S, NEW C, Rep(u, S, C)
  PROVE  /\ \A l \in Queues : ListedIn(u, l) = S[l]
         /\ HashedIn(u) = InChains(C)
  <1>1. ASSUME NEW l \in Queues PROVE ListedIn(u, l) = S[l]
    BY WalkLeads DEF ListedIn, Rep, Queued, OnQueue
  <1>2. ASSUME NEW b \in Buckets PROVE Walk(hashes(u), u.buckets[b]) = C[b]
    BY WalkLeads DEF Rep, Chained
  <1>3. HashedIn(u) = InChains(C)
    BY <1>2 DEF HashedIn, InChains
  <1> QED
    BY <1>1, <1>3

\* The abstract table is what the links lead to, in each state.
LEMMA Columns ==
  /\ Bits = bits(t) /\ Hashed = HashedIn(t)
  /\ \A l \in Queues : Listed(l) = ListedIn(t, l)
  <1>1. Bits = bits(t)
    BY DEF Bits, bits
  <1>2. Hashed = HashedIn(t)
    BY DEF Hashed, HashedIn, Chain, hashes
  <1>3. ASSUME NEW l \in Queues PROVE Listed(l) = ListedIn(t, l)
    BY <1>3 DEF Listed, ListedIn, nexts, heads, l_head
  <1> QED
    BY <1>1, <1>2, <1>3

\* The same after a step.
LEMMA ColumnsNext ==
  /\ Bits' = bits(t') /\ Hashed' = HashedIn(t')
  /\ \A l \in Queues : Listed(l)' = ListedIn(t', l)
  <1>1. Bits' = bits(t')
    BY DEF Bits, bits
  <1>2. Hashed' = HashedIn(t')
    BY DEF Hashed, HashedIn, Chain, hashes
  <1>3. ASSUME NEW l \in Queues PROVE Listed(l)' = ListedIn(t', l)
    BY <1>3 DEF Listed, ListedIn, nexts, heads, l_head
  <1> QED
    BY <1>1, <1>2, <1>3

\* The abstract table of a table that holds S and C...
LEMMA Read ==
  ASSUME NEW S, NEW C, Rep(t, S, C)
  PROVE  /\ Bits = bits(t) /\ Hashed = InChains(C)
         /\ Listed("free") = S["free"] /\ Listed("clean") = S["clean"] /\ Listed("dirty") = S["dirty"]
  BY Columns, ReadIn DEF Queues

\* ... also after a step.
LEMMA ReadNext ==
  ASSUME NEW S, NEW C, Rep(t', S, C)
  PROVE  /\ Bits' = bits(t') /\ Hashed' = InChains(C)
         /\ Listed("free")' = S["free"] /\ Listed("clean")' = S["clean"] /\ Listed("dirty")' = S["dirty"]
  BY ColumnsNext, ReadIn DEF Queues

\* Where an entry is, in the words of its bits.
Placed(S) ==
  \A e \in Entries :
    /\ ~bits(t)[e].alloc <=> e \in ToSet(S["free"])
    /\ bits(t)[e].alloc /\ ~bits(t)[e].pending /\ ~bits(t)[e].dirty <=> e \in ToSet(S["clean"])
    /\ bits(t)[e].alloc /\ ~bits(t)[e].pending /\ bits(t)[e].dirty <=> e \in ToSet(S["dirty"])
    /\ bits(t)[e].pending <=> e \in M!InFlight

\* Which entries are hashed, and that their keys differ.
HashedOnes(C) ==
  /\ \A e \in Entries :
       e \in InChains(C) <=> bits(t)[e].alloc /\ ~(worker.type = "PROMOTION" /\ e \in M!InFlight)
  /\ \A e \in InChains(C) : OnlyOfKey(t, C, e)

\* What the users and the worker hold.
Holders ==
  /\ corrupt \in BOOLEAN
  /\ \A c \in Clients : client[c].pc = "set_dirty" => client[c].blk \in Entries
  /\ worker.pc = "promote" => worker.key \in Keys
  /\ worker.pc = "complete" =>
       /\ worker.blk \in Entries /\ worker.ok \in BOOLEAN
       /\ bits(t)[worker.blk].alloc /\ bits(t)[worker.blk].pending
       /\ worker.type \in {"PROMOTION", "DEMOTION", "WRITEBACK"}
       /\ worker.type = "PROMOTION" => bits(t)[worker.blk].key \in Keys

\* What the invariants of Mapping say of the entries of the table.
LEMMA Facts ==
  ASSUME corrupt = FALSE, MP!IInv, MP!KInv, NEW S, NEW C, Rep(t, S, C)
  PROVE  Placed(S) /\ HashedOnes(C) /\ Holders
  <1>1. /\ Bits = bits(t) /\ Hashed = InChains(C)
        /\ Listed("free") = S["free"] /\ Listed("clean") = S["clean"] /\ Listed("dirty") = S["dirty"]
    BY Read
  <1>2. MP!Struct /\ MP!TypeOK /\ MP!WorkerOK /\ MP!ClientOK
    BY DEF MP!IInv
  <1>3. MP!InFlight = M!InFlight /\ MP!Entries = Entries
    BY DEF MP!InFlight, M!InFlight, MP!Entries, Entries
  <1>4. \A s : MP!ToSet(s) = ToSet(s)
    BY DEF MP!ToSet, ToSet
  <1>5. ASSUME NEW e \in Entries
        PROVE  /\ ~Bits[e].alloc <=> e \in MP!ToSet(Listed("free"))
               /\ Bits[e].alloc /\ ~Bits[e].pending /\ ~Bits[e].dirty <=> e \in MP!ToSet(Listed("clean"))
               /\ Bits[e].alloc /\ ~Bits[e].pending /\ Bits[e].dirty <=> e \in MP!ToSet(Listed("dirty"))
               /\ Bits[e].pending <=> e \in MP!InFlight
    BY <1>2, <1>3, MP!WhereIs, TableAssumption DEF M!MappingAssumption, M!AllOps, MP!AllOps
  <1>6. Placed(S)
    BY <1>1, <1>3, <1>4, <1>5 DEF Placed
  <1>7. Hashed = {e \in Entries : Bits[e].alloc} \ (IF worker.type = "PROMOTION" THEN MP!InFlight ELSE {})
    BY <1>2, <1>3 DEF MP!Struct, MP!HashedIsAllocated
  <1>8. \A e \in Hashed, x \in Hashed : Bits[e].key = Bits[x].key => e = x
    BY DEF MP!KInv, MP!UniqueKeys
  <1>9. \A e \in Entries :
          e \in InChains(C) <=> bits(t)[e].alloc /\ ~(worker.type = "PROMOTION" /\ e \in M!InFlight)
    BY <1>1, <1>3, <1>7
  <1>10. \A e \in InChains(C) : OnlyOfKey(t, C, e)
    BY <1>1, <1>8 DEF OnlyOfKey
  <1>11. HashedOnes(C)
    BY <1>9, <1>10 DEF HashedOnes
  <1>12. Holders
    <2>1. worker.pc = "promote" => worker.key \in Keys
      BY <1>2 DEF MP!WorkerOK
    <2>2. ASSUME worker.pc = "complete"
          PROVE  /\ worker.blk \in Entries /\ worker.ok \in BOOLEAN
                 /\ worker.type \in {"PROMOTION", "DEMOTION", "WRITEBACK"}
      BY <1>2, <1>3, <2>2 DEF MP!WorkerOK, MP!InFlight, MP!TypeOK, MP!WorkerRecord
    <2>3. ASSUME worker.pc = "complete", worker.type = "PROMOTION"
          PROVE  bits(t)[worker.blk].key \in Keys
      <3>1. Bits[worker.blk].key = worker.key
        BY <2>3 DEF MP!KInv, MP!PromotingKey
      <3>2. worker.key \in Keys
        BY <1>2, <2>3 DEF MP!WorkerOK
      <3> QED
        BY <1>1, <3>1, <3>2
    <2>4. \A c \in Clients : client[c].pc = "set_dirty" => client[c].blk \in Entries
      BY <1>2, <1>3 DEF MP!ClientOK
    <2>5. ASSUME worker.pc = "complete" PROVE bits(t)[worker.blk].alloc /\ bits(t)[worker.blk].pending
      <3>1. worker.blk \in MP!InFlight /\ worker.blk \in M!InFlight /\ worker.blk \in Entries
        BY <2>2, <2>5 DEF MP!InFlight, M!InFlight
      <3>2. MP!InFlight \cap MP!ToSet(Listed("free")) = {}
        BY <1>2 DEF MP!Struct, MP!Partition
      <3>3. worker.blk \notin ToSet(S["free"])
        BY <1>1, <1>4, <3>1, <3>2
      <3> QED
        BY <1>6, <3>1, <3>3 DEF Placed
    <2> QED
      BY <2>1, <2>2, <2>3, <2>4, <2>5 DEF Holders
  <1> QED
    BY <1>6, <1>11, <1>12

-----------------------------------------------------------------------------
(* Requests of the users.                                                  *)

\* The table holds S and C, and the bits say where each entry is.
Sound(S, C) == Rep(t, S, C) /\ Placed(S) /\ HashedOnes(C) /\ Holders /\ corrupt = FALSE

\* found misses when h_lookup of Mapping does, and hits the entry it returns.
LEMMA FoundIs ==
  ASSUME NEW S, NEW C, Sound(S, C), NEW k \in Keys
  PROVE  \/ found(t, k).e = INDEXER_NULL /\ M!h_lookup(k) = {}
         \/ LET e == found(t, k).e IN
            /\ e \in InChains(C) /\ e \in Entries /\ e # INDEXER_NULL /\ bits(t)[e].key = k
            /\ OnlyOfKey(t, C, e) /\ e \in M!h_lookup(k) /\ bits(t)[e].alloc
            /\ e \in M!InFlight => worker.type # "PROMOTION"
  <1>1. Chained(t, C) /\ Rep(t, S, C) /\ HashedOnes(C)
    BY DEF Sound, Rep
  <1>2. Bits = bits(t) /\ Hashed = InChains(C)
    BY <1>1, Read
  <1>3. CASE \A x \in InChains(C) : bits(t)[x].key # k
    <2>1. found(t, k).e = INDEXER_NULL
      BY <1>1, <1>3, FoundMiss
    <2>2. M!h_lookup(k) = {}
      BY <1>2, <1>3 DEF M!h_lookup
    <2> QED
      BY <2>1, <2>2
  <1>4. CASE \E x \in InChains(C) : bits(t)[x].key = k
    <2>1. PICK e \in InChains(C) : bits(t)[e].key = k
      BY <1>4
    <2>2. OnlyOfKey(t, C, e)
      BY <1>1 DEF HashedOnes
    <2>3. \A x \in InChains(C) : bits(t)[x].key = k => x = e
      BY <2>1, <2>2 DEF OnlyOfKey
    <2>4. \E i \in 1 .. Len(C[hash_32[k]]) :
              e = C[hash_32[k]][i] /\ found(t, k) = [e |-> e, prev |-> Before(C[hash_32[k]], i)]
      BY <1>1, <2>1, <2>3, FoundHit
    <2>5. found(t, k).e = e
      BY <2>4
    <2>6. e \in Entries /\ e # INDEXER_NULL
      BY <1>1, KeyedChain, Constants
    <2>7. bits(t)[e].alloc /\ (e \in M!InFlight => worker.type # "PROMOTION")
      BY <1>1, <2>6 DEF HashedOnes
    <2>8. e \in M!h_lookup(k)
      BY <1>2, <2>1 DEF M!h_lookup
    <2> QED
      BY <2>1, <2>2, <2>5, <2>6, <2>7, <2>8
  <1> QED
    BY <1>3, <1>4

\* requeue moves an entry of its queue to the tail.
LEMMA RequeueRep ==
  ASSUME NEW u, NEW S, NEW C, Rep(u, S, C), NEW q \in Queues, NEW e \in ToSet(S[q]), q = queue_of(u, e)
  PROVE  LET v == requeue(u, e)
             R == [S EXCEPT ![q] = Append(M!l_del(S[q], e), e)]
         IN Rep(v, R, C) /\ bits(v) = bits(u)
  <1> DEFINE v == requeue(u, e)
             a == l_del(u, q, e)
             T == [S EXCEPT ![q] = M!l_del(S[q], e)]
             R == [S EXCEPT ![q] = Append(M!l_del(S[q], e), e)]
  <1>1. v = l_add_tail(a, q, e)
    BY DEF requeue
  <1>2. Rep(a, T, C) /\ bits(a) = bits(u) /\ Off(T, e) /\ e \in Entries
    BY DelRep
  <1>3. S \in [Queues -> Seq(Entries)]
    BY DEF Rep, Queued
  <1>4. T[q] = M!l_del(S[q], e) /\ [T EXCEPT ![q] = Append(T[q], e)] = R
    BY <1>3
  <1> HIDE DEF v, a, T, R
  <1>5. Rep(v, [T EXCEPT ![q] = Append(T[q], e)], C) /\ bits(v) = bits(a)
    BY <1>1, <1>2, AddTailRep
  <1> QED
    BY <1>2, <1>4, <1>5 DEF v, R

\* A hit does to the links what LookupHit of Mapping says.
LEMMA HitStep ==
  ASSUME NEW S, NEW C, Sound(S, C), NEW c \in Clients, NEW op \in Ops, NEW k \in Keys, LookupHit(c, op, k)
  PROVE  M!LookupHit(c, op, k) /\ \E R, D : Rep(t', R, D)
  <1> DEFINE e == found(t, k).e
             u == h_lookup(t, k)
  <1>1. /\ e \in InChains(C) /\ e \in Entries /\ bits(t)[e].key = k
        /\ OnlyOfKey(t, C, e) /\ e \in M!h_lookup(k) /\ bits(t)[e].alloc
    BY FoundIs DEF LookupHit
  <1>2. Rep(t, S, C) /\ Placed(S)
    BY DEF Sound
  <1>3. /\ Bits = bits(t) /\ Hashed = InChains(C)
        /\ Listed("free") = S["free"] /\ Listed("clean") = S["clean"] /\ Listed("dirty") = S["dirty"]
    BY <1>2, Read
  <1>4. bits(u) = bits(t) /\ \E D : Rep(u, S, D) /\ InChains(D) = InChains(C)
    BY <1>1, <1>2, LookupRep
  <1>5. PICK D : Rep(u, S, D) /\ InChains(D) = InChains(C)
    BY <1>4
  <1>6. /\ client[c].pc = "idle" /\ op \in Ops \ {"DISCARD"}
        /\ t' = IF ~u.es[e].pending /\ ~u.es[e].dirty THEN requeue(u, e) ELSE u
        /\ M!goes(c, "cache_io", op, k, e)
        /\ UNCHANGED <<wq, worker, corrupt>>
    BY DEF LookupHit
  <1> HIDE DEF e, u
  <1>7. u.es[e].pending = Bits[e].pending /\ u.es[e].dirty = Bits[e].dirty
    BY <1>1, <1>3, <1>4, <1>5, BitsAt DEF Rep
  <1> DEFINE front == [S EXCEPT !["clean"] = Append(M!l_del(S["clean"], e), e)]
             R == IF ~Bits[e].pending /\ ~Bits[e].dirty THEN front ELSE S
  <1>8. Rep(t', R, D) /\ bits(t') = bits(t)
    <2>1. CASE ~Bits[e].pending /\ ~Bits[e].dirty
      <3>1. t' = requeue(u, e)
        BY <1>6, <1>7, <2>1
      <3>2. e \in ToSet(S["clean"])
        BY <1>1, <1>2, <1>3, <2>1 DEF Placed
      <3>3. "clean" = queue_of(u, e) /\ "clean" \in Queues
        BY <1>7, <2>1 DEF queue_of, Queues
      <3>4. Rep(requeue(u, e), front, D) /\ bits(requeue(u, e)) = bits(u)
        BY <1>5, <3>2, <3>3, RequeueRep
      <3>5. R = front
        BY <2>1
      <3> QED
        BY <1>4, <3>1, <3>4, <3>5
    <2>2. CASE ~(~Bits[e].pending /\ ~Bits[e].dirty)
      <3>1. t' = u /\ R = S
        BY <1>6, <1>7, <2>2
      <3> QED
        BY <1>4, <1>5, <3>1
    <2> QED
      BY <2>1, <2>2
  <1>9. S \in [Queues -> Seq(Entries)]
    BY <1>2 DEF Rep, Queued
  <1>10. /\ R["free"] = S["free"] /\ R["dirty"] = S["dirty"]
         /\ R["clean"] = IF ~Bits[e].pending /\ ~Bits[e].dirty THEN Append(M!l_del(S["clean"], e), e) ELSE S["clean"]
    BY <1>9 DEF Queues
  <1> HIDE DEF R
  <1>11. /\ Bits' = Bits /\ Hashed' = Hashed /\ Listed("free")' = Listed("free") /\ Listed("dirty")' = Listed("dirty")
         /\ Listed("clean")' = IF ~Bits[e].pending /\ ~Bits[e].dirty
                               THEN Append(M!l_del(Listed("clean"), e), e) ELSE Listed("clean")
    BY <1>3, <1>5, <1>8, <1>10, ReadNext
  <1>12. M!LookupHit(c, op, k)
    BY <1>1, <1>6, <1>11 DEF M!LookupHit
  <1> QED
    BY <1>8, <1>12

\* The ends of a queue say whether it is empty and which entry is first.
LEMMA EmptyQueue ==
  ASSUME NEW S, NEW C, Rep(t, S, C), NEW l \in Queues
  PROVE  /\ l_empty(t, l) <=> S[l] = <<>>
         /\ S[l] # <<>> => /\ l_head(t, l) = Head(S[l]) /\ Head(S[l]) \in ToSet(S[l])
                           /\ M!l_del(S[l], Head(S[l])) = Tail(S[l])
         /\ S[l] \in Seq(Entries)
         /\ t.list[l].nr_elts = Len(S[l])
  <1>1. OnQueue(t, l, S[l])
    BY DEF Rep, Queued
  <1> DEFINE s == S[l]
  <1> HIDE DEF s
  <1>2. /\ s \in Seq(Entries) /\ IsInjective(s) /\ INDEXER_NULL \notin Entries
        /\ t.list[l].head = (IF s = <<>> THEN INDEXER_NULL ELSE s[1])
        /\ t.list[l].nr_elts = Len(s)
    BY <1>1, FollowedEnds, EndAt, Constants DEF s
  <1>3. s # <<>> => Head(s) \in ToSet(s) /\ Head(s) = s[1] /\ M!l_del(s, Head(s)) = Tail(s) /\ s[1] \in Entries
    BY <1>2, DelFirst, Places
  <1> QED
    BY <1>2, <1>3 DEF l_empty, l_head, s

\* A miss is a miss in Mapping.
LEMMA MissIs ==
  ASSUME NEW S, NEW C, Sound(S, C), NEW k \in Keys, found(t, k).e = INDEXER_NULL
  PROVE  M!h_lookup(k) = {}
  BY FoundIs

\* A step that leaves the table alone.
LEMMA TableKept ==
  ASSUME t' = t
  PROVE  Bits' = Bits /\ Hashed' = Hashed /\ \A l : Listed(l)' = Listed(l)
  BY DEF Bits, Hashed, Listed, l_head, Chain

\* A miss that queues the key is a step of Mapping.
LEMMA MissStep ==
  ASSUME NEW S, NEW C, Sound(S, C), NEW c \in Clients, NEW op \in Ops, NEW k \in Keys, QueueMiss(c, op, k)
  PROVE  (M!LookupMiss(c, op, k) \/ M!InsertNoRoom(c, k)) /\ \E R, D : Rep(t', R, D)
  <1>1. M!h_lookup(k) = {} /\ client[c].pc = "idle"
    BY MissIs DEF QueueMiss, Missed
  <1>2. Rep(t, S, C) /\ Listed("free") = S["free"] /\ (l_empty(t, "free") <=> S["free"] = <<>>)
    BY Read, EmptyQueue DEF Sound, Queues
  <1>3. t' = t
    BY DEF QueueMiss
  <1>4. Bits' = Bits /\ Hashed' = Hashed /\ \A l : Listed(l)' = Listed(l)
    BY <1>3, TableKept
  <1>5. Rep(t', S, C)
    BY <1>2, <1>3
  <1>6. op \in {"READ", "WRITE", "OVERWRITE"}
    BY TableAssumption DEF M!MappingAssumption, M!AllOps, QueueMiss
  <1>7. CASE op = "OVERWRITE"
    BY <1>1, <1>2, <1>4, <1>5, <1>7 DEF QueueMiss, M!InsertNoRoom, M!InsertMiss, M!lists
  <1>8. CASE op # "OVERWRITE"
    BY <1>1, <1>4, <1>5, <1>6, <1>8 DEF QueueMiss, M!LookupMiss, M!lists
  <1> QED
    BY <1>7, <1>8

\* A miss on a key that is queued is a step of Mapping.
LEMMA QueuedStep ==
  ASSUME NEW S, NEW C, Sound(S, C), NEW c \in Clients, NEW k \in Keys, InsertQueued(c, k)
  PROVE  M!InsertQueued(c, k) /\ \E R, D : Rep(t', R, D)
  <1>1. M!h_lookup(k) = {} /\ client[c].pc = "idle" /\ "OVERWRITE" \in Ops
    BY MissIs DEF InsertQueued, Missed
  <1>2. t' = t
    BY DEF InsertQueued
  <1>3. Bits' = Bits /\ Hashed' = Hashed /\ \A l : Listed(l)' = Listed(l)
    BY <1>2, TableKept
  <1>4. Rep(t', S, C)
    BY <1>2 DEF Sound
  <1> QED
    BY <1>1, <1>3, <1>4 DEF InsertQueued, M!InsertQueued, M!InsertMiss, M!lists

\* The free entry that is taken next.
LEMMA FreeHead ==
  ASSUME NEW S, NEW C, Sound(S, C), ~l_empty(t, "free")
  PROVE  LET e == Head(S["free"]) IN
         /\ S["free"] # <<>> /\ l_head(t, "free") = e /\ e \in Entries
         /\ e \notin InChains(C) /\ ~bits(t)[e].alloc
  <1>1. Rep(t, S, C) /\ Placed(S) /\ HashedOnes(C) /\ "free" \in Queues
    BY DEF Sound, Queues
  <1>2. /\ S["free"] # <<>> /\ l_head(t, "free") = Head(S["free"]) /\ Head(S["free"]) \in ToSet(S["free"])
        /\ S["free"] \in Seq(Entries)
    BY <1>1, EmptyQueue
  <1>3. Head(S["free"]) \in Entries
    BY <1>2, Places
  <1> QED
    BY <1>1, <1>2, <1>3 DEF Placed, HashedOnes

\* The bits of an entry that was given out for key k.
fresh_bits(k) == [key |-> k, pending |-> FALSE, dirty |-> FALSE, alloc |-> TRUE]

\* What alloc_entry gives out for key k.
LEMMA Taken ==
  ASSUME NEW S, NEW C, Sound(S, C), ~l_empty(t, "free"), NEW k \in Keys
  PROVE  LET e == Head(S["free"])
             a == alloc_entry(t, k)
             F == [S EXCEPT !["free"] = Tail(S["free"])]
         IN /\ S["free"] # <<>> /\ l_head(t, "free") = e /\ e \in Entries /\ e \notin InChains(C)
            /\ Rep(a, F, C) /\ Off(F, e) /\ bits(a) = [bits(t) EXCEPT ![e] = fresh_bits(k)]
  <1> DEFINE e == Head(S["free"])
             a == alloc_entry(t, k)
             F == [S EXCEPT !["free"] = Tail(S["free"])]
  <1>1. /\ S["free"] # <<>> /\ l_head(t, "free") = e /\ e \in Entries
        /\ e \notin InChains(C) /\ ~bits(t)[e].alloc
    BY FreeHead
  <1>2. Rep(t, S, C)
    BY DEF Sound
  <1> HIDE DEF e, a
  <1>3. /\ Rep(a, F, C) /\ Off(F, e)
        /\ bits(a) = [bits(t) EXCEPT ![e] = [key |-> k, pending |-> FALSE, dirty |-> FALSE, alloc |-> TRUE]]
    BY <1>1, <1>2, AllocRep DEF e, a
  <1>4. bits(a) = [bits(t) EXCEPT ![e] = fresh_bits(k)]
    BY <1>3 DEF fresh_bits
  <1> QED
    BY <1>1, <1>3, <1>4 DEF e, a

\* An entry as it is given out with its dirty bit set.
LEMMA DirtyBit ==
  ASSUME NEW k
  PROVE  [[key |-> k, pending |-> FALSE, dirty |-> FALSE, alloc |-> TRUE] EXCEPT !.dirty = TRUE]
           = [key |-> k, pending |-> FALSE, dirty |-> TRUE, alloc |-> TRUE]
  <1>1. ASSUME NEW f, NEW i
        PROVE  [[key |-> k, pending |-> f, dirty |-> f, alloc |-> i] EXCEPT !.dirty = i]
                 = [key |-> k, pending |-> f, dirty |-> i, alloc |-> i]
    OBVIOUS
  <1> QED
    BY <1>1

\* Inserting a key dirty does to links, ends, counts and chains what Mapping
\* says.
LEMMA InsertStep ==
  ASSUME NEW S, NEW C, Sound(S, C), NEW c \in Clients, NEW k \in Keys, InsertDirty(c, k)
  PROVE  M!InsertDirty(c, k) /\ \E R, D : Rep(t', R, D)
  <1> DEFINE e == Head(S["free"])
             a == alloc_entry(t, k)
             u == set_dirty(a, e, TRUE)
             v == h_insert(u, e)
             F == [S EXCEPT !["free"] = Tail(S["free"])]
             R == [F EXCEPT !["dirty"] = Append(F["dirty"], e)]
  <1>1. M!h_lookup(k) = {} /\ client[c].pc = "idle" /\ "OVERWRITE" \in Ops /\ ~M!contains_work(k)
    BY MissIs DEF InsertDirty, Missed
  <1>2. /\ S["free"] # <<>> /\ l_head(t, "free") = e /\ e \in Entries /\ e \notin InChains(C)
        /\ Rep(a, F, C) /\ Off(F, e) /\ bits(a) = [bits(t) EXCEPT ![e] = fresh_bits(k)]
    BY Taken DEF InsertDirty
  <1>3. /\ t' = l_add_tail(v, "dirty", e) /\ M!goes(c, "cache_io", "OVERWRITE", k, e)
        /\ UNCHANGED <<wq, worker, corrupt>>
    BY <1>2 DEF InsertDirty, set_dirty
  <1>4. Rep(t, S, C)
    BY DEF Sound
  <1>5. /\ Bits = bits(t) /\ Hashed = InChains(C)
        /\ Listed("free") = S["free"] /\ Listed("clean") = S["clean"] /\ Listed("dirty") = S["dirty"]
    BY <1>4, Read
  <1>6. S \in [Queues -> Seq(Entries)] /\ DOMAIN bits(t) = Entries
    BY <1>4, ColumnDomains DEF Rep, Queued
  <1> HIDE DEF e, u, v, a
  <1>7. /\ Rep(a, F, C) /\ Off(F, e)
        /\ bits(a) = [bits(t) EXCEPT ![e] = [key |-> k, pending |-> FALSE, dirty |-> FALSE, alloc |-> TRUE]]
    BY <1>2 DEF fresh_bits
  <1> HIDE DEF F
  <1>8. Rep(u, F, C) /\ bits(u) = [bits(a) EXCEPT ![e].dirty = TRUE]
    <2>1. Rep(a, F, C) /\ e \in Entries /\ TRUE \in BOOLEAN
      BY <1>2, <1>7
    <2>2. u = set_dirty(a, e, TRUE)
      BY DEF u
    <2> QED
      BY <2>1, <2>2, DirtyRep
  <1>9. bits(u) = [bits(t) EXCEPT ![e] = [key |-> k, pending |-> FALSE, dirty |-> TRUE, alloc |-> TRUE]]
    <2> DEFINE r == [key |-> k, pending |-> FALSE, dirty |-> FALSE, alloc |-> TRUE]
               n == [key |-> k, pending |-> FALSE, dirty |-> TRUE, alloc |-> TRUE]
    <2>1. [r EXCEPT !.dirty = TRUE] = n
      BY DirtyBit
    <2>2. bits(a)[e] = r
      BY <1>2, <1>6, <1>7
    <2>3. bits(u) = [bits(a) EXCEPT ![e] = n]
      BY <1>8, <2>1, <2>2
    <2> HIDE DEF r, n
    <2>4. bits(a) = [bits(t) EXCEPT ![e] = r]
      BY <1>7 DEF r
    <2>5. bits(u) = [bits(t) EXCEPT ![e] = n]
      BY <1>2, <1>6, <2>3, <2>4
    <2> QED
      BY <2>5 DEF n
  <1>10. bits(u)[e].key \in Keys
    BY <1>2, <1>6, <1>9
  <1>11. bits(v) = bits(u) /\ \E D : Rep(v, F, D) /\ InChains(D) = InChains(C) \cup {e}
    <2>1. Rep(u, F, C) /\ e \in Entries /\ e \notin InChains(C) /\ bits(u)[e].key \in Keys
      BY <1>2, <1>8, <1>10
    <2>2. v = h_insert(u, e)
      BY DEF v
    <2> QED
      BY <2>1, <2>2, InsertRep
  <1>12. PICK D : Rep(v, F, D) /\ InChains(D) = InChains(C) \cup {e}
    BY <1>11
  <1>13. Rep(t', R, D) /\ bits(t') = bits(v)
    BY <1>2, <1>3, <1>7, <1>12, AddTailRep DEF Queues
  <1>14. R["free"] = Tail(S["free"]) /\ R["clean"] = S["clean"] /\ R["dirty"] = Append(S["dirty"], e)
    BY <1>6 DEF F, Queues
  <1> HIDE DEF R
  <1>15. /\ Bits' = [Bits EXCEPT ![e] = [key |-> k, pending |-> FALSE, dirty |-> TRUE, alloc |-> TRUE]]
         /\ Hashed' = Hashed \cup {e}
         /\ Listed("free")' = Tail(Listed("free")) /\ Listed("clean")' = Listed("clean")
         /\ Listed("dirty")' = Append(Listed("dirty"), e)
    BY <1>5, <1>9, <1>11, <1>12, <1>13, <1>14, ReadNext
  <1>16. M!insert_dirty(c, k)
    <2>1. e = Head(Listed("free")) /\ Listed("free") # <<>>
      BY <1>2, <1>5 DEF e
    <2> QED
      BY <1>3, <1>15, <2>1 DEF M!insert_dirty
  <1> QED
    BY <1>1, <1>13, <1>16 DEF M!InsertDirty, M!InsertMiss

\* The columns of the abstract table for the entry e that a step is about.
LEMMA SoundBits ==
  ASSUME NEW S, NEW C, Sound(S, C), NEW e \in Entries
  PROVE  /\ Rep(t, S, C) /\ t \in Table /\ Bits = bits(t) /\ Hashed = InChains(C)
         /\ Listed("free") = S["free"] /\ Listed("clean") = S["clean"] /\ Listed("dirty") = S["dirty"]
         /\ t.es[e].alloc = Bits[e].alloc /\ t.es[e].pending = Bits[e].pending
         /\ t.es[e].dirty = Bits[e].dirty /\ t.es[e].key = Bits[e].key
         /\ queue_of(t, e) = IF Bits[e].dirty THEN "dirty" ELSE "clean"
         /\ DOMAIN Bits = Entries
  <1>1. Rep(t, S, C) /\ t \in Table
    BY DEF Sound, Rep
  <1>2. /\ Bits = bits(t) /\ Hashed = InChains(C)
        /\ Listed("free") = S["free"] /\ Listed("clean") = S["clean"] /\ Listed("dirty") = S["dirty"]
    BY <1>1, Read
  <1>3. /\ t.es[e].alloc = Bits[e].alloc /\ t.es[e].pending = Bits[e].pending
        /\ t.es[e].dirty = Bits[e].dirty /\ t.es[e].key = Bits[e].key
    BY <1>1, <1>2, BitsAt
  <1>4. queue_of(t, e) = IF Bits[e].dirty THEN "dirty" ELSE "clean"
    BY <1>3 DEF queue_of
  <1>5. DOMAIN Bits = Entries
    BY <1>2, ColumnDomains
  <1> QED
    BY <1>1, <1>2, <1>3, <1>4, <1>5

\* What set_dirty_after_write does to a table when e is on queue q.
remark(u, q, e) == l_add_tail(set_dirty(l_del(u, q, e), e, TRUE), "dirty", e)

\* The entry moves from queue q to the tail of the dirty one.
LEMMA RemarkRep ==
  ASSUME NEW u, NEW S, NEW C, Rep(u, S, C), NEW q \in {"clean", "dirty"}, NEW e \in ToSet(S[q])
  PROVE  LET v == remark(u, q, e) IN
         /\ bits(v) = [bits(u) EXCEPT ![e].dirty = TRUE]
         /\ \E R : /\ Rep(v, R, C) /\ R["free"] = S["free"]
                   /\ q = "dirty" => R["clean"] = S["clean"] /\ R["dirty"] = Append(M!l_del(S["dirty"], e), e)
                   /\ q = "clean" => R["clean"] = M!l_del(S["clean"], e) /\ R["dirty"] = Append(S["dirty"], e)
  <1> DEFINE a == l_del(u, q, e)
             b == set_dirty(a, e, TRUE)
             v == l_add_tail(b, "dirty", e)
             T == [S EXCEPT ![q] = M!l_del(S[q], e)]
             R == [T EXCEPT !["dirty"] = Append(T["dirty"], e)]
  <1>1. Rep(a, T, C) /\ bits(a) = bits(u) /\ Off(T, e) /\ e \in Entries
    BY DelRep DEF Queues
  <1>2. S \in [Queues -> Seq(Entries)]
    BY DEF Rep, Queued
  <1>3. /\ R["free"] = S["free"]
        /\ q = "dirty" => R["clean"] = S["clean"] /\ R["dirty"] = Append(M!l_del(S["dirty"], e), e)
        /\ q = "clean" => R["clean"] = M!l_del(S["clean"], e) /\ R["dirty"] = Append(S["dirty"], e)
    BY <1>2 DEF Queues
  <1> HIDE DEF a, b, v, T
  <1>4. Rep(b, T, C) /\ bits(b) = [bits(a) EXCEPT ![e].dirty = TRUE]
    <2>1. Rep(a, T, C) /\ e \in Entries /\ TRUE \in BOOLEAN
      BY <1>1
    <2>2. b = set_dirty(a, e, TRUE)
      BY DEF b
    <2> QED
      BY <2>1, <2>2, DirtyRep
  <1>5. Rep(v, R, C) /\ bits(v) = bits(b)
    <2>1. Rep(b, T, C) /\ e \in Entries /\ Off(T, e) /\ "dirty" \in Queues
      BY <1>1, <1>4 DEF Queues
    <2>2. v = l_add_tail(b, "dirty", e)
      BY DEF v
    <2> QED
      BY <2>1, <2>2, AddTailRep
  <1> HIDE DEF R
  <1>6. bits(v) = [bits(u) EXCEPT ![e].dirty = TRUE]
    BY <1>1, <1>4, <1>5
  <1> QED
    BY <1>3, <1>5, <1>6 DEF v, b, a, remark

\* set_dirty_after_write is a step of Mapping, wherever the entry is by then.
LEMMA SetDirtyStep ==
  ASSUME NEW S, NEW C, Sound(S, C), NEW c \in Clients, set_dirty_after_write(c)
  PROVE  M!set_dirty_after_write(c) /\ \E R, D : Rep(t', R, D)
  <1> DEFINE e == client[c].blk
             q == queue_of(t, e)
  <1>1. e \in Entries /\ client[c].pc = "set_dirty"
    BY DEF set_dirty_after_write, Sound, Holders
  <1>2. /\ Rep(t, S, C) /\ t \in Table /\ Bits = bits(t) /\ Hashed = InChains(C)
        /\ Listed("free") = S["free"] /\ Listed("clean") = S["clean"] /\ Listed("dirty") = S["dirty"]
        /\ t.es[e].alloc = Bits[e].alloc /\ t.es[e].pending = Bits[e].pending
        /\ t.es[e].dirty = Bits[e].dirty
        /\ q = IF Bits[e].dirty THEN "dirty" ELSE "clean"
    BY <1>1, SoundBits
  <1>3. Placed(S)
    BY DEF Sound
  <1>4. /\ t' = IF ~t.es[e].alloc THEN t
                ELSE IF t.es[e].pending THEN set_dirty(t, e, TRUE)
                ELSE remark(t, q, e)
        /\ client' = [client EXCEPT ![c] = M!IdleClient]
        /\ UNCHANGED <<wq, worker, corrupt>>
    BY DEF set_dirty_after_write, set_dirty, remark
  <1> HIDE DEF q
  <1>5. CASE ~Bits[e].alloc
    <2>1. t' = t
      BY <1>2, <1>4, <1>5
    <2>2. Bits' = Bits /\ Hashed' = Hashed /\ \A l : Listed(l)' = Listed(l)
      BY <2>1, TableKept
    <2>3. Rep(t', S, C)
      BY <1>2, <2>1
    <2> QED
      BY <1>1, <1>4, <1>5, <2>2, <2>3 DEF M!set_dirty_after_write
  <1>6. CASE Bits[e].alloc /\ Bits[e].pending
    <2>1. t' = set_dirty(t, e, TRUE)
      BY <1>2, <1>4, <1>6
    <2>2. Rep(t, S, C) /\ e \in Entries /\ TRUE \in BOOLEAN
      BY <1>1, <1>2
    <2>3. Rep(t', S, C) /\ bits(t') = [bits(t) EXCEPT ![e].dirty = TRUE]
      BY <2>1, <2>2, DirtyRep
    <2>4. /\ Bits' = [Bits EXCEPT ![e].dirty = TRUE] /\ Hashed' = Hashed
          /\ Listed("free")' = Listed("free") /\ Listed("clean")' = Listed("clean")
          /\ Listed("dirty")' = Listed("dirty")
      BY <1>2, <2>3, ReadNext
    <2> QED
      BY <1>1, <1>4, <1>6, <2>3, <2>4 DEF M!set_dirty_after_write
  <1>7. CASE Bits[e].alloc /\ ~Bits[e].pending
    <2>1. t' = remark(t, q, e)
      BY <1>2, <1>4, <1>7
    <2>2. q \in {"clean", "dirty"} /\ e \in ToSet(S[q])
      BY <1>1, <1>2, <1>3, <1>7 DEF Placed
    <2>3. /\ bits(t') = [bits(t) EXCEPT ![e].dirty = TRUE]
          /\ \E R : /\ Rep(t', R, C) /\ R["free"] = S["free"]
                    /\ q = "dirty" => R["clean"] = S["clean"] /\ R["dirty"] = Append(M!l_del(S["dirty"], e), e)
                    /\ q = "clean" => R["clean"] = M!l_del(S["clean"], e) /\ R["dirty"] = Append(S["dirty"], e)
      <3>1. Rep(t, S, C)
        BY <1>2
      <3> HIDE DEF e
      <3> QED
        BY <2>1, <2>2, <3>1, RemarkRep
    <2>4. PICK R : /\ Rep(t', R, C) /\ R["free"] = S["free"]
                   /\ q = "dirty" => R["clean"] = S["clean"] /\ R["dirty"] = Append(M!l_del(S["dirty"], e), e)
                   /\ q = "clean" => R["clean"] = M!l_del(S["clean"], e) /\ R["dirty"] = Append(S["dirty"], e)
      BY <2>3
    <2>5. /\ Bits' = [Bits EXCEPT ![e].dirty = TRUE] /\ Hashed' = Hashed
          /\ Listed("free")' = Listed("free") /\ Listed("clean")' = R["clean"] /\ Listed("dirty")' = R["dirty"]
      BY <1>2, <2>3, <2>4, ReadNext
    <2>6. M!mark_dirty(e)
      BY <1>2, <2>4, <2>5 DEF M!mark_dirty
    <2> QED
      BY <1>1, <1>4, <1>7, <2>4, <2>5, <2>6 DEF M!set_dirty_after_write
  <1> QED
    BY <1>5, <1>6, <1>7

\* The entry e leaves its queue and its chain and goes back to the pool.
LEMMA DiscardRep ==
  ASSUME NEW u, NEW S, NEW C, Rep(u, S, C), NEW q \in {"clean", "dirty"}, NEW e \in ToSet(S[q]),
         e \in InChains(C), OnlyOfKey(u, C, e), bits(u)[e].alloc
  PROVE  LET v == free_entry(h_remove(l_del(u, q, e), e), e) IN
         /\ bits(v) = [bits(u) EXCEPT ![e].alloc = FALSE]
         /\ \E R, D : /\ Rep(v, R, D) /\ InChains(D) = InChains(C) \ {e}
                      /\ R["free"] = Append(S["free"], e)
                      /\ q = "dirty" => R["clean"] = S["clean"] /\ R["dirty"] = M!l_del(S["dirty"], e)
                      /\ q = "clean" => R["clean"] = M!l_del(S["clean"], e) /\ R["dirty"] = S["dirty"]
  <1> DEFINE a == l_del(u, q, e)
             b == h_remove(a, e)
             v == free_entry(b, e)
             T == [S EXCEPT ![q] = M!l_del(S[q], e)]
             R == [T EXCEPT !["free"] = Append(T["free"], e)]
  <1>1. Rep(a, T, C) /\ bits(a) = bits(u) /\ Off(T, e) /\ e \in Entries
    BY DelRep DEF Queues
  <1>2. S \in [Queues -> Seq(Entries)]
    BY DEF Rep, Queued
  <1>3. /\ R["free"] = Append(S["free"], e)
        /\ q = "dirty" => R["clean"] = S["clean"] /\ R["dirty"] = M!l_del(S["dirty"], e)
        /\ q = "clean" => R["clean"] = M!l_del(S["clean"], e) /\ R["dirty"] = S["dirty"]
    BY <1>2 DEF Queues
  <1> HIDE DEF a, b, v, T
  <1>4. bits(b) = bits(a) /\ \E D : Rep(b, T, D) /\ InChains(D) = InChains(C) \ {e}
    <2>1. Rep(a, T, C) /\ e \in InChains(C) /\ OnlyOfKey(a, C, e)
      BY <1>1 DEF OnlyOfKey
    <2>2. b = h_remove(a, e)
      BY DEF b
    <2> QED
      BY <2>1, <2>2, RemoveRep
  <1>5. PICK D : Rep(b, T, D) /\ InChains(D) = InChains(C) \ {e}
    BY <1>4
  <1>6. Rep(v, R, D) /\ bits(v) = [bits(b) EXCEPT ![e].alloc = FALSE]
    <2>1. Rep(b, T, D) /\ e \in Entries /\ Off(T, e) /\ bits(b)[e].alloc
      BY <1>1, <1>4, <1>5
    <2>2. v = free_entry(b, e)
      BY DEF v
    <2> QED
      BY <2>1, <2>2, FreeRep
  <1> HIDE DEF R
  <1>7. bits(v) = [bits(u) EXCEPT ![e].alloc = FALSE]
    BY <1>1, <1>4, <1>6
  <1> QED
    BY <1>3, <1>5, <1>6, <1>7 DEF v, b, a

\* A DISCARD that did not take off an entry in flight is a step of Mapping.
LEMMA DiscardStep ==
  ASSUME NEW S, NEW C, Sound(S, C), NEW k \in Keys, remove_mapping(k), ~corrupt'
  PROVE  M!remove_mapping(k) /\ \E R, D : Rep(t', R, D)
  <1> DEFINE e == found(t, k).e
             u == h_lookup(t, k)
             q == queue_of(t, e)
  <1>1. /\ e \in InChains(C) /\ e \in Entries /\ bits(t)[e].key = k
        /\ OnlyOfKey(t, C, e) /\ e \in M!h_lookup(k) /\ bits(t)[e].alloc
    BY FoundIs DEF remove_mapping
  <1>2. /\ Rep(t, S, C) /\ Bits = bits(t) /\ Hashed = InChains(C)
        /\ Listed("free") = S["free"] /\ Listed("clean") = S["clean"] /\ Listed("dirty") = S["dirty"]
        /\ q = IF Bits[e].dirty THEN "dirty" ELSE "clean"
    BY <1>1, SoundBits
  <1>3. /\ "DISCARD" \in Ops
        /\ t' = free_entry(h_remove(l_del(u, queue_of(u, e), e), e), e)
        /\ e \in ToSet(Listed(q)) /\ corrupt' = FALSE /\ UNCHANGED <<wq, worker, client>>
    BY DEF remove_mapping
  <1>4. bits(u) = bits(t) /\ \E D : Rep(u, S, D) /\ InChains(D) = InChains(C)
    BY <1>1, <1>2, LookupRep
  <1>5. PICK D : Rep(u, S, D) /\ InChains(D) = InChains(C)
    BY <1>4
  <1> HIDE DEF e, u, q
  <1>6. queue_of(u, e) = q
    BY <1>1, <1>2, <1>4, <1>5, BitsAt DEF Rep, queue_of
  <1>7. /\ q \in {"clean", "dirty"} /\ e \in ToSet(S[q]) /\ e \in InChains(D)
        /\ OnlyOfKey(u, D, e) /\ bits(u)[e].alloc
    BY <1>1, <1>2, <1>3, <1>4, <1>5 DEF OnlyOfKey
  <1>8. t' = free_entry(h_remove(l_del(u, q, e), e), e)
    BY <1>3, <1>6
  <1>9. /\ bits(t') = [bits(u) EXCEPT ![e].alloc = FALSE]
        /\ \E R, G : /\ Rep(t', R, G) /\ InChains(G) = InChains(D) \ {e}
                     /\ R["free"] = Append(S["free"], e)
                     /\ q = "dirty" => R["clean"] = S["clean"] /\ R["dirty"] = M!l_del(S["dirty"], e)
                     /\ q = "clean" => R["clean"] = M!l_del(S["clean"], e) /\ R["dirty"] = S["dirty"]
    BY <1>5, <1>7, <1>8, DiscardRep
  <1>10. PICK R, G : /\ Rep(t', R, G) /\ InChains(G) = InChains(D) \ {e}
                     /\ R["free"] = Append(S["free"], e)
                     /\ q = "dirty" => R["clean"] = S["clean"] /\ R["dirty"] = M!l_del(S["dirty"], e)
                     /\ q = "clean" => R["clean"] = M!l_del(S["clean"], e) /\ R["dirty"] = S["dirty"]
    BY <1>9
  <1>11. /\ Bits' = [Bits EXCEPT ![e].alloc = FALSE] /\ Hashed' = Hashed \ {e}
         /\ Listed("free")' = Append(Listed("free"), e)
         /\ Listed("clean")' = R["clean"] /\ Listed("dirty")' = R["dirty"]
    BY <1>2, <1>4, <1>5, <1>9, <1>10, ReadNext
  <1>12. Listed("clean")' = (IF Bits[e].dirty THEN Listed("clean") ELSE M!l_del(Listed("clean"), e))
    BY <1>2, <1>10, <1>11
  <1>13. Listed("dirty")' = (IF Bits[e].dirty THEN M!l_del(Listed("dirty"), e) ELSE Listed("dirty"))
    BY <1>2, <1>10, <1>11
  <1>14. e \in ToSet(M!queue_of(e)) /\ M!ToSet(M!queue_of(e)) = ToSet(M!queue_of(e))
    BY <1>2, <1>3 DEF M!queue_of, M!ToSet, ToSet
  <1>15. corrupt' = corrupt
    BY <1>3 DEF Sound
  <1>16. M!remove_mapping(k)
    BY <1>1, <1>3, <1>11, <1>12, <1>13, <1>14, <1>15 DEF M!remove_mapping
  <1> QED
    BY <1>10, <1>16

-----------------------------------------------------------------------------
(* The worker takes an entry.                                              *)

\* Taking an entry for a promotion, or finding none, is a step of Mapping.
LEMMA PromoteStep ==
  ASSUME NEW S, NEW C, Sound(S, C), promotion_free_to_clean
  PROVE  (M!promotion_free_to_clean \/ M!PromotionRefused) /\ \E R, D : Rep(t', R, D)
  <1>1. /\ Rep(t, S, C) /\ worker.pc = "promote" /\ worker.key \in Keys
        /\ S \in [Queues -> Seq(Entries)]
    BY DEF Sound, promotion_free_to_clean, refused, Holders, Rep, Queued
  <1>2. /\ Bits = bits(t) /\ Hashed = InChains(C)
        /\ Listed("free") = S["free"] /\ Listed("clean") = S["clean"] /\ Listed("dirty") = S["dirty"]
        /\ (l_empty(t, "free") <=> S["free"] = <<>>)
    BY <1>1, Read, EmptyQueue DEF Queues
  <1>3. CASE l_empty(t, "free")
    <2>1. t' = t /\ M!goto("demote") /\ UNCHANGED <<wq, client, corrupt>>
      BY <1>3 DEF promotion_free_to_clean, refused
    <2>2. Bits' = Bits /\ Hashed' = Hashed /\ \A l : Listed(l)' = Listed(l)
      BY <2>1, TableKept
    <2>3. Rep(t', S, C)
      BY <1>1, <2>1
    <2> QED
      BY <1>1, <1>2, <1>3, <2>1, <2>2, <2>3 DEF M!PromotionRefused, M!lists
  <1>4. CASE ~l_empty(t, "free")
    <2> DEFINE e == Head(S["free"])
               k == worker.key
               a == alloc_entry(t, k)
               F == [S EXCEPT !["free"] = Tail(S["free"])]
               r == [key |-> k, pending |-> FALSE, dirty |-> FALSE, alloc |-> TRUE]
               n == [key |-> k, pending |-> TRUE, dirty |-> FALSE, alloc |-> TRUE]
    <2>1. /\ S["free"] # <<>> /\ l_head(t, "free") = e /\ e \in Entries /\ e \notin InChains(C)
          /\ Rep(a, F, C) /\ Off(F, e) /\ bits(a) = [bits(t) EXCEPT ![e] = fresh_bits(k)]
      BY <1>1, <1>4, Taken
    <2>2. /\ t' = set_pending(a, e, TRUE) /\ M!start("PROMOTION", e)
          /\ UNCHANGED <<wq, client, corrupt>>
      BY <1>4, <2>1 DEF promotion_free_to_clean, refused, set_pending
    <2> HIDE DEF e, a
    <2>3. /\ Rep(a, F, C) /\ Off(F, e) /\ bits(a) = [bits(t) EXCEPT ![e] = r]
      BY <2>1 DEF fresh_bits
    <2>4. F["free"] = Tail(S["free"]) /\ F["clean"] = S["clean"] /\ F["dirty"] = S["dirty"]
      BY <1>1 DEF Queues
    <2> HIDE DEF F
    <2>5. Rep(t', F, C) /\ bits(t') = [bits(a) EXCEPT ![e].pending = TRUE]
      <3>1. Rep(a, F, C) /\ e \in Entries /\ TRUE \in BOOLEAN /\ t' = set_pending(a, e, TRUE)
        BY <2>1, <2>2, <2>3
      <3> QED
        BY <3>1, PendingRep
    <2>6. [r EXCEPT !.pending = TRUE] = n
      <3>1. ASSUME NEW f, NEW i
            PROVE  [[key |-> k, pending |-> f, dirty |-> f, alloc |-> i] EXCEPT !.pending = i]
                     = [key |-> k, pending |-> i, dirty |-> f, alloc |-> i]
        OBVIOUS
      <3> QED
        BY <3>1
    <2> HIDE DEF r, n
    <2>7. DOMAIN bits(t) = Entries
      BY ColumnDomains
    <2>8. bits(a)[e] = r
      BY <2>1, <2>3, <2>7
    <2>9. bits(t') = [bits(a) EXCEPT ![e] = n]
      BY <2>5, <2>6, <2>8
    <2>10. bits(t') = [bits(t) EXCEPT ![e] = n]
      BY <2>1, <2>3, <2>7, <2>9
    <2>11. /\ Bits' = [Bits EXCEPT ![e] = [key |-> k, pending |-> TRUE, dirty |-> FALSE, alloc |-> TRUE]]
           /\ Hashed' = Hashed
           /\ Listed("free")' = Tail(Listed("free")) /\ Listed("clean")' = Listed("clean")
           /\ Listed("dirty")' = Listed("dirty")
      BY <1>2, <2>4, <2>5, <2>10, ReadNext DEF n
    <2>12. e = Head(Listed("free")) /\ Listed("free") # <<>>
      BY <1>2, <2>1 DEF e
    <2>13. M!promotion_free_to_clean
      BY <1>1, <2>2, <2>11, <2>12 DEF M!promotion_free_to_clean
    <2> QED
      BY <2>5, <2>13
  <1> QED
    BY <1>3, <1>4

\* So is taking the first clean entry, which depends on the count of the queue,
LEMMA DemoteStep ==
  ASSUME NEW S, NEW C, Sound(S, C), demotion_clean_to_free
  PROVE  (M!demotion_clean_to_free \/ M!DemotionRefused) /\ \E R, D : Rep(t', R, D)
  <1>1. /\ Rep(t, S, C) /\ worker.pc = "demote" /\ S \in [Queues -> Seq(Entries)]
    BY DEF Sound, demotion_clean_to_free, refused, Rep, Queued
  <1>2. /\ Bits = bits(t) /\ Hashed = InChains(C)
        /\ Listed("free") = S["free"] /\ Listed("clean") = S["clean"] /\ Listed("dirty") = S["dirty"]
        /\ t.list["clean"].nr_elts = Len(S["clean"])
    BY <1>1, Read, EmptyQueue DEF Queues
  <1>3. M!demotable <=> t.list["clean"].nr_elts > CACHE_BLOCK_NUMBER \div 2
    BY <1>2 DEF M!demotable
  <1>4. CASE ~M!demotable
    <2>1. t' = t /\ M!goto("writeback") /\ UNCHANGED <<wq, client, corrupt>>
      BY <1>3, <1>4 DEF demotion_clean_to_free, refused
    <2>2. Bits' = Bits /\ Hashed' = Hashed /\ \A l : Listed(l)' = Listed(l)
      BY <2>1, TableKept
    <2>3. Rep(t', S, C)
      BY <1>1, <2>1
    <2> QED
      BY <1>1, <1>4, <2>1, <2>2, <2>3 DEF M!DemotionRefused, M!lists
  <1>5. CASE M!demotable
    <2> DEFINE e == Head(S["clean"])
               a == l_del(t, "clean", e)
               R == [S EXCEPT !["clean"] = M!l_del(S["clean"], e)]
    <2>1. S["clean"] # <<>>
      <3>1. CACHE_BLOCK_NUMBER \div 2 \in Nat
        BY Constants DEF N
      <3>2. Len(S["clean"]) > 0
        BY <1>2, <1>5, <3>1 DEF M!demotable
      <3> QED
        BY <3>2
    <2>2. l_head(t, "clean") = e /\ e \in ToSet(S["clean"])
      BY <1>1, <2>1, EmptyQueue DEF Queues
    <2>3. /\ t' = set_pending(a, e, TRUE) /\ M!start("DEMOTION", e)
          /\ UNCHANGED <<wq, client, corrupt>>
      BY <1>3, <1>5, <2>2 DEF demotion_clean_to_free, refused, set_pending
    <2> HIDE DEF e
    <2>4. Rep(a, R, C) /\ bits(a) = bits(t) /\ e \in Entries
      BY <1>1, <2>2, DelRep DEF Queues
    <2>5. R["free"] = S["free"] /\ R["clean"] = M!l_del(S["clean"], e) /\ R["dirty"] = S["dirty"]
      BY <1>1 DEF Queues
    <2> HIDE DEF a, R
    <2>6. Rep(t', R, C) /\ bits(t') = [bits(a) EXCEPT ![e].pending = TRUE]
      <3>1. Rep(a, R, C) /\ e \in Entries /\ TRUE \in BOOLEAN /\ t' = set_pending(a, e, TRUE)
        BY <2>3, <2>4
      <3> QED
        BY <3>1, PendingRep
    <2>7. /\ Bits' = [Bits EXCEPT ![e].pending = TRUE] /\ Hashed' = Hashed
          /\ Listed("free")' = Listed("free") /\ Listed("clean")' = M!l_del(Listed("clean"), e)
          /\ Listed("dirty")' = Listed("dirty")
      BY <1>2, <2>4, <2>5, <2>6, ReadNext
    <2>8. e = Head(Listed("clean"))
      BY <1>2 DEF e
    <2>9. M!demotion_clean_to_free
      BY <1>1, <1>5, <2>3, <2>7, <2>8 DEF M!demotion_clean_to_free
    <2> QED
      BY <2>6, <2>9
  <1> QED
    BY <1>4, <1>5

\* and taking the first dirty one, which depends on its pending bit.
LEMMA WritebackStep ==
  ASSUME NEW S, NEW C, Sound(S, C), writeback_dirty_to_clean
  PROVE  (M!writeback_dirty_to_clean \/ M!WritebackRefused) /\ \E R, D : Rep(t', R, D)
  <1> DEFINE e == l_head(t, "dirty")
  <1>1. /\ Rep(t, S, C) /\ worker.pc = "writeback" /\ S \in [Queues -> Seq(Entries)]
    BY DEF Sound, writeback_dirty_to_clean, refused, Rep, Queued
  <1>2. /\ Bits = bits(t) /\ Hashed = InChains(C)
        /\ Listed("free") = S["free"] /\ Listed("clean") = S["clean"] /\ Listed("dirty") = S["dirty"]
        /\ t.list["dirty"].nr_elts = Len(S["dirty"])
        /\ S["dirty"] # <<>> => e = Head(S["dirty"]) /\ e \in ToSet(S["dirty"])
    BY <1>1, Read, EmptyQueue DEF Queues
  <1>3. S["dirty"] # <<>> => e \in Entries /\ t.es[e].pending = Bits[e].pending
    <2>1. S["dirty"] # <<>> => e \in Entries
      BY <1>1, <1>2, Places DEF Queues
    <2> QED
      BY <2>1, SoundBits
  <1>4. M!writable <=> t.list["dirty"].nr_elts # 0 /\ ~t.es[e].pending
    <2>1. S["dirty"] = <<>> <=> Len(S["dirty"]) = 0
      BY <1>1 DEF Queues
    <2> HIDE DEF e
    <2> QED
      BY <1>2, <1>3, <2>1 DEF M!writable
  <1>5. CASE ~M!writable
    <2>1. t' = t /\ M!goto("remove") /\ UNCHANGED <<wq, client, corrupt>>
      BY <1>4, <1>5 DEF writeback_dirty_to_clean, refused
    <2>2. Bits' = Bits /\ Hashed' = Hashed /\ \A l : Listed(l)' = Listed(l)
      BY <2>1, TableKept
    <2>3. Rep(t', S, C)
      BY <1>1, <2>1
    <2> QED
      BY <1>1, <1>5, <2>1, <2>2, <2>3 DEF M!WritebackRefused, M!lists
  <1>6. CASE M!writable
    <2> DEFINE a == set_pending(t, e, TRUE)
               b == set_dirty(a, e, FALSE)
               R == [S EXCEPT !["dirty"] = M!l_del(S["dirty"], e)]
    <2>1. S["dirty"] # <<>>
      BY <1>2, <1>6 DEF M!writable
    <2>2. e = Head(S["dirty"]) /\ e \in ToSet(S["dirty"]) /\ e \in Entries
      BY <1>2, <1>3, <2>1
    <2>3. /\ t' = l_del([t EXCEPT !.es[e].pending = TRUE, !.es[e].dirty = FALSE], "dirty", e)
          /\ M!start("WRITEBACK", e)
          /\ UNCHANGED <<wq, client, corrupt>>
      BY <1>4, <1>6 DEF writeback_dirty_to_clean, refused
    <2> HIDE DEF e
    <2>4. t' = l_del(b, "dirty", e)
      BY <2>3 DEF set_pending, set_dirty
    <2> HIDE DEF a, b
    <2>5. Rep(a, S, C) /\ bits(a) = [bits(t) EXCEPT ![e].pending = TRUE]
      <3>1. Rep(t, S, C) /\ e \in Entries /\ TRUE \in BOOLEAN /\ a = set_pending(t, e, TRUE)
        BY <1>1, <2>2 DEF a
      <3> QED
        BY <3>1, PendingRep
    <2>6. Rep(b, S, C) /\ bits(b) = [bits(a) EXCEPT ![e].dirty = FALSE]
      <3>1. Rep(a, S, C) /\ e \in Entries /\ FALSE \in BOOLEAN /\ b = set_dirty(a, e, FALSE)
        BY <2>2, <2>5 DEF b
      <3> QED
        BY <3>1, DirtyRep
    <2>7. R["free"] = S["free"] /\ R["clean"] = S["clean"] /\ R["dirty"] = M!l_del(S["dirty"], e)
      BY <1>1 DEF Queues
    <2>8. Rep(t', R, C) /\ bits(t') = bits(b)
      BY <2>2, <2>4, <2>6, DelRep DEF Queues
    <2> HIDE DEF R
    <2>9. Bits' = [Bits EXCEPT ![e].pending = TRUE, ![e].dirty = FALSE]
      <3>1. Bits' = [[Bits EXCEPT ![e].pending = TRUE] EXCEPT ![e].dirty = FALSE]
        BY <1>2, <2>5, <2>6, <2>8, ColumnsNext
      <3>2. [[Bits EXCEPT ![e].pending = TRUE] EXCEPT ![e].dirty = FALSE]
              = [Bits EXCEPT ![e].pending = TRUE, ![e].dirty = FALSE]
        OBVIOUS
      <3> QED
        BY <3>1, <3>2
    <2>10. /\ Hashed' = Hashed
           /\ Listed("free")' = Listed("free") /\ Listed("clean")' = Listed("clean")
           /\ Listed("dirty")' = M!l_del(Listed("dirty"), e)
      BY <1>2, <2>7, <2>8, ReadNext
    <2>11. e = Head(Listed("dirty"))
      BY <1>2, <2>2
    <2>12. M!writeback_dirty_to_clean
      BY <1>1, <1>6, <2>3, <2>9, <2>10, <2>11 DEF M!writeback_dirty_to_clean
    <2> QED
      BY <2>8, <2>12
  <1> QED
    BY <1>5, <1>6

-----------------------------------------------------------------------------
(* The worker is done with an entry.                                       *)

\* Adding the entry e, which is on no queue, to the queue that its dirty bit
\* selects.
LEMMA AddTailSelected ==
  ASSUME NEW u, NEW S, NEW C, Rep(u, S, C), NEW e \in Entries, Off(S, e)
  PROVE  LET v == l_add_tail(u, queue_of(u, e), e) IN
         /\ bits(v) = bits(u)
         /\ \E R : /\ Rep(v, R, C) /\ R["free"] = S["free"]
                   /\ bits(u)[e].dirty => R["clean"] = S["clean"] /\ R["dirty"] = Append(S["dirty"], e)
                   /\ ~bits(u)[e].dirty => R["clean"] = Append(S["clean"], e) /\ R["dirty"] = S["dirty"]
  <1> DEFINE q == queue_of(u, e)
             v == l_add_tail(u, q, e)
             R == [S EXCEPT ![q] = Append(S[q], e)]
  <1>1. u \in Table /\ S \in [Queues -> Seq(Entries)]
    BY DEF Rep, Queued
  <1>2. u.es[e].dirty = bits(u)[e].dirty
    BY <1>1, BitsAt
  <1>3. q = IF bits(u)[e].dirty THEN "dirty" ELSE "clean"
    BY <1>2 DEF queue_of
  <1> HIDE DEF q
  <1>4. /\ R["free"] = S["free"]
        /\ bits(u)[e].dirty => R["clean"] = S["clean"] /\ R["dirty"] = Append(S["dirty"], e)
        /\ ~bits(u)[e].dirty => R["clean"] = Append(S["clean"], e) /\ R["dirty"] = S["dirty"]
    BY <1>1, <1>3 DEF Queues
  <1>5. q \in Queues
    BY <1>3 DEF Queues
  <1>6. Rep(v, R, C) /\ bits(v) = bits(u)
    BY <1>5, AddTailRep
  <1> HIDE DEF v, R
  <1> QED
    BY <1>4, <1>6 DEF v, q

\* The same at the other end.
LEMMA AddHeadSelected ==
  ASSUME NEW u, NEW S, NEW C, Rep(u, S, C), NEW e \in Entries, Off(S, e)
  PROVE  LET v == l_add_head(u, queue_of(u, e), e) IN
         /\ bits(v) = bits(u)
         /\ \E R : /\ Rep(v, R, C) /\ R["free"] = S["free"]
                   /\ bits(u)[e].dirty => R["clean"] = S["clean"] /\ R["dirty"] = <<e>> \o S["dirty"]
                   /\ ~bits(u)[e].dirty => R["clean"] = <<e>> \o S["clean"] /\ R["dirty"] = S["dirty"]
  <1> DEFINE q == queue_of(u, e)
             v == l_add_head(u, q, e)
             R == [S EXCEPT ![q] = <<e>> \o S[q]]
  <1>1. u \in Table /\ S \in [Queues -> Seq(Entries)]
    BY DEF Rep, Queued
  <1>2. u.es[e].dirty = bits(u)[e].dirty
    BY <1>1, BitsAt
  <1>3. q = IF bits(u)[e].dirty THEN "dirty" ELSE "clean"
    BY <1>2 DEF queue_of
  <1> HIDE DEF q
  <1>4. /\ R["free"] = S["free"]
        /\ bits(u)[e].dirty => R["clean"] = S["clean"] /\ R["dirty"] = <<e>> \o S["dirty"]
        /\ ~bits(u)[e].dirty => R["clean"] = <<e>> \o S["clean"] /\ R["dirty"] = S["dirty"]
    BY <1>1, <1>3 DEF Queues
  <1>5. q \in Queues
    BY <1>3 DEF Queues
  <1>6. Rep(v, R, C) /\ bits(v) = bits(u)
    BY <1>5, AddHeadRep
  <1> HIDE DEF v, R
  <1> QED
    BY <1>4, <1>6 DEF v, q

\* What a completion starts from: the block that was moved, with its pending bit
\* cleared, on no queue.
LEMMA CompleteFrom ==
  ASSUME NEW S, NEW C, Sound(S, C), worker.pc = "complete"
  PROVE  LET e == worker.blk
             u == set_pending(t, e, FALSE)
         IN /\ e \in Entries /\ Off(S, e) /\ Rep(u, S, C)
            /\ bits(u) = [Bits EXCEPT ![e].pending = FALSE]
            /\ bits(u)[e].alloc /\ bits(u)[e].dirty = Bits[e].dirty
            /\ \A x \in Entries : bits(u)[x].key = Bits[x].key
            /\ Hashed = InChains(C)
            /\ Listed("free") = S["free"] /\ Listed("clean") = S["clean"] /\ Listed("dirty") = S["dirty"]
            /\ worker.type = "PROMOTION" => e \notin InChains(C) /\ bits(u)[e].key \in Keys
            /\ worker.type # "PROMOTION" => e \in InChains(C) /\ OnlyOfKey(u, C, e)
  <1> DEFINE e == worker.blk
             u == set_pending(t, e, FALSE)
  <1>1. /\ e \in Entries /\ bits(t)[e].alloc /\ bits(t)[e].pending
        /\ worker.type = "PROMOTION" => bits(t)[e].key \in Keys
        /\ Rep(t, S, C) /\ Placed(S) /\ HashedOnes(C) /\ e \in M!InFlight
    BY DEF Sound, Holders, M!InFlight
  <1>2. /\ Bits = bits(t) /\ Hashed = InChains(C)
        /\ Listed("free") = S["free"] /\ Listed("clean") = S["clean"] /\ Listed("dirty") = S["dirty"]
    BY <1>1, Read
  <1>3. Off(S, e)
    BY <1>1 DEF Placed, Off, Queues
  <1>4. /\ worker.type = "PROMOTION" => e \notin InChains(C)
        /\ worker.type # "PROMOTION" => e \in InChains(C) /\ OnlyOfKey(t, C, e)
    BY <1>1 DEF HashedOnes
  <1>5. t \in Table /\ Chained(t, C)
    BY <1>1 DEF Rep
  <1> HIDE DEF e
  <1>6. Rep(u, S, C) /\ bits(u) = [bits(t) EXCEPT ![e].pending = FALSE]
    <2>1. Rep(t, S, C) /\ e \in Entries /\ FALSE \in BOOLEAN
      BY <1>1
    <2>2. u = set_pending(t, e, FALSE)
      OBVIOUS
    <2> HIDE DEF u
    <2> QED
      BY <2>1, <2>2, PendingRep
  <1> HIDE DEF u
  <1>7. DOMAIN bits(t) = Entries /\ \A x \in InChains(C) : x \in Entries
    BY <1>5, ColumnDomains, KeyedChain
  <1>8. \A x \in Entries : bits(u)[x].key = bits(t)[x].key /\ bits(u)[x].alloc = bits(t)[x].alloc
                           /\ bits(u)[x].dirty = bits(t)[x].dirty
    <2>1. ASSUME NEW x \in Entries, x # e PROVE bits(u)[x] = bits(t)[x]
      BY <1>6, <1>7, <2>1
    <2>2. bits(u)[e] = [bits(t)[e] EXCEPT !.pending = FALSE]
      BY <1>1, <1>6, <1>7
    <2>3. bits(u)[e].key = bits(t)[e].key /\ bits(u)[e].alloc = bits(t)[e].alloc /\ bits(u)[e].dirty = bits(t)[e].dirty
      <3>1. bits(t)[e] = [key |-> bits(t)[e].key, pending |-> bits(t)[e].pending,
                          dirty |-> bits(t)[e].dirty, alloc |-> bits(t)[e].alloc]
        BY <1>1, <1>5, BitsAt
      <3> QED
        BY <2>2, <3>1
    <2> QED
      BY <2>1, <2>3
  <1>9. worker.type # "PROMOTION" => OnlyOfKey(u, C, e)
    BY <1>1, <1>4, <1>7, <1>8 DEF OnlyOfKey
  <1> QED
    BY <1>1, <1>2, <1>3, <1>4, <1>6, <1>8, <1>9 DEF e, u

\* A block that was moved into the cache is hashed and queued.
LEMMA PromotedRep ==
  ASSUME NEW u, NEW S, NEW C, Rep(u, S, C), NEW e \in Entries, Off(S, e),
         e \notin InChains(C), bits(u)[e].key \in Keys
  PROVE  LET v == l_add_tail(h_insert(u, e), queue_of(u, e), e) IN
         /\ bits(v) = bits(u)
         /\ \E R, D : /\ Rep(v, R, D) /\ InChains(D) = InChains(C) \cup {e} /\ R["free"] = S["free"]
                      /\ bits(u)[e].dirty => R["clean"] = S["clean"] /\ R["dirty"] = Append(S["dirty"], e)
                      /\ ~bits(u)[e].dirty => R["clean"] = Append(S["clean"], e) /\ R["dirty"] = S["dirty"]
  <1> DEFINE a == h_insert(u, e)
             v == l_add_tail(a, queue_of(u, e), e)
  <1>1. bits(a) = bits(u) /\ \E D : Rep(a, S, D) /\ InChains(D) = InChains(C) \cup {e}
    BY InsertRep
  <1>2. PICK D : Rep(a, S, D) /\ InChains(D) = InChains(C) \cup {e}
    BY <1>1
  <1>3. u \in Table /\ a \in Table
    BY <1>2 DEF Rep
  <1> HIDE DEF a
  <1>4. queue_of(a, e) = queue_of(u, e)
    <2>1. a.es[e].dirty = bits(a)[e].dirty /\ u.es[e].dirty = bits(u)[e].dirty
      BY <1>3, BitsAt
    <2>2. a.es[e].dirty = u.es[e].dirty
      BY <1>1, <2>1
    <2> QED
      BY <2>2 DEF queue_of
  <1>5. v = l_add_tail(a, queue_of(a, e), e)
    BY <1>4
  <1> HIDE DEF v
  <1>6. /\ bits(v) = bits(a)
        /\ \E R : /\ Rep(v, R, D) /\ R["free"] = S["free"]
                  /\ bits(a)[e].dirty => R["clean"] = S["clean"] /\ R["dirty"] = Append(S["dirty"], e)
                  /\ ~bits(a)[e].dirty => R["clean"] = Append(S["clean"], e) /\ R["dirty"] = S["dirty"]
    BY <1>2, <1>5, AddTailSelected
  <1> QED
    BY <1>1, <1>2, <1>6 DEF v, a

\* A block that returns to the pool.
LEMMA ReturnedRep ==
  ASSUME NEW u, NEW S, NEW C, Rep(u, S, C), NEW e \in Entries, Off(S, e), bits(u)[e].alloc
  PROVE  LET v == free_entry(u, e) IN
         /\ bits(v) = [bits(u) EXCEPT ![e].alloc = FALSE]
         /\ \E R : /\ Rep(v, R, C) /\ R["free"] = Append(S["free"], e)
                   /\ R["clean"] = S["clean"] /\ R["dirty"] = S["dirty"]
  <1> DEFINE v == free_entry(u, e)
             R == [S EXCEPT !["free"] = Append(S["free"], e)]
  <1>1. S \in [Queues -> Seq(Entries)]
    BY DEF Rep, Queued
  <1>2. R["free"] = Append(S["free"], e) /\ R["clean"] = S["clean"] /\ R["dirty"] = S["dirty"]
    BY <1>1 DEF Queues
  <1>3. Rep(v, R, C) /\ bits(v) = [bits(u) EXCEPT ![e].alloc = FALSE]
    BY FreeRep
  <1> HIDE DEF v, R
  <1> QED
    BY <1>2, <1>3 DEF v

\* Both bits of the entry that is given back.
LEMMA TwoBits ==
  ASSUME NEW B, NEW e
  PROVE  [[B EXCEPT ![e].pending = FALSE] EXCEPT ![e].alloc = FALSE]
           = [B EXCEPT ![e].pending = FALSE, ![e].alloc = FALSE]
  OBVIOUS

\* The end of a promotion is a step of Mapping,
LEMMA PromotedStep ==
  ASSUME NEW S, NEW C, Sound(S, C), promotion_complete
  PROVE  M!promotion_complete /\ \E R, D : Rep(t', R, D)
  <1> DEFINE e == worker.blk
             u == set_pending(t, e, FALSE)
  <1>1. /\ worker.pc = "complete" /\ worker.type = "PROMOTION" /\ M!goto("remove")
        /\ UNCHANGED <<wq, client, corrupt>>
        /\ t' = IF worker.ok THEN l_add_tail(h_insert(u, e), queue_of(u, e), e) ELSE free_entry(u, e)
    BY DEF promotion_complete, completes, unpended, set_pending
  <1>2. /\ e \in Entries /\ Off(S, e) /\ Rep(u, S, C)
        /\ bits(u) = [Bits EXCEPT ![e].pending = FALSE]
        /\ bits(u)[e].alloc /\ bits(u)[e].dirty = Bits[e].dirty
        /\ Hashed = InChains(C)
        /\ Listed("free") = S["free"] /\ Listed("clean") = S["clean"] /\ Listed("dirty") = S["dirty"]
        /\ e \notin InChains(C) /\ bits(u)[e].key \in Keys
    BY <1>1, CompleteFrom
  <1> HIDE DEF e, u
  <1>3. CASE worker.ok
    <2>1. t' = l_add_tail(h_insert(u, e), queue_of(u, e), e)
      BY <1>1, <1>3
    <2>2. /\ bits(t') = bits(u)
          /\ \E R, D : /\ Rep(t', R, D) /\ InChains(D) = InChains(C) \cup {e} /\ R["free"] = S["free"]
                       /\ bits(u)[e].dirty => R["clean"] = S["clean"] /\ R["dirty"] = Append(S["dirty"], e)
                       /\ ~bits(u)[e].dirty => R["clean"] = Append(S["clean"], e) /\ R["dirty"] = S["dirty"]
      <3>1. Rep(u, S, C) /\ e \in Entries /\ Off(S, e) /\ e \notin InChains(C) /\ bits(u)[e].key \in Keys
        BY <1>2
      <3> QED
        BY <3>1, <2>1, PromotedRep
    <2>3. PICK R, D : /\ Rep(t', R, D) /\ InChains(D) = InChains(C) \cup {e} /\ R["free"] = S["free"]
                      /\ bits(u)[e].dirty => R["clean"] = S["clean"] /\ R["dirty"] = Append(S["dirty"], e)
                      /\ ~bits(u)[e].dirty => R["clean"] = Append(S["clean"], e) /\ R["dirty"] = S["dirty"]
      BY <2>2
    <2>4. /\ Bits' = [Bits EXCEPT ![e].pending = FALSE] /\ Hashed' = Hashed \cup {e}
          /\ Listed("free")' = Listed("free") /\ Listed("clean")' = R["clean"] /\ Listed("dirty")' = R["dirty"]
      BY <1>2, <2>2, <2>3, ReadNext
    <2>5. M!add_tail(e)
      BY <1>2, <2>3, <2>4 DEF M!add_tail
    <2>6. M!promotion_complete
      BY <1>1, <1>3, <2>4, <2>5 DEF M!promotion_complete, M!completes, M!unpend, e
    <2> QED
      BY <2>3, <2>6
  <1>4. CASE ~worker.ok
    <2>1. t' = free_entry(u, e)
      BY <1>1, <1>4
    <2>2. /\ bits(t') = [bits(u) EXCEPT ![e].alloc = FALSE]
          /\ \E R : /\ Rep(t', R, C) /\ R["free"] = Append(S["free"], e)
                    /\ R["clean"] = S["clean"] /\ R["dirty"] = S["dirty"]
      <3>1. Rep(u, S, C) /\ e \in Entries /\ Off(S, e) /\ bits(u)[e].alloc
        BY <1>2
      <3> QED
        BY <3>1, <2>1, ReturnedRep
    <2>3. PICK R : /\ Rep(t', R, C) /\ R["free"] = Append(S["free"], e)
                   /\ R["clean"] = S["clean"] /\ R["dirty"] = S["dirty"]
      BY <2>2
    <2>4. /\ Hashed' = Hashed /\ Listed("free")' = Append(Listed("free"), e)
          /\ Listed("clean")' = Listed("clean") /\ Listed("dirty")' = Listed("dirty")
      BY <1>2, <2>3, ReadNext
    <2>5. Bits' = [Bits EXCEPT ![e].pending = FALSE, ![e].alloc = FALSE]
      <3>1. Bits' = [[Bits EXCEPT ![e].pending = FALSE] EXCEPT ![e].alloc = FALSE]
        BY <1>2, <2>2, ColumnsNext
      <3> QED
        BY <3>1, TwoBits
    <2>6. M!promotion_complete
      BY <1>1, <1>4, <2>4, <2>5 DEF M!promotion_complete, M!completes, e
    <2> QED
      BY <2>3, <2>6
  <1> QED
    BY <1>3, <1>4

\* and so is the end of a demotion
LEMMA DemotedStep ==
  ASSUME NEW S, NEW C, Sound(S, C), demotion_complete
  PROVE  M!demotion_complete /\ \E R, D : Rep(t', R, D)
  <1> DEFINE e == worker.blk
             u == set_pending(t, e, FALSE)
             a == h_remove(u, e)
  <1>1. /\ worker.pc = "complete" /\ worker.type = "DEMOTION" /\ M!goto("remove")
        /\ UNCHANGED <<wq, client, corrupt>>
        /\ t' = free_entry(a, e)
    BY DEF demotion_complete, completes, unpended, set_pending
  <1>2. /\ e \in Entries /\ Off(S, e) /\ Rep(u, S, C)
        /\ bits(u) = [Bits EXCEPT ![e].pending = FALSE] /\ bits(u)[e].alloc
        /\ Hashed = InChains(C)
        /\ Listed("free") = S["free"] /\ Listed("clean") = S["clean"] /\ Listed("dirty") = S["dirty"]
        /\ e \in InChains(C) /\ OnlyOfKey(u, C, e)
    BY <1>1, CompleteFrom
  <1> HIDE DEF e, u
  <1>3. bits(a) = bits(u) /\ \E D : Rep(a, S, D) /\ InChains(D) = InChains(C) \ {e}
    BY <1>2, RemoveRep
  <1>4. PICK D : Rep(a, S, D) /\ InChains(D) = InChains(C) \ {e}
    BY <1>3
  <1> HIDE DEF a
  <1>5. /\ bits(t') = [bits(a) EXCEPT ![e].alloc = FALSE]
        /\ \E R : /\ Rep(t', R, D) /\ R["free"] = Append(S["free"], e)
                  /\ R["clean"] = S["clean"] /\ R["dirty"] = S["dirty"]
    <2>1. Rep(a, S, D) /\ e \in Entries /\ Off(S, e) /\ bits(a)[e].alloc /\ t' = free_entry(a, e)
      BY <1>1, <1>2, <1>3, <1>4
    <2> QED
      BY <2>1, ReturnedRep
  <1>6. PICK R : /\ Rep(t', R, D) /\ R["free"] = Append(S["free"], e)
                 /\ R["clean"] = S["clean"] /\ R["dirty"] = S["dirty"]
    BY <1>5
  <1>7. /\ Hashed' = Hashed \ {e} /\ Listed("free")' = Append(Listed("free"), e)
        /\ Listed("clean")' = Listed("clean") /\ Listed("dirty")' = Listed("dirty")
    BY <1>2, <1>4, <1>6, ReadNext
  <1>8. Bits' = [Bits EXCEPT ![e].pending = FALSE, ![e].alloc = FALSE]
    <2>1. Bits' = [[Bits EXCEPT ![e].pending = FALSE] EXCEPT ![e].alloc = FALSE]
      BY <1>2, <1>3, <1>5, ColumnsNext
    <2> QED
      BY <2>1, TwoBits
  <1>9. M!demotion_complete
    BY <1>1, <1>7, <1>8 DEF M!demotion_complete, M!completes, e
  <1> QED
    BY <1>6, <1>9

\* and the end of a writeback.
LEMMA WrittenStep ==
  ASSUME NEW S, NEW C, Sound(S, C), writeback_complete
  PROVE  M!writeback_complete /\ \E R, D : Rep(t', R, D)
  <1> DEFINE e == worker.blk
             u == set_pending(t, e, FALSE)
  <1>1. /\ worker.pc = "complete" /\ worker.type = "WRITEBACK" /\ M!goto("remove")
        /\ UNCHANGED <<wq, client, corrupt>>
        /\ t' = IF worker.ok THEN l_add_tail(u, queue_of(u, e), e) ELSE l_add_head(u, queue_of(u, e), e)
    BY DEF writeback_complete, completes, unpended, set_pending
  <1>2. /\ e \in Entries /\ Off(S, e) /\ Rep(u, S, C)
        /\ bits(u) = [Bits EXCEPT ![e].pending = FALSE] /\ bits(u)[e].dirty = Bits[e].dirty
        /\ Hashed = InChains(C)
        /\ Listed("free") = S["free"] /\ Listed("clean") = S["clean"] /\ Listed("dirty") = S["dirty"]
    BY <1>1, CompleteFrom
  <1> HIDE DEF e, u
  <1>3. CASE worker.ok
    <2>1. t' = l_add_tail(u, queue_of(u, e), e)
      BY <1>1, <1>3
    <2>2. /\ bits(t') = bits(u)
          /\ \E R : /\ Rep(t', R, C) /\ R["free"] = S["free"]
                    /\ bits(u)[e].dirty => R["clean"] = S["clean"] /\ R["dirty"] = Append(S["dirty"], e)
                    /\ ~bits(u)[e].dirty => R["clean"] = Append(S["clean"], e) /\ R["dirty"] = S["dirty"]
      <3>1. Rep(u, S, C) /\ e \in Entries /\ Off(S, e)
        BY <1>2
      <3> QED
        BY <3>1, <2>1, AddTailSelected
    <2>3. PICK R : /\ Rep(t', R, C) /\ R["free"] = S["free"]
                   /\ bits(u)[e].dirty => R["clean"] = S["clean"] /\ R["dirty"] = Append(S["dirty"], e)
                   /\ ~bits(u)[e].dirty => R["clean"] = Append(S["clean"], e) /\ R["dirty"] = S["dirty"]
      BY <2>2
    <2>4. /\ Bits' = [Bits EXCEPT ![e].pending = FALSE] /\ Hashed' = Hashed
          /\ Listed("free")' = Listed("free") /\ Listed("clean")' = R["clean"] /\ Listed("dirty")' = R["dirty"]
      BY <1>2, <2>2, <2>3, ReadNext
    <2>5. M!add_tail(e)
      BY <1>2, <2>3, <2>4 DEF M!add_tail
    <2>6. M!writeback_complete
      BY <1>1, <1>3, <2>4, <2>5 DEF M!writeback_complete, M!completes, M!unpend, e
    <2> QED
      BY <2>3, <2>6
  <1>4. CASE ~worker.ok
    <2>1. t' = l_add_head(u, queue_of(u, e), e)
      BY <1>1, <1>4
    <2>2. /\ bits(t') = bits(u)
          /\ \E R : /\ Rep(t', R, C) /\ R["free"] = S["free"]
                    /\ bits(u)[e].dirty => R["clean"] = S["clean"] /\ R["dirty"] = <<e>> \o S["dirty"]
                    /\ ~bits(u)[e].dirty => R["clean"] = <<e>> \o S["clean"] /\ R["dirty"] = S["dirty"]
      <3>1. Rep(u, S, C) /\ e \in Entries /\ Off(S, e)
        BY <1>2
      <3> QED
        BY <3>1, <2>1, AddHeadSelected
    <2>3. PICK R : /\ Rep(t', R, C) /\ R["free"] = S["free"]
                   /\ bits(u)[e].dirty => R["clean"] = S["clean"] /\ R["dirty"] = <<e>> \o S["dirty"]
                   /\ ~bits(u)[e].dirty => R["clean"] = <<e>> \o S["clean"] /\ R["dirty"] = S["dirty"]
      BY <2>2
    <2>4. /\ Bits' = [Bits EXCEPT ![e].pending = FALSE] /\ Hashed' = Hashed
          /\ Listed("free")' = Listed("free") /\ Listed("clean")' = R["clean"] /\ Listed("dirty")' = R["dirty"]
      BY <1>2, <2>2, <2>3, ReadNext
    <2>5. M!add_head(e)
      BY <1>2, <2>3, <2>4 DEF M!add_head
    <2>6. M!writeback_complete
      BY <1>1, <1>4, <2>4, <2>5 DEF M!writeback_complete, M!completes, M!unpend, e
    <2> QED
      BY <2>3, <2>6
  <1> QED
    BY <1>3, <1>4

\* The other steps are those of Mapping.
LEMMA ElsewhereStep ==
  ASSUME NEW S, NEW C, Sound(S, C), Elsewhere
  PROVE  /\ \/ M!peak_work \/ M!MgRead \/ M!MgWrite \/ M!MgTrim \/ M!remove_work
            \/ \E c \in Clients : M!CacheIO(c) \/ M!OriginIO(c)
         /\ \E R, D : Rep(t', R, D)
  <1>1. Rep(t', S, C)
    BY DEF Sound, Elsewhere
  <1> QED
    BY <1>1 DEF Elsewhere

\* Every step is a step of the abstract table, and leaves the links in order.
LEMMA SoundStep ==
  ASSUME NEW S, NEW C, Sound(S, C), Next
  PROVE  \/ corrupt'
         \/ M!Next /\ \E R, D : Rep(t', R, D)
  <1>0. ~corrupt
    BY DEF Next
  <1>1. ASSUME NEW c \in Clients, NEW k \in Keys, NEW op \in Ops, LookupHit(c, op, k)
        PROVE  M!Next /\ \E R, D : Rep(t', R, D)
    BY <1>0, <1>1, HitStep DEF M!Next, M!Request
  <1>2. ASSUME NEW c \in Clients, NEW k \in Keys, NEW op \in Ops, QueueMiss(c, op, k)
        PROVE  M!Next /\ \E R, D : Rep(t', R, D)
    <2>1. (M!LookupMiss(c, op, k) \/ M!InsertNoRoom(c, k)) /\ \E R, D : Rep(t', R, D)
      BY <1>2, MissStep
    <2>2. M!Request(c)
      BY <2>1 DEF M!Request
    <2> QED
      BY <1>0, <2>1, <2>2 DEF M!Next
  <1>3. ASSUME NEW c \in Clients, NEW k \in Keys, InsertQueued(c, k)
        PROVE  M!Next /\ \E R, D : Rep(t', R, D)
    BY <1>0, <1>3, QueuedStep DEF M!Next, M!Request, M!InsertQueued, M!InsertMiss
  <1>4. ASSUME NEW c \in Clients, NEW k \in Keys, InsertDirty(c, k)
        PROVE  M!Next /\ \E R, D : Rep(t', R, D)
    BY <1>0, <1>4, InsertStep DEF M!Next, M!Request, M!InsertDirty, M!InsertMiss
  <1>5. ASSUME NEW c \in Clients, set_dirty_after_write(c)
        PROVE  M!Next /\ \E R, D : Rep(t', R, D)
    BY <1>0, <1>5, SetDirtyStep DEF M!Next, M!Proceed
  <1>6. ASSUME NEW k \in Keys, remove_mapping(k), ~corrupt'
        PROVE  M!Next /\ \E R, D : Rep(t', R, D)
    BY <1>0, <1>6, DiscardStep DEF M!Next
  <1>7. ASSUME promotion_free_to_clean
        PROVE  M!Next /\ \E R, D : Rep(t', R, D)
    BY <1>0, <1>7, PromoteStep DEF M!Next, M!Migrate
  <1>8. ASSUME demotion_clean_to_free
        PROVE  M!Next /\ \E R, D : Rep(t', R, D)
    BY <1>0, <1>8, DemoteStep DEF M!Next, M!Migrate
  <1>9. ASSUME writeback_dirty_to_clean
        PROVE  M!Next /\ \E R, D : Rep(t', R, D)
    BY <1>0, <1>9, WritebackStep DEF M!Next, M!Migrate
  <1>10. ASSUME promotion_complete \/ demotion_complete \/ writeback_complete
        PROVE  M!Next /\ \E R, D : Rep(t', R, D)
    <2>1. /\ M!promotion_complete \/ M!demotion_complete \/ M!writeback_complete
          /\ \E R, D : Rep(t', R, D)
      BY <1>10, PromotedStep, DemotedStep, WrittenStep
    <2> QED
      BY <1>0, <2>1 DEF M!Next, M!Migrate
  <1>11. ASSUME Elsewhere
        PROVE  M!Next /\ \E R, D : Rep(t', R, D)
    BY <1>0, <1>11, ElsewhereStep DEF M!Next, M!Migrate, M!Proceed
  <1> QED
    BY <1>1, <1>2, <1>3, <1>4, <1>5, <1>6, <1>7, <1>8, <1>9, <1>10, <1>11 DEF Next

-----------------------------------------------------------------------------
(* The initial table.                                                      *)

\* The table in shared memory that was filled with zeros, and what
\* init_allocator has made of it after it has chained the first n entries.
zero_entry == [hash_next |-> 0, prev |-> 0, next |-> 0,
               pending |-> FALSE, dirty |-> FALSE, alloc |-> FALSE, key |-> NoKey]

zero_list == [nr_elts |-> 0, head |-> INDEXER_NULL, tail |-> INDEXER_NULL]

\* The table in memory that was filled with zeros, with empty queues and buckets.
bare == [es |-> [e \in Entries |-> zero_entry],
         list |-> [l \in {"free", "clean", "dirty"} |-> zero_list],
         buckets |-> [b \in Buckets |-> INDEXER_NULL],
         nr_allocated |-> 0]

\* g is the pool after 0, 1, ... n entries were chained.
Pools(g, n) == g = [i \in 0 .. n |-> IF i = 0 THEN bare ELSE l_add_tail(g[i - 1], "free", i - 1)]

\* The recursion that init_allocator is modelled by has a solution.
LEMMA PoolsExist ==
  \A n \in Nat : \E g : Pools(g, n)
  <1> DEFINE T == {n \in Nat : ~ \E g : Pools(g, n)}
  <1> SUFFICES ASSUME T # {} PROVE FALSE
    OBVIOUS
  <1>1. PICK m \in T : \A k \in T : m <= k
    BY Least
  <1>2. CASE m = 0
    <2> DEFINE g == [i \in 0 .. 0 |-> bare]
    <2>1. g = [i \in 0 .. 0 |-> IF i = 0 THEN bare ELSE l_add_tail(g[i - 1], "free", i - 1)]
      OBVIOUS
    <2>2. Pools(g, 0)
      BY <2>1 DEF Pools
    <2> QED
      BY <1>1, <1>2, <2>2
  <1>3. CASE m # 0
    <2>1. m \in Nat /\ m - 1 \in Nat /\ m - 1 \notin T
      BY <1>1, <1>3
    <2>2. PICK h : Pools(h, m - 1)
      BY <2>1
    <2> DEFINE g == [i \in 0 .. m |-> IF i = m THEN l_add_tail(h[m - 1], "free", m - 1) ELSE h[i]]
    <2>3. ASSUME NEW i \in 0 .. m
          PROVE  g[i] = IF i = 0 THEN bare ELSE l_add_tail(g[i - 1], "free", i - 1)
      <3>1. CASE i = m
        <4>1. g[i] = l_add_tail(h[i - 1], "free", i - 1) /\ i # 0
          BY <1>3, <3>1
        <4>2. g[i - 1] = h[i - 1]
          BY <2>1, <3>1
        <4> HIDE DEF g
        <4> QED
          BY <4>1, <4>2
      <3>2. CASE i # m
        <4>1. i \in 0 .. m - 1 /\ g[i] = h[i]
          BY <2>1, <3>2
        <4>2. i # 0 => i - 1 \in 0 .. m /\ i - 1 # m
          BY <2>1, <4>1
        <4>3. i # 0 => g[i - 1] = h[i - 1]
          BY <4>2
        <4>4. h[i] = IF i = 0 THEN bare ELSE l_add_tail(h[i - 1], "free", i - 1)
          BY <2>2, <4>1 DEF Pools
        <4> HIDE DEF g
        <4> QED
          BY <4>1, <4>3, <4>4
      <3> QED
        BY <3>1, <3>2
    <2>4. g = [i \in 0 .. m |-> IF i = 0 THEN bare ELSE l_add_tail(g[i - 1], "free", i - 1)]
      <3> DEFINE r == [i \in 0 .. m |-> IF i = 0 THEN bare ELSE l_add_tail(g[i - 1], "free", i - 1)]
      <3>1. DOMAIN g = 0 .. m /\ DOMAIN r = 0 .. m /\ g = [i \in 0 .. m |-> g[i]] /\ r = [i \in 0 .. m |-> r[i]]
        OBVIOUS
      <3>2. \A i \in 0 .. m : g[i] = r[i]
        <4> SUFFICES ASSUME NEW i \in 0 .. m PROVE g[i] = r[i]
          OBVIOUS
        <4>1. r[i] = IF i = 0 THEN bare ELSE l_add_tail(g[i - 1], "free", i - 1)
          OBVIOUS
        <4> HIDE DEF g, r
        <4> QED
          BY <2>3, <4>1
      <3> HIDE DEF g, r
      <3>3. [i \in 0 .. m |-> g[i]] = [i \in 0 .. m |-> r[i]]
        BY <3>2
      <3>4. g = r
        BY <3>1, <3>3
      <3> QED
        BY <3>4 DEF r
    <2> HIDE DEF g
    <2>5. Pools(g, m)
      BY <2>4 DEF Pools
    <2> QED
      BY <1>1, <2>5
  <1> QED
    BY <1>2, <1>3

\* The first n entries on the free queue, in order, and nothing elsewhere.
firsts(n) == [l \in Queues |-> IF l = "free" THEN [i \in 1 .. n |-> i - 1] ELSE <<>>]
none == [b \in Buckets |-> <<>>]

\* The lists of the chained pool.
LEMMA FirstPlaces ==
  ASSUME NEW n \in Nat, n <= N
  PROVE  /\ firsts(n) \in [Queues -> Seq(Entries)]
         /\ \A x \in ToSet(firsts(n)["free"]) : x \in Entries /\ x < n
         /\ ToSet(<<>>) = {}
         /\ firsts(n)["free"] = [i \in 1 .. n |-> i - 1] /\ firsts(n)["clean"] = <<>> /\ firsts(n)["dirty"] = <<>>
  <1> DEFINE s == [i \in 1 .. n |-> i - 1]
  <1>1. \A i \in 1 .. n : i - 1 \in Entries /\ i - 1 < n
    BY Constants DEF Entries, N
  <1>2. s \in [1 .. n -> Entries]
    BY <1>1
  <1>3. s \in Seq(Entries) /\ Len(s) = n
    BY <1>2, IsASeq, LenProperties
  <1>4. firsts(n)["free"] = s /\ firsts(n)["clean"] = <<>> /\ firsts(n)["dirty"] = <<>>
    BY DEF firsts, Queues
  <1>5. firsts(n) \in [Queues -> Seq(Entries)]
    <2>1. <<>> \in Seq(Entries)
      OBVIOUS
    <2> HIDE DEF s
    <2> QED
      BY <1>3, <2>1 DEF firsts, s
  <1>6. ToSet(<<>>) = {}
    BY DEF ToSet
  <1>7. \A x \in ToSet(s) : x \in Entries /\ x < n
    BY <1>1, <1>3, Places
  <1> QED
    BY <1>4, <1>5, <1>6, <1>7

\* The table that no entry was chained in holds nothing,
LEMMA BareRep ==
  Rep(bare, firsts(0), none)
  <1>1. zero_entry \in EntryType
    BY Constants DEF zero_entry, EntryType, Links, Entries, N
  <1>2. zero_list \in ListType
    BY DEF zero_list, ListType, Links
  <1>3. /\ bare.es = [e \in Entries |-> zero_entry] /\ bare.list = [l \in Queues |-> zero_list]
        /\ bare.buckets = [b \in Buckets |-> INDEXER_NULL] /\ bare.nr_allocated = 0
    BY DEF bare, Queues
  <1>4. bare \in Table
    <2>1. [b \in Buckets |-> INDEXER_NULL] \in [Buckets -> Links]
      BY DEF Links
    <2>2. [e \in Entries |-> zero_entry] \in [Entries -> EntryType]
      BY <1>1
    <2>3. [l \in Queues |-> zero_list] \in [Queues -> ListType]
      BY <1>2
    <2>4. {"free", "clean", "dirty"} = Queues
      BY DEF Queues
    <2> HIDE DEF Queues
    <2> QED
      BY <2>1, <2>2, <2>3, <2>4 DEF bare, Table
  <1>5. /\ firsts(0) \in [Queues -> Seq(Entries)] /\ ToSet(<<>>) = {}
        /\ \A l \in Queues : firsts(0)[l] = <<>>
    <2>1. [i \in 1 .. 0 |-> i - 1] = <<>>
      OBVIOUS
    <2>2. \A l \in Queues : firsts(0)[l] = <<>>
      BY <2>1 DEF firsts
    <2>3. 0 \in Nat /\ 0 <= N
      BY Constants
    <2>4. firsts(0) \in [Queues -> Seq(Entries)]
      BY <2>3, FirstPlaces
    <2>5. ToSet(<<>>) = {}
      BY DEF ToSet
    <2> QED
      BY <2>2, <2>4, <2>5
  <1>6. Queued(bare, firsts(0))
    <2>1. ASSUME NEW l \in Queues PROVE OnQueue(bare, l, <<>>)
      <3>1. heads(bare)[l] = INDEXER_NULL /\ tails(bare)[l] = INDEXER_NULL /\ counts(bare)[l] = 0
        BY <1>3 DEF heads, tails, counts, zero_list
      <3>2. <<>> \in Seq(Entries) /\ Len(<<>>) = 0 /\ IsInjective(<<>>)
        BY DEF IsInjective
      <3> QED
        BY <3>1, <3>2 DEF OnQueue, Leads, LeadsBack
    <2> QED
      BY <1>5, <2>1 DEF Queued
  <1>7. Chained(bare, none)
    <2>1. <<>> \in Seq(Entries) /\ Len(<<>>) = 0 /\ IsInjective(<<>>)
      BY DEF IsInjective
    <2>2. none \in [Buckets -> Seq(Entries)] /\ \A b \in Buckets : none[b] = <<>>
      BY DEF none
    <2>3. ASSUME NEW b \in Buckets PROVE Leads(hashes(bare), bare.buckets[b], none[b])
      BY <1>3, <2>1, <2>2 DEF Leads
    <2> QED
      BY <1>5, <2>2, <2>3 DEF Chained
  <1>8. bare.nr_allocated = Cardinality(Allocated(bits(bare)))
    <2>1. Allocated(bits(bare)) = {}
      BY <1>3 DEF Allocated, bits, zero_entry
    <2> QED
      BY <1>3, <2>1, FS_EmptySet
  <1> QED
    BY <1>4, <1>6, <1>7, <1>8 DEF Rep

\* The bits of an entry that nobody has used.
unused == [e \in Entries |-> [key |-> NoKey, pending |-> FALSE, dirty |-> FALSE, alloc |-> FALSE]]

\* and its entries are unused.
LEMMA BareBits ==
  bits(bare) = unused
  BY DEF bits, bare, zero_entry, unused

\* After n steps the table holds the first n entries, in order.
LEMMA PoolsRep ==
  ASSUME NEW g, Pools(g, N)
  PROVE  \A n \in 0 .. N : Rep(g[n], firsts(n), none) /\ bits(g[n]) = unused
  <1> DEFINE Good(n) == Rep(g[n], firsts(n), none) /\ bits(g[n]) = unused
             T == {n \in 0 .. N : ~Good(n)}
  <1> SUFFICES ASSUME T # {} PROVE FALSE
    OBVIOUS
  <1>0. N \in Nat
    BY Constants
  <1>1. PICK m \in T : \A k \in T : m <= k
    <2>1. T \in SUBSET Nat
      BY <1>0
    <2> HIDE DEF T
    <2> QED
      BY <2>1, Least
  <1>2. g = [i \in 0 .. N |-> IF i = 0 THEN bare ELSE l_add_tail(g[i - 1], "free", i - 1)]
    BY DEF Pools
  <1>3. m # 0
    <2>1. g[0] = bare
      BY <1>0, <1>2
    <2>2. Good(0)
      BY <2>1, BareRep, BareBits
    <2> QED
      BY <1>1, <2>2
  <1> DEFINE p == m - 1
  <1>4. p \in Nat /\ p < N /\ p \in 0 .. N /\ p \in Entries /\ m = p + 1
    BY <1>0, <1>1, <1>3 DEF Entries, N
  <1>5. g[m] = l_add_tail(g[p], "free", p)
    BY <1>0, <1>1, <1>2, <1>3
  <1>6. Rep(g[p], firsts(p), none) /\ bits(g[p]) = unused
    <2>1. p \notin T
      BY <1>1, <1>4
    <2> QED
      BY <1>4, <2>1
  <1> HIDE DEF p
  <1>7. Off(firsts(p), p)
    <2>1. /\ \A x \in ToSet(firsts(p)["free"]) : x \in Entries /\ x < p
          /\ ToSet(<<>>) = {} /\ firsts(p)["clean"] = <<>> /\ firsts(p)["dirty"] = <<>>
      <3>1. p \in Nat /\ p <= N
        BY <1>0, <1>4
      <3>2. /\ \A x \in ToSet(firsts(p)["free"]) : x \in Entries /\ x < p
            /\ firsts(p)["clean"] = <<>> /\ firsts(p)["dirty"] = <<>>
        BY <3>1, FirstPlaces
      <3>3. ToSet(<<>>) = {}
        BY DEF ToSet
      <3> QED
        BY <3>2, <3>3
    <2>2. p \notin ToSet(firsts(p)["free"])
      BY <1>4, <2>1
    <2> QED
      BY <2>1, <2>2 DEF Off, Queues
  <1>8. [firsts(p) EXCEPT !["free"] = Append(firsts(p)["free"], p)] = firsts(m)
    <2> DEFINE s == [i \in 1 .. p |-> i - 1]
               r == [i \in 1 .. m |-> i - 1]
               F == [firsts(p) EXCEPT !["free"] = Append(firsts(p)["free"], p)]
    <2>1. firsts(p)["free"] = s /\ s \in Seq(Entries) /\ Len(s) = p
      <3>1. firsts(p)["free"] = s /\ firsts(p)["free"] \in Seq(Entries)
        BY <1>0, <1>4, FirstPlaces DEF Queues
      <3>2. Len(s) = p
        BY <1>4, <3>1, LenProperties
      <3> QED
        BY <3>1, <3>2
    <2>2. \A i \in 1 .. p : s[i] = i - 1
      OBVIOUS
    <2>3. r \in Seq(Entries) /\ Len(r) = m /\ \A i \in 1 .. m : r[i] = i - 1
      <3>1. m \in Nat /\ m <= N
        BY <1>0, <1>4
      <3>2. firsts(m)["free"] = r /\ firsts(m)["free"] \in Seq(Entries)
        BY <3>1, FirstPlaces DEF Queues
      <3>3. Len(r) = m
        BY <3>1, <3>2, LenProperties
      <3> QED
        BY <3>2, <3>3
    <2> HIDE DEF s, r
    <2>4. /\ Append(s, p) \in Seq(Entries) /\ Len(Append(s, p)) = p + 1
          /\ \A i \in 1 .. p + 1 : Append(s, p)[i] = IF i = p + 1 THEN p ELSE s[i]
      BY <1>4, <2>1, AppendProperties
    <2>5. Append(s, p) = r
      <3>1. \A i \in 1 .. m : Append(s, p)[i] = r[i]
        BY <1>4, <2>2, <2>3, <2>4
      <3> QED
        BY <1>4, <2>3, <2>4, <3>1, SeqEqual
    <2>6. firsts(p) = [l \in Queues |-> IF l = "free" THEN s ELSE <<>>]
      BY DEF firsts, s
    <2>7. F = [l \in Queues |-> IF l = "free" THEN r ELSE <<>>]
      BY <2>1, <2>5, <2>6 DEF Queues
    <2> QED
      BY <2>7 DEF firsts, r
  <1>9. Rep(g[m], firsts(m), none) /\ bits(g[m]) = unused
    <2> DEFINE u == g[p]
               v == g[m]
               S == firsts(p)
    <2>1. Rep(u, S, none) /\ p \in Entries /\ "free" \in Queues /\ Off(S, p) /\ v = l_add_tail(u, "free", p)
      BY <1>4, <1>5, <1>6, <1>7 DEF Queues
    <2> HIDE DEF u, v, S
    <2>2. Rep(v, [S EXCEPT !["free"] = Append(S["free"], p)], none) /\ bits(v) = bits(u)
      BY <2>1, AddTailRep
    <2>3. [S EXCEPT !["free"] = Append(S["free"], p)] = firsts(m)
      BY <1>8 DEF S
    <2>4. Rep(v, firsts(m), none)
      BY <2>2, <2>3
    <2> QED
      BY <1>6, <2>2, <2>4 DEF u, v
  <1> QED
    BY <1>1, <1>9

\* init_mapping leaves all entries on the free queue.
LEMMA InitRep ==
  ASSUME Init
  PROVE  Rep(t, firsts(N), none) /\ bits(t) = unused
  <1> DEFINE pool == CHOOSE g : g = [n \in 0 .. CACHE_BLOCK_NUMBER |->
                                       IF n = 0 THEN bare ELSE l_add_tail(g[n - 1], "free", n - 1)]
  <1>1. t = pool[N]
    BY DEF Init, bare, zero_list, zero_entry, N
  <1>2. \E g : Pools(g, N)
    BY PoolsExist, Constants
  <1>3. Pools(pool, N)
    BY <1>2 DEF Pools, N
  <1>4. N \in 0 .. N
    BY Constants
  <1> HIDE DEF pool
  <1> QED
    BY <1>1, <1>3, <1>4, PoolsRep

\* An initial state is one of Mapping.
LEMMA InitMaps ==
  ASSUME Init
  PROVE  M!Init /\ corrupt = FALSE /\ \E S, C : Rep(t, S, C)
  <1>1. Rep(t, firsts(N), none) /\ bits(t) = unused
    BY InitRep
  <1>2. /\ Bits = bits(t) /\ Hashed = InChains(none)
        /\ Listed("free") = firsts(N)["free"] /\ Listed("clean") = firsts(N)["clean"]
        /\ Listed("dirty") = firsts(N)["dirty"]
    BY <1>1, Read
  <1>3. /\ firsts(N)["free"] = [i \in 1 .. N |-> i - 1] /\ firsts(N)["clean"] = <<>>
        /\ firsts(N)["dirty"] = <<>> /\ ToSet(<<>>) = {}
    BY FirstPlaces, Constants
  <1>4. InChains(none) = {}
    BY <1>3 DEF InChains, none
  <1>5. /\ wq = <<>> /\ worker = M!IdleWorker /\ client = [c \in Clients |-> M!IdleClient] /\ corrupt = FALSE
    BY DEF Init
  <1>6. M!Entries = Entries
    BY DEF M!Entries, Entries
  <1>7. M!Init
    BY <1>1, <1>2, <1>3, <1>4, <1>5, <1>6 DEF M!Init, unused, N
  <1> QED
    BY <1>1, <1>5, <1>7

-----------------------------------------------------------------------------
(* The invariant, the theorems.                                            *)

\* The links hold three disjoint queues and the chains of the buckets, and what
\* they hold is a table that Mapping may have.
IInv ==
  ~corrupt => /\ \E S, C : Rep(t, S, C)
              /\ MP!IInv /\ MP!KInv

\* The invariant gives the lists and what the bits say about them.
LEMMA Sounds ==
  ASSUME IInv, ~corrupt
  PROVE  \E S, C : Sound(S, C)
  <1>1. MP!IInv /\ MP!KInv
    BY DEF IInv
  <1>2. corrupt = FALSE
    BY <1>1 DEF MP!IInv, MP!TypeOK
  <1>3. PICK S, C : Rep(t, S, C)
    BY DEF IInv
  <1>4. Placed(S) /\ HashedOnes(C) /\ Holders
    BY <1>1, <1>2, <1>3, Facts
  <1> QED
    BY <1>2, <1>3, <1>4 DEF Sound

\* The invariant holds initially.
LEMMA InitIInv == Init => IInv
  BY InitMaps, AbstractInit DEF IInv

\* A stuttering step.
LEMMA SameTable ==
  ASSUME UNCHANGED vars
  PROVE  UNCHANGED M!vars /\ (\A S, C : Rep(t, S, C) => Rep(t', S, C)) /\ corrupt' = corrupt
  <1>1. t' = t
    BY DEF vars
  <1>2. Bits' = Bits /\ Hashed' = Hashed /\ \A l : Listed(l)' = Listed(l)
    BY <1>1, TableKept
  <1> QED
    BY <1>1, <1>2 DEF vars, M!vars, M!lists

\* A step keeps the invariant and is a step of Mapping.
LEMMA StepIInv ==
  ASSUME IInv, [Next]_vars
  PROVE  IInv' /\ [M!Next \/ corrupt']_(M!vars)
  <1>1. CASE UNCHANGED vars
    <2>1. UNCHANGED M!vars /\ (\A S, C : Rep(t, S, C) => Rep(t', S, C)) /\ corrupt' = corrupt
      BY <1>1, SameTable
    <2>2. ASSUME ~corrupt' PROVE (\E S, C : Rep(t', S, C)) /\ MP!IInv' /\ MP!KInv'
      <3>1. ~corrupt
        BY <2>1, <2>2
      <3>2. (\E S, C : Rep(t, S, C)) /\ MP!IInv /\ MP!KInv
        BY <3>1 DEF IInv
      <3>3. MP!IInv' /\ MP!KInv'
        BY <2>1, <3>2, AbstractStep
      <3> QED
        BY <2>1, <3>2, <3>3
    <2> QED
      BY <2>1, <2>2 DEF IInv
  <1>2. CASE Next
    <2>1. ~corrupt
      BY <1>2 DEF Next
    <2>2. PICK S, C : Sound(S, C)
      BY <2>1, Sounds
    <2>3. corrupt' \/ (M!Next /\ \E R, D : Rep(t', R, D))
      BY <1>2, <2>2, SoundStep
    <2>4. ASSUME ~corrupt' PROVE (\E R, D : Rep(t', R, D)) /\ MP!IInv' /\ MP!KInv'
      <3>1. M!Next /\ \E R, D : Rep(t', R, D)
        BY <2>3, <2>4
      <3>2. MP!IInv /\ MP!KInv
        BY <2>1 DEF IInv
      <3>3. MP!IInv' /\ MP!KInv'
        BY <3>1, <3>2, AbstractStep
      <3> QED
        BY <3>1, <3>3
    <2> QED
      BY <2>3, <2>4 DEF IInv
  <1> QED
    BY <1>1, <1>2

\* The links always hold disjoint queues and chains that make up a state of
\* Mapping, whatever the hash function, the size of the pool and the users do.
THEOREM Invariant == Spec => []IInv
  <1>1. Init => IInv
    BY InitIInv
  <1>2. IInv /\ [Next]_vars => IInv'
    BY StepIInv
  <1> QED
    BY <1>1, <1>2, PTL DEF Spec

\* The counters are lengths and a cardinality, so they do not pass the size.
LEMMA TypeFromIInv == IInv => TypeOK
  <1> SUFFICES ASSUME IInv, ~corrupt PROVE TypeOK
    BY DEF TypeOK
  <1>1. PICK S, C : Rep(t, S, C)
    BY DEF IInv
  <1>2. t \in Table
    BY <1>1 DEF Rep
  <1>3. /\ t.es \in [Entries -> EntryType] /\ t.list \in [Queues -> ListType]
        /\ t.buckets \in [Buckets -> Links]
    BY <1>2, Parts
  <1>4. t.nr_allocated \in 0 .. N
    <2>1. IsFiniteSet(Entries) /\ Cardinality(Entries) = N
      BY FS_Interval, Constants DEF Entries, N
    <2>2. Allocated(bits(t)) \subseteq Entries
      BY DEF Allocated
    <2>3. t.nr_allocated = Cardinality(Allocated(bits(t))) /\ t.nr_allocated \in Nat
      BY <1>1, <1>2, Parts DEF Rep
    <2>4. Cardinality(Allocated(bits(t))) <= N
      BY <2>1, <2>2, FS_Subset
    <2> QED
      BY <2>3, <2>4, Constants
  <1>5. ASSUME NEW l \in Queues
        PROVE  t.list[l] \in [nr_elts : 0 .. N, head : Links, tail : Links]
    <2>1. OnQueue(t, l, S[l])
      BY <1>1 DEF Rep, Queued
    <2>2. t.list[l].nr_elts \in 0 .. N
      BY <2>1, FollowedEnds, EndAt, Constants
    <2>3. t.list[l] \in ListType
      BY <1>2, ListParts
    <2> QED
      BY <2>2, <2>3 DEF ListType
  <1>6. t.list \in [Queues -> [nr_elts : 0 .. N, head : Links, tail : Links]]
    BY <1>3, <1>5
  <1>7. t = [es |-> t.es, list |-> t.list, buckets |-> t.buckets, nr_allocated |-> t.nr_allocated]
    BY <1>2 DEF Table
  <1> QED
    BY <1>3, <1>4, <1>6, <1>7 DEF TypeOK, EntryType, Queues, N

\* No link of lib/ssd_cache_mapping.c ever leaves the pool, and no count of
\* elements or of allocated entries passes its size or wraps.
THEOREM TypeCorrect == Spec => []TypeOK
  BY Invariant, TypeFromIInv, PTL

\* Links that lead through a list both ways are well linked.
LEMMA LinkedFromIInv == IInv => QueuesWellLinked
  <1> SUFFICES ASSUME IInv, ~corrupt
               PROVE  /\ \A l \in Queues : WellLinked(l)
                      /\ t.nr_allocated = Cardinality({e \in Entries : t.es[e].alloc})
    BY DEF QueuesWellLinked, Queues
  <1>1. PICK S, C : Rep(t, S, C)
    BY DEF IInv
  <1>2. t \in Table
    BY <1>1 DEF Rep
  <1>3. t.nr_allocated = Cardinality({e \in Entries : t.es[e].alloc})
    <2>1. Allocated(bits(t)) = {e \in Entries : t.es[e].alloc}
      BY <1>2, BitsAt DEF Allocated
    <2> QED
      BY <1>1, <2>1 DEF Rep
  <1>4. ASSUME NEW l \in Queues PROVE WellLinked(l)
    <2> DEFINE s == S[l]
    <2>1. OnQueue(t, l, s) /\ Listed(l) = s
      BY <1>1, Columns, ReadIn DEF Rep, Queued
    <2> HIDE DEF s
    <2>2. Leads(nexts(t), heads(t)[l], s) /\ LeadsBack(prevs(t), tails(t)[l], s)
      BY <2>1 DEF OnQueue
    <2>3. /\ s \in Seq(Entries) /\ Len(s) \in Nat /\ (s = <<>> <=> Len(s) = 0)
          /\ tails(t)[l] = (IF s = <<>> THEN INDEXER_NULL ELSE s[Len(s)]) /\ counts(t)[l] = Len(s)
      BY <2>1, FollowedEnds
    <2>4. DOMAIN s = 1 .. Len(s) /\ \A j \in 1 .. Len(s) : s[j] \in Entries
      BY <2>3, Places
    <2>5. t.list[l].nr_elts = Len(s) /\ t.list[l].tail = IF s = <<>> THEN INDEXER_NULL ELSE Last(s)
      BY <2>3, EndAt DEF Last
    <2>6. s # <<>> => t.es[Last(s)].next = INDEXER_NULL
      <3> SUFFICES ASSUME s # <<>> PROVE t.es[Last(s)].next = INDEXER_NULL
        OBVIOUS
      <3>1. Len(s) \in 1 .. Len(s) /\ Last(s) = s[Len(s)]
        BY <2>3 DEF Last
      <3>2. nexts(t)[s[Len(s)]] = INDEXER_NULL
        BY <2>2, <3>1, FollowingAt
      <3>3. nexts(t)[Last(s)] = INDEXER_NULL /\ Last(s) \in Entries
        BY <2>4, <3>1, <3>2
      <3>4. t.es[Last(s)].next = nexts(t)[Last(s)]
        BY <3>3, ColumnAt
      <3> QED
        BY <3>3, <3>4
    <2>7. \A i \in DOMAIN s : t.es[s[i]].prev = IF i = 1 THEN INDEXER_NULL ELSE s[i - 1]
      <3> SUFFICES ASSUME NEW i \in 1 .. Len(s)
                   PROVE  t.es[s[i]].prev = IF i = 1 THEN INDEXER_NULL ELSE s[i - 1]
        BY <2>4
      <3>1. prevs(t)[s[i]] = IF i = 1 THEN INDEXER_NULL ELSE s[i - 1]
        BY <2>2, FollowingBackAt
      <3>2. prevs(t)[s[i]] = t.es[s[i]].prev
        BY <2>4, ColumnAt
      <3> QED
        BY <3>1, <3>2
    <2> QED
      BY <2>1, <2>5, <2>6, <2>7 DEF WellLinked
  <1> QED
    BY <1>3, <1>4

\* l_add_head, l_add_tail and l_del keep both directions of the links, the ends
\* and the count of every queue in agreement, although an entry keeps stale
\* links while it is on no queue.
THEOREM QueuesLinked == Spec => []QueuesWellLinked
  BY Invariant, LinkedFromIInv, PTL

\* Links that lead through disjoint chains are well formed, and the only entry
\* of its key is found.
LEMMA ChainsFromIInv == IInv => ChainsWellFormed
  <1> SUFFICES ASSUME IInv, ~corrupt
               PROVE  /\ \A b \in Buckets : LET s == Chain(t, b) IN
                           /\ IsInjective(s)
                           /\ s # <<>> => t.es[Last(s)].hash_next = INDEXER_NULL
                           /\ \A e \in ToSet(s) : t.es[e].alloc /\ hash_32[t.es[e].key] = b
                      /\ \A e \in Hashed : found(t, t.es[e].key).e = e
    BY DEF ChainsWellFormed
  <1>1. PICK S, C : Sound(S, C)
    BY Sounds
  <1>2. Rep(t, S, C) /\ HashedOnes(C) /\ t \in Table /\ Chained(t, C)
    BY <1>1 DEF Sound, Rep
  <1>3. ASSUME NEW b \in Buckets
        PROVE  /\ IsInjective(Chain(t, b))
               /\ Chain(t, b) # <<>> => t.es[Last(Chain(t, b))].hash_next = INDEXER_NULL
               /\ \A e \in ToSet(Chain(t, b)) : t.es[e].alloc /\ hash_32[t.es[e].key] = b
    <2> DEFINE s == C[b]
    <2>1. Chain(t, b) = s /\ s \in Seq(Entries) /\ IsInjective(s)
      BY <1>2, ChainRead
    <2>2. Leads(hashes(t), t.buckets[b], s)
      BY <1>2 DEF Chained
    <2>3. \A e \in ToSet(s) : e \in InChains(C) /\ hash_32[bits(t)[e].key] = b
      BY <1>2 DEF InChains, Chained
    <2> HIDE DEF s
    <2>4. Len(s) \in Nat /\ (s = <<>> <=> Len(s) = 0) /\ \A j \in 1 .. Len(s) : s[j] \in Entries
      BY <2>1, Places
    <2>5. s # <<>> => t.es[Last(s)].hash_next = INDEXER_NULL
      <3> SUFFICES ASSUME s # <<>> PROVE t.es[Last(s)].hash_next = INDEXER_NULL
        OBVIOUS
      <3>1. Len(s) \in 1 .. Len(s) /\ Last(s) = s[Len(s)]
        BY <2>4 DEF Last
      <3>2. hashes(t)[s[Len(s)]] = INDEXER_NULL
        BY <2>2, <3>1, FollowingAt
      <3>3. hashes(t)[Last(s)] = INDEXER_NULL /\ Last(s) \in Entries
        BY <2>4, <3>1, <3>2
      <3>4. t.es[Last(s)].hash_next = hashes(t)[Last(s)]
        BY <3>3, ColumnAt
      <3> QED
        BY <3>3, <3>4
    <2>6. ASSUME NEW e \in ToSet(s) PROVE t.es[e].alloc /\ hash_32[t.es[e].key] = b
      <3>1. e \in Entries /\ e \in InChains(C) /\ hash_32[bits(t)[e].key] = b
        BY <2>1, <2>3, Places
      <3>2. bits(t)[e].alloc
        BY <1>2, <3>1 DEF HashedOnes
      <3> QED
        BY <1>2, <3>1, <3>2, BitsAt
    <2> QED
      BY <2>1, <2>5, <2>6
  <1>4. ASSUME NEW e \in Hashed PROVE found(t, t.es[e].key).e = e
    <2>1. e \in InChains(C)
      BY <1>2, Read
    <2>2. e \in Entries /\ bits(t)[e].key \in Keys
      BY <1>2, <2>1, KeyedChain
    <2>3. \A x \in InChains(C) : bits(t)[x].key = bits(t)[e].key => x = e
      BY <1>2, <2>1 DEF HashedOnes, OnlyOfKey
    <2>4. found(t, bits(t)[e].key).e = e
      BY <1>2, <2>1, <2>2, UnlinkFound DEF HashedOnes
    <2> QED
      BY <1>2, <2>2, <2>4, BitsAt
  <1> QED
    BY <1>3, <1>4

\* h_insert, h_lookup with its move to the front and h_remove keep every hashed
\* entry in the chain of its key, where a look-up finds it.
THEOREM ChainsFormed == Spec => []ChainsWellFormed
  BY Invariant, ChainsFromIInv, PTL

\* The array of entries with its links implements the queues and the set of
\* Mapping: initial states map to initial states, and every step of users and
\* worker maps to the same step there, to stuttering, or to the DISCARD at which
\* both stop.
THEOREM Refinement == Spec => ImplementsMapping
  <1>1. Init => M!Init
    BY InitMaps
  <1>2. IInv /\ [Next]_vars => [M!Next \/ corrupt']_(M!vars)
    BY StepIInv
  <1> QED
    BY <1>1, <1>2, Invariant, PTL DEF Spec, ImplementsMapping
=============================================================================
