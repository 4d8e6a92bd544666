--------------------------- MODULE Mapping_proof ---------------------------
(***************************************************************************)
(* The mapping table for every number of cache blocks, keys and users.     *)
(***************************************************************************)
EXTENDS Mapping, SequenceTheorems, FiniteSetTheorems, TLAPS

-----------------------------------------------------------------------------
(* The three list operations, as sets of entries: what they do to a list    *)
(* without repetitions.                                                     *)

\* The list without its i-th entry.
LEMMA DelPlaces ==
  ASSUME NEW S, NEW s \in Seq(S), NEW i \in 1 .. Len(s), IsInjective(s)
  PROVE  /\ l_del(s, s[i]) \in Seq(S)
         /\ Len(l_del(s, s[i])) = Len(s) - 1
         /\ \A k \in 1 .. Len(s) - 1 : l_del(s, s[i])[k] = IF k < i THEN s[k] ELSE s[k + 1]
  <1> DEFINE a == SubSeq(s, 1, i - 1)
             b == SubSeq(s, i + 1, Len(s))
             t == a \o b
  <1>1. DOMAIN s = 1 .. Len(s) /\ Len(s) \in Nat
    OBVIOUS
  <1>2. l_del(s, s[i]) = t
    <2>1. (CHOOSE j \in DOMAIN s : s[j] = s[i]) = i
      BY <1>1 DEF IsInjective
    <2> QED
      BY <2>1 DEF l_del, RemoveAt
  <1>3. a \in Seq(S) /\ Len(a) = i - 1 /\ \A k \in 1 .. i - 1 : a[k] = s[k]
    BY <1>1, SubSeqProperties
  <1>4. b \in Seq(S) /\ Len(b) = Len(s) - i /\ \A k \in 1 .. Len(s) - i : b[k] = s[k + i]
    <2>1. \A k \in i + 1 .. Len(s) : s[k] \in S
      BY <1>1, ElementOfSeq
    <2>2. /\ SubSeq(s, i + 1, Len(s)) \in Seq(S)
          /\ Len(SubSeq(s, i + 1, Len(s))) = IF i + 1 <= Len(s) THEN Len(s) - (i + 1) + 1 ELSE 0
          /\ \A k \in 1 .. Len(s) - (i + 1) + 1 :
               SubSeq(s, i + 1, Len(s))[k] = s[i + 1 + k - 1]
      BY <1>1, <2>1, SubSeqProperties
    <2>3. ASSUME NEW k \in 1 .. Len(s) - i PROVE b[k] = s[k + i]
      <3>1. k \in 1 .. Len(s) - (i + 1) + 1 /\ i + 1 + k - 1 = k + i
        BY <1>1
      <3> QED
        BY <2>2, <3>1
    <2>4. Len(b) = Len(s) - i
      <3> DEFINE n == Len(s)
      <3>1. n \in Nat /\ i \in 1 .. n /\ Len(b) = IF i + 1 <= n THEN n - (i + 1) + 1 ELSE 0
        BY <1>1, <2>2
      <3> HIDE DEF n, b
      <3>2. Len(b) = n - i
        BY <3>1
      <3> QED
        BY <3>2 DEF n
    <2> QED
      BY <2>2, <2>3, <2>4
  <1> HIDE DEF a, b
  <1>5. /\ t \in Seq(S) /\ Len(t) = Len(s) - 1
        /\ \A k \in 1 .. Len(s) - 1 : t[k] = IF k < i THEN s[k] ELSE s[k + 1]
    <2>1. /\ t \in Seq(S) /\ Len(t) = Len(a) + Len(b)
          /\ \A k \in 1 .. Len(a) + Len(b) : t[k] = IF k <= Len(a) THEN a[k] ELSE b[k - Len(a)]
      BY <1>3, <1>4, ConcatProperties
    <2>2. Len(a) + Len(b) = Len(s) - 1
      BY <1>1, <1>3, <1>4
    <2>3. ASSUME NEW k \in 1 .. Len(s) - 1
          PROVE  t[k] = IF k < i THEN s[k] ELSE s[k + 1]
      <3>1. CASE k < i
        BY <1>1, <1>3, <2>1, <2>2, <3>1
      <3>2. CASE ~(k < i)
        <4>1. t[k] = b[k - (i - 1)] /\ k - (i - 1) \in 1 .. Len(s) - i
          BY <1>1, <1>3, <2>1, <2>2, <3>2
        <4>2. b[k - (i - 1)] = s[k - (i - 1) + i] /\ k - (i - 1) + i = k + 1
          BY <1>1, <1>4, <4>1
        <4> QED
          BY <3>2, <4>1, <4>2
      <3> QED
        BY <3>1, <3>2
    <2> QED
      BY <2>1, <2>2, <2>3
  <1> HIDE DEF t
  <1> QED
    BY <1>2, <1>5

LEMMA DelProperties ==
  ASSUME NEW S, NEW s \in Seq(S), NEW e \in ToSet(s), IsInjective(s)
  PROVE  /\ l_del(s, e) \in Seq(S)
         /\ IsInjective(l_del(s, e))
         /\ ToSet(l_del(s, e)) = ToSet(s) \ {e}
  <1> DEFINE t == l_del(s, e)
  <1>1. DOMAIN s = 1 .. Len(s) /\ Len(s) \in Nat
    OBVIOUS
  <1>2. PICK i \in 1 .. Len(s) : s[i] = e
    BY <1>1 DEF ToSet
  <1>3. /\ t \in Seq(S) /\ Len(t) = Len(s) - 1
        /\ \A k \in 1 .. Len(s) - 1 : t[k] = IF k < i THEN s[k] ELSE s[k + 1]
    BY <1>2, DelPlaces
  <1> HIDE DEF t
  <1>4. DOMAIN t = 1 .. Len(s) - 1
    BY <1>1, <1>3
  <1>5. IsInjective(t)
    BY <1>1, <1>3, <1>4 DEF IsInjective
  <1>6. ToSet(t) = ToSet(s) \ {e}
    <2>1. ASSUME NEW x \in ToSet(t) PROVE x \in ToSet(s) \ {e}
      <3>1. PICK k \in 1 .. Len(s) - 1 : t[k] = x
        BY <1>4, <2>1 DEF ToSet
      <3>2. PICK j \in 1 .. Len(s) : t[k] = s[j] /\ j # i
        <4>1. CASE k < i
          BY <1>1, <1>3, <3>1, <4>1
        <4>2. CASE ~(k < i)
          <5>1. k + 1 \in 1 .. Len(s) /\ k + 1 # i
            BY <1>1, <3>1, <4>2
          <5> QED
            BY <1>3, <3>1, <4>2, <5>1
        <4> QED
          BY <4>1, <4>2
      <3>3. s[j] # e /\ s[j] \in ToSet(s)
        BY <1>1, <1>2, <3>2 DEF ToSet, IsInjective
      <3> QED
        BY <3>1, <3>2, <3>3
    <2>2. ASSUME NEW x \in ToSet(s), x # e PROVE x \in ToSet(t)
      <3>1. PICK k \in 1 .. Len(s) : s[k] = x
        BY <1>1 DEF ToSet
      <3>2. CASE k < i
        <4>1. k \in DOMAIN t /\ t[k] = x
          BY <1>1, <1>3, <1>4, <3>1, <3>2
        <4> QED
          BY <4>1 DEF ToSet
      <3>3. CASE k > i
        <4>1. k - 1 \in DOMAIN t /\ t[k - 1] = x
          BY <1>1, <1>3, <1>4, <3>1, <3>3
        <4> QED
          BY <4>1 DEF ToSet
      <3> QED
        BY <1>1, <1>2, <2>2, <3>1, <3>2, <3>3
    <2> QED
      BY <2>1, <2>2
  <1> QED
    BY <1>3, <1>5, <1>6 DEF t

LEMMA AddTailProperties ==
  ASSUME NEW S, NEW s \in Seq(S), NEW e \in S
  PROVE  /\ Append(s, e) \in Seq(S)
         /\ ToSet(Append(s, e)) = ToSet(s) \cup {e}
         /\ IsInjective(s) /\ e \notin ToSet(s) => IsInjective(Append(s, e))
  <1>1. /\ Append(s, e) \in Seq(S) /\ Len(Append(s, e)) = Len(s) + 1 /\ Len(s) \in Nat
        /\ DOMAIN s = 1 .. Len(s) /\ DOMAIN Append(s, e) = 1 .. Len(s) + 1
        /\ \A i \in 1 .. Len(s) : Append(s, e)[i] = s[i]
        /\ Append(s, e)[Len(s) + 1] = e
    BY AppendProperties
  <1>2. ToSet(Append(s, e)) = ToSet(s) \cup {e}
    <2>1. ASSUME NEW x \in ToSet(Append(s, e)) PROVE x \in ToSet(s) \cup {e}
      BY <1>1 DEF ToSet
    <2>2. ASSUME NEW x \in ToSet(s) PROVE x \in ToSet(Append(s, e))
      BY <1>1 DEF ToSet
    <2>3. e \in ToSet(Append(s, e))
      <3>1. Len(s) + 1 \in DOMAIN Append(s, e)
        BY <1>1
      <3> QED
        BY <1>1, <3>1 DEF ToSet
    <2> QED
      BY <2>1, <2>2, <2>3
  <1>3. ASSUME IsInjective(s), e \notin ToSet(s) PROVE IsInjective(Append(s, e))
    BY <1>1, <1>3 DEF IsInjective, ToSet
  <1> QED
    BY <1>1, <1>2, <1>3

LEMMA AddHeadProperties ==
  ASSUME NEW S, NEW s \in Seq(S), NEW e \in S
  PROVE  /\ <<e>> \o s \in Seq(S)
         /\ ToSet(<<e>> \o s) = ToSet(s) \cup {e}
         /\ IsInjective(s) /\ e \notin ToSet(s) => IsInjective(<<e>> \o s)
  <1> DEFINE t == <<e>> \o s
  <1>0. <<e>> \in Seq(S) /\ Len(<<e>>) = 1 /\ <<e>>[1] = e
    OBVIOUS
  <1>1. /\ t \in Seq(S) /\ Len(t) = 1 + Len(s) /\ Len(s) \in Nat
        /\ \A i \in 1 .. 1 + Len(s) : t[i] = IF i <= 1 THEN <<e>>[i] ELSE s[i - 1]
    BY <1>0, ConcatProperties
  <1> HIDE DEF t
  <1>2. DOMAIN s = 1 .. Len(s) /\ DOMAIN t = 1 .. 1 + Len(s)
    BY <1>1
  <1>3. t[1] = e /\ \A i \in 2 .. 1 + Len(s) : t[i] = s[i - 1] /\ i - 1 \in DOMAIN s
    BY <1>0, <1>1, <1>2
  <1>4. ToSet(t) = ToSet(s) \cup {e}
    <2>1. ASSUME NEW x \in ToSet(t) PROVE x \in ToSet(s) \cup {e}
      BY <1>1, <1>2, <1>3 DEF ToSet
    <2>2. ASSUME NEW x \in ToSet(s) PROVE x \in ToSet(t)
      <3>1. PICK k \in 1 .. Len(s) : s[k] = x
        BY <1>2 DEF ToSet
      <3>2. k + 1 \in DOMAIN t /\ t[k + 1] = x
        BY <1>1, <1>2, <1>3, <3>1
      <3> QED
        BY <3>2 DEF ToSet
    <2>3. 1 \in DOMAIN t
      BY <1>1, <1>2
    <2> QED
      BY <1>3, <2>1, <2>2, <2>3 DEF ToSet
  <1>5. ASSUME IsInjective(s), e \notin ToSet(s) PROVE IsInjective(t)
    <2> SUFFICES ASSUME NEW i \in DOMAIN t, NEW j \in DOMAIN t, t[i] = t[j] PROVE i = j
      BY DEF IsInjective
    <2>1. \A k \in 2 .. 1 + Len(s) : t[k] # e
      BY <1>3, <1>5 DEF ToSet
    <2>2. CASE i = 1 \/ j = 1
      BY <1>1, <1>2, <1>3, <2>1, <2>2
    <2>3. CASE i # 1 /\ j # 1
      <3>1. i \in 2 .. 1 + Len(s) /\ j \in 2 .. 1 + Len(s)
        BY <1>1, <1>2, <2>3
      <3>2. i - 1 = j - 1
        BY <1>3, <1>5, <3>1 DEF IsInjective
      <3> QED
        BY <3>1, <3>2
    <2> QED
      BY <2>2, <2>3
  <1> QED
    BY <1>1, <1>4, <1>5 DEF t

LEMMA PopProperties ==
  ASSUME NEW S, NEW s \in Seq(S), s # <<>>
  PROVE  /\ Head(s) \in S /\ Head(s) \in ToSet(s)
         /\ Tail(s) \in Seq(S) /\ Len(Tail(s)) = Len(s) - 1
         /\ ToSet(Tail(s)) \subseteq ToSet(s)
         /\ IsInjective(s) => IsInjective(Tail(s)) /\ ToSet(Tail(s)) = ToSet(s) \ {Head(s)}
  <1>1. /\ Head(s) = s[1] /\ Head(s) \in S /\ Tail(s) \in Seq(S)
        /\ Len(s) \in Nat \ {0} /\ Len(Tail(s)) = Len(s) - 1
        /\ DOMAIN s = 1 .. Len(s)
        /\ \A i \in 1 .. Len(s) - 1 : Tail(s)[i] = s[i + 1]
    BY HeadTailProperties, EmptySeq
  <1>2. DOMAIN Tail(s) = 1 .. Len(s) - 1
    BY <1>1
  <1>3. Head(s) \in ToSet(s)
    BY <1>1 DEF ToSet
  <1>4. ToSet(Tail(s)) \subseteq ToSet(s)
    BY <1>1, <1>2 DEF ToSet
  <1>5. ASSUME IsInjective(s)
        PROVE  IsInjective(Tail(s)) /\ ToSet(Tail(s)) = ToSet(s) \ {Head(s)}
    <2>1. IsInjective(Tail(s))
      BY <1>1, <1>2, <1>5 DEF IsInjective
    <2>2. Head(s) \notin ToSet(Tail(s))
      BY <1>1, <1>2, <1>5 DEF ToSet, IsInjective
    <2>3. ASSUME NEW x \in ToSet(s), x # Head(s) PROVE x \in ToSet(Tail(s))
      <3>1. PICK k \in 1 .. Len(s) : s[k] = x
        BY <1>1 DEF ToSet
      <3>2. k - 1 \in DOMAIN Tail(s) /\ Tail(s)[k - 1] = x
        BY <1>1, <1>2, <2>3, <3>1
      <3> QED
        BY <3>2 DEF ToSet
    <2> QED
      BY <1>4, <2>1, <2>2, <2>3
  <1> QED
    BY <1>1, <1>3, <1>4, <1>5

-----------------------------------------------------------------------------
(* The inductive invariant of the structure.                                *)

\* What the local variables of the worker are worth at each step.
WorkerOK ==
  /\ worker.pc \in {"mg_read", "mg_write"} => worker.type \in {"PROMOTION", "WRITEBACK"}
  /\ worker.pc = "mg_trim" => worker.type = "DEMOTION"
  /\ worker.pc = "complete" => worker.type \in {"PROMOTION", "DEMOTION", "WRITEBACK"}
  /\ InFlight \subseteq Entries
  /\ worker.pc # "idle" => worker.key \in Keys

ClientOK == \A c \in Clients : client[c].pc \in {"cache_io", "set_dirty"} => client[c].blk \in Entries

Struct == Partition /\ BitsMatchQueues /\ HashedIsAllocated

IInv == TypeOK /\ WorkerOK /\ ClientOK /\ (~corrupt => Struct)

\* A step that touches neither the table nor the block in the hands of the
\* worker leaves the structure alone.
LEMMA SameStruct ==
  ASSUME Struct, UNCHANGED <<entry, lists, table>>, InFlight' = InFlight,
         InFlight # {} => worker'.type = worker.type
  PROVE  Struct'
  BY DEF Struct, Partition, BitsMatchQueues, HashedIsAllocated, lists

\* Any list without the block in flight is a list of the table's other entries.
LEMMA WhereIs ==
  ASSUME Struct, TypeOK, NEW e \in Entries
  PROVE  /\ ~entry[e].alloc <=> e \in ToSet(free)
         /\ entry[e].alloc /\ ~entry[e].pending /\ ~entry[e].dirty <=> e \in ToSet(clean)
         /\ entry[e].alloc /\ ~entry[e].pending /\ entry[e].dirty <=> e \in ToSet(dirty)
         /\ entry[e].pending <=> e \in InFlight
         /\ e \in table => entry[e].alloc
  BY DEF Struct, Partition, BitsMatchQueues, HashedIsAllocated

LEMMA ListSets ==
  ASSUME TypeOK
  PROVE  ToSet(free) \subseteq Entries /\ ToSet(clean) \subseteq Entries /\ ToSet(dirty) \subseteq Entries
  BY DEF TypeOK, ToSet

LEMMA InitIInv == Init => IInv
  <1> SUFFICES ASSUME Init PROVE IInv
    OBVIOUS
  <1> USE MappingAssumption DEF Init
  <1>1. free \in Seq(Entries) /\ DOMAIN free = 1 .. CACHE_BLOCK_NUMBER
    BY DEF Entries
  <1>2. IsInjective(free)
    BY <1>1 DEF IsInjective
  <1>3. ToSet(free) = Entries
    <2>1. ASSUME NEW e \in Entries PROVE e \in ToSet(free)
      <3>1. e + 1 \in DOMAIN free /\ free[e + 1] = e
        BY DEF Entries
      <3> QED
        BY <3>1 DEF ToSet
    <2>2. ToSet(free) \subseteq Entries
      BY <1>1, ElementOfSeq DEF ToSet
    <2> QED
      BY <2>1, <2>2
  <1>4. ToSet(clean) = {} /\ ToSet(dirty) = {} /\ IsInjective(clean) /\ IsInjective(dirty)
    BY DEF ToSet, IsInjective
  <1>5. InFlight = {}
    BY DEF InFlight, IdleWorker
  <1>6. TypeOK
    <2>1. entry \in [Entries -> EntryRecord]
      BY DEF EntryRecord
    <2>2. worker \in WorkerRecord
      BY DEF WorkerRecord, IdleWorker
    <2>3. client \in [Clients -> ClientRecord]
      BY DEF ClientRecord, IdleClient
    <2>4. wq \in Seq(Keys) /\ Len(wq) < MAX_WORKQUEUE_SIZE
      OBVIOUS
    <2>5. clean \in Seq(Entries) /\ dirty \in Seq(Entries) /\ table \subseteq Entries
      OBVIOUS
    <2>6. corrupt \in BOOLEAN
      OBVIOUS
    <2> HIDE DEF Init
    <2> QED
      BY <1>1, <2>1, <2>2, <2>3, <2>4, <2>5, <2>6 DEF TypeOK
  <1>7. WorkerOK /\ ClientOK
    BY <1>5 DEF WorkerOK, ClientOK, IdleWorker, IdleClient
  <1>8. Struct
    BY <1>2, <1>3, <1>4, <1>5 DEF Struct, Partition, BitsMatchQueues, HashedIsAllocated
  <1> QED
    BY <1>6, <1>7, <1>8 DEF IInv

-----------------------------------------------------------------------------
(* The steps of the users.                                                  *)

LEMMA InsertWorkType ==
  ASSUME TypeOK, NEW k \in Keys, insert_work(k)
  PROVE  wq' \in Seq(Keys) /\ Len(wq') < MAX_WORKQUEUE_SIZE
  <1>1. wq \in Seq(Keys) /\ Len(wq) \in Nat /\ Len(wq) < MAX_WORKQUEUE_SIZE
    BY DEF TypeOK
  <1>2. CASE WQ!Insert(k)
    <2>1. Len(wq) < MAX_WORKQUEUE_SIZE - 1 /\ wq' = Append(wq, k)
      BY <1>2 DEF WQ!Insert, WQ!Accepts
    <2> QED
      BY <1>1, <2>1, AppendProperties, MappingAssumption
  <1>3. CASE UNCHANGED wq
    BY <1>1, <1>3
  <1> QED
    BY <1>2, <1>3 DEF insert_work

LEMMA GoesType ==
  ASSUME TypeOK, ClientOK, NEW c \in Clients, NEW k \in Keys, NEW op \in AllOps,
         NEW pc \in {"cache_io", "set_dirty", "origin_io"}, NEW e \in Entries \cup {NoBlock},
         pc # "origin_io" => e \in Entries, goes(c, pc, op, k, e)
  PROVE  client' \in [Clients -> ClientRecord] /\ ClientOK'
  <1> DEFINE r == [pc |-> pc, op |-> op, key |-> k, blk |-> e]
  <1>1. r \in ClientRecord
    BY DEF ClientRecord
  <1>2. client \in [Clients -> ClientRecord] /\ client' = [client EXCEPT ![c] = r]
    BY DEF TypeOK, goes
  <1>3. client' \in [Clients -> ClientRecord]
    BY <1>1, <1>2
  <1>4. ClientOK'
    BY <1>2 DEF ClientOK
  <1> QED
    BY <1>3, <1>4

\* A step of a user that leaves the table to itself.
LEMMA UserStep ==
  ASSUME IInv, UNCHANGED <<entry, lists, table, worker, corrupt>>,
         wq' \in Seq(Keys), Len(wq') < MAX_WORKQUEUE_SIZE,
         client' \in [Clients -> ClientRecord], ClientOK'
  PROVE  IInv'
  <1>1. InFlight' = InFlight
    BY DEF InFlight
  <1>2. TypeOK'
    BY DEF IInv, TypeOK, lists
  <1>3. WorkerOK'
    BY <1>1 DEF IInv, WorkerOK
  <1>4. ~corrupt => Struct'
    BY <1>1, SameStruct DEF IInv
  <1> QED
    BY <1>2, <1>3, <1>4 DEF IInv

LEMMA MissIInv ==
  ASSUME IInv, NEW c \in Clients, NEW k \in Keys, NEW op \in Ops,
         LookupMiss(c, op, k) \/ InsertQueued(c, k) \/ InsertNoRoom(c, k)
  PROVE  IInv'
  <1>1. TypeOK /\ ClientOK
    BY DEF IInv
  <1>2. PICK o \in AllOps : goes(c, "origin_io", o, k, NoBlock)
    BY MappingAssumption DEF LookupMiss, InsertQueued, InsertNoRoom, AllOps
  <1>3. client' \in [Clients -> ClientRecord] /\ ClientOK'
    BY <1>1, <1>2, GoesType
  <1>4. insert_work(k) \/ UNCHANGED wq
    BY DEF LookupMiss, InsertQueued, InsertNoRoom
  <1>5. wq' \in Seq(Keys) /\ Len(wq') < MAX_WORKQUEUE_SIZE
    BY <1>1, <1>4, InsertWorkType DEF TypeOK
  <1>6. UNCHANGED <<entry, lists, table, worker, corrupt>>
    BY DEF LookupMiss, InsertQueued, InsertNoRoom
  <1> QED
    BY <1>3, <1>5, <1>6, UserStep

LEMMA ClientIOIInv ==
  ASSUME IInv, NEW c \in Clients, CacheIO(c) \/ OriginIO(c)
  PROVE  IInv'
  <1>1. client \in [Clients -> ClientRecord] /\ ClientOK /\ wq \in Seq(Keys)
        /\ Len(wq) < MAX_WORKQUEUE_SIZE
    BY DEF IInv, TypeOK
  <1>2. IdleClient \in ClientRecord
    BY DEF IdleClient, ClientRecord
  <1>3. UNCHANGED <<entry, lists, table, wq, worker, corrupt>>
    BY DEF CacheIO, OriginIO
  <1>4. CASE client' = [client EXCEPT ![c] = IdleClient]
    <2>1. client' \in [Clients -> ClientRecord]
      BY <1>1, <1>2, <1>4
    <2>2. ClientOK'
      BY <1>1, <1>4 DEF ClientOK, IdleClient
    <2> QED
      BY <1>1, <1>3, <2>1, <2>2, UserStep
  <1>5. CASE client[c].pc = "cache_io" /\ client' = [client EXCEPT ![c].pc = "set_dirty"]
    <2>1. client' \in [Clients -> ClientRecord]
      BY <1>1, <1>5 DEF ClientRecord
    <2>2. ClientOK'
      BY <1>1, <1>5 DEF ClientOK, ClientRecord
    <2> QED
      BY <1>1, <1>3, <2>1, <2>2, UserStep
  <1> QED
    BY <1>4, <1>5 DEF CacheIO, OriginIO

LEMMA HitIInv ==
  ASSUME IInv, ~corrupt, NEW c \in Clients, NEW k \in Keys, NEW op \in Ops, LookupHit(c, op, k)
  PROVE  IInv'
  <1>1. TypeOK /\ WorkerOK /\ ClientOK /\ Struct
    BY DEF IInv
  <1>2. PICK e \in h_lookup(k) :
          /\ clean' = IF ~entry[e].pending /\ ~entry[e].dirty
                      THEN Append(l_del(clean, e), e) ELSE clean
          /\ goes(c, "cache_io", op, k, e)
    BY DEF LookupHit
  <1>3. e \in Entries /\ e \in table
    BY <1>1, <1>2 DEF h_lookup, TypeOK
  <1>4. client' \in [Clients -> ClientRecord] /\ ClientOK'
    BY <1>1, <1>2, <1>3, GoesType, MappingAssumption
  <1>5. UNCHANGED <<entry, free, dirty, table, wq, worker, corrupt>>
    BY DEF LookupHit
  <1>6. clean \in Seq(Entries) /\ IsInjective(clean)
    BY <1>1 DEF TypeOK, Struct, Partition
  <1>7. clean' \in Seq(Entries) /\ IsInjective(clean') /\ ToSet(clean') = ToSet(clean)
    <2>1. CASE ~entry[e].pending /\ ~entry[e].dirty
      <3>1. e \in ToSet(clean)
        BY <1>1, <1>3, <2>1, WhereIs
      <3>2. /\ l_del(clean, e) \in Seq(Entries) /\ IsInjective(l_del(clean, e))
            /\ ToSet(l_del(clean, e)) = ToSet(clean) \ {e}
        BY <1>6, <3>1, DelProperties
      <3>3. clean' = Append(l_del(clean, e), e)
        BY <1>2, <2>1
      <3>4. /\ clean' \in Seq(Entries) /\ IsInjective(clean')
            /\ ToSet(clean') = ToSet(l_del(clean, e)) \cup {e}
        BY <1>3, <3>2, <3>3, AddTailProperties
      <3> QED
        BY <3>1, <3>2, <3>4
    <2>2. CASE ~(~entry[e].pending /\ ~entry[e].dirty)
      BY <1>2, <1>6, <2>2
    <2> QED
      BY <2>1, <2>2
  <1>8. InFlight' = InFlight
    BY <1>5 DEF InFlight
  <1>9. Struct'
    BY <1>1, <1>5, <1>7, <1>8 DEF Struct, Partition, BitsMatchQueues, HashedIsAllocated
  <1>10. TypeOK'
    BY <1>1, <1>4, <1>5, <1>7 DEF TypeOK
  <1>11. WorkerOK'
    BY <1>1, <1>5, <1>8 DEF WorkerOK
  <1> QED
    BY <1>4, <1>9, <1>10, <1>11 DEF IInv

\* A free entry, taken off the head of its list.
LEMMA PopFree ==
  ASSUME TypeOK, Struct, free # <<>>, free' = Tail(free)
  PROVE  /\ Head(free) \in Entries /\ Head(free) \in ToSet(free)
         /\ free' \in Seq(Entries) /\ IsInjective(free')
         /\ ToSet(free') = ToSet(free) \ {Head(free)}
  <1>1. free \in Seq(Entries) /\ IsInjective(free)
    BY DEF TypeOK, Struct, Partition
  <1> QED
    BY <1>1, PopProperties

LEMMA InsertDirtyIInv ==
  ASSUME IInv, ~corrupt, NEW c \in Clients, NEW k \in Keys, InsertDirty(c, k)
  PROVE  IInv'
  <1> DEFINE e == Head(free)
  <1>1. TypeOK /\ WorkerOK /\ ClientOK /\ Struct
    BY DEF IInv
  <1>2. /\ free # <<>> /\ free' = Tail(free)
        /\ entry' = [entry EXCEPT ![e] =
                       [key |-> k, pending |-> FALSE, dirty |-> TRUE, alloc |-> TRUE]]
        /\ table' = table \cup {e} /\ dirty' = Append(dirty, e)
        /\ goes(c, "cache_io", "OVERWRITE", k, e)
        /\ UNCHANGED <<clean, wq, worker, corrupt>>
    BY DEF InsertDirty, insert_dirty
  <1>3. /\ e \in Entries /\ e \in ToSet(free)
        /\ free' \in Seq(Entries) /\ IsInjective(free') /\ ToSet(free') = ToSet(free) \ {e}
    BY <1>1, <1>2, PopFree
  <1> HIDE DEF e
  <1>4. dirty \in Seq(Entries) /\ IsInjective(dirty) /\ e \notin ToSet(dirty)
        /\ e \notin ToSet(clean) /\ e \notin InFlight
    BY <1>1, <1>3 DEF TypeOK, Struct, Partition
  <1>5. /\ dirty' \in Seq(Entries) /\ IsInjective(dirty')
        /\ ToSet(dirty') = ToSet(dirty) \cup {e}
    BY <1>2, <1>3, <1>4, AddTailProperties
  <1>6. InFlight' = InFlight
    BY <1>2 DEF InFlight
  <1>7. entry \in [Entries -> EntryRecord]
    BY <1>1 DEF TypeOK
  <1>8. /\ entry' \in [Entries -> EntryRecord]
        /\ \A f \in Entries : f # e => entry'[f] = entry[f]
        /\ entry'[e].alloc /\ ~entry'[e].pending /\ entry'[e].dirty
    BY <1>2, <1>3, <1>7 DEF EntryRecord
  <1>9. client' \in [Clients -> ClientRecord] /\ ClientOK'
    BY <1>1, <1>2, <1>3, GoesType DEF AllOps
  <1>10. Partition'
    BY <1>1, <1>2, <1>3, <1>4, <1>5, <1>6 DEF Struct, Partition
  <1>11. BitsMatchQueues'
    BY <1>1, <1>2, <1>3, <1>4, <1>5, <1>6, <1>8 DEF Struct, BitsMatchQueues
  <1>12. HashedIsAllocated'
    BY <1>1, <1>2, <1>3, <1>4, <1>6, <1>8 DEF Struct, HashedIsAllocated
  <1>13. TypeOK'
    BY <1>1, <1>2, <1>3, <1>5, <1>8, <1>9 DEF TypeOK
  <1>14. WorkerOK'
    BY <1>1, <1>2, <1>6 DEF WorkerOK
  <1> QED
    BY <1>9, <1>10, <1>11, <1>12, <1>13, <1>14 DEF IInv, Struct

LEMMA MarkDirtyStruct ==
  ASSUME TypeOK, Struct, NEW e \in Entries, entry[e].alloc, ~entry[e].pending, mark_dirty(e),
         UNCHANGED <<free, table, worker>>
  PROVE  /\ Struct' /\ entry' \in [Entries -> EntryRecord]
         /\ clean' \in Seq(Entries) /\ dirty' \in Seq(Entries)
  <1>1. /\ clean \in Seq(Entries) /\ dirty \in Seq(Entries) /\ entry \in [Entries -> EntryRecord]
        /\ IsInjective(clean) /\ IsInjective(dirty)
    BY DEF TypeOK, Struct, Partition
  <1>2. /\ entry' \in [Entries -> EntryRecord]
        /\ \A f \in Entries : /\ entry'[f].alloc = entry[f].alloc
                              /\ entry'[f].pending = entry[f].pending
                              /\ f # e => entry'[f].dirty = entry[f].dirty
        /\ entry'[e].dirty
    BY <1>1 DEF mark_dirty, EntryRecord
  <1>3. InFlight' = InFlight
    BY DEF InFlight
  <1>4. /\ clean' \in Seq(Entries) /\ IsInjective(clean') /\ ToSet(clean') = ToSet(clean) \ {e}
        /\ dirty' \in Seq(Entries) /\ IsInjective(dirty') /\ ToSet(dirty') = ToSet(dirty) \cup {e}
    <2>1. CASE entry[e].dirty
      <3>1. e \in ToSet(dirty) /\ e \notin ToSet(clean)
        BY <2>1, WhereIs
      <3>2. /\ l_del(dirty, e) \in Seq(Entries) /\ IsInjective(l_del(dirty, e))
            /\ ToSet(l_del(dirty, e)) = ToSet(dirty) \ {e}
        BY <1>1, <3>1, DelProperties
      <3>3. dirty' = Append(l_del(dirty, e), e) /\ clean' = clean
        BY <2>1 DEF mark_dirty
      <3>4. /\ dirty' \in Seq(Entries) /\ IsInjective(dirty')
            /\ ToSet(dirty') = ToSet(l_del(dirty, e)) \cup {e}
        BY <3>2, <3>3, AddTailProperties
      <3> QED
        BY <1>1, <3>1, <3>2, <3>3, <3>4
    <2>2. CASE ~entry[e].dirty
      <3>1. e \in ToSet(clean) /\ e \notin ToSet(dirty)
        BY <2>2, WhereIs
      <3>2. clean' = l_del(clean, e) /\ dirty' = Append(dirty, e)
        BY <2>2 DEF mark_dirty
      <3> QED
        BY <1>1, <3>1, <3>2, DelProperties, AddTailProperties
    <2> QED
      BY <2>1, <2>2
  <1>5. e \notin ToSet(free) /\ e \notin InFlight
    BY WhereIs
  <1>6. Partition'
    BY <1>3, <1>4, <1>5 DEF Struct, Partition
  <1>7. BitsMatchQueues'
    BY <1>2, <1>3, <1>4 DEF Struct, BitsMatchQueues
  <1>8. HashedIsAllocated'
    BY <1>2, <1>3 DEF Struct, HashedIsAllocated
  <1> QED
    BY <1>2, <1>4, <1>6, <1>7, <1>8 DEF Struct

LEMMA SetDirtyIInv ==
  ASSUME IInv, ~corrupt, NEW c \in Clients, set_dirty_after_write(c)
  PROVE  IInv'
  <1> DEFINE e == client[c].blk
  <1>1. TypeOK /\ WorkerOK /\ ClientOK /\ Struct
    BY DEF IInv
  <1>2. /\ client[c].pc = "set_dirty" /\ client' = [client EXCEPT ![c] = IdleClient]
        /\ UNCHANGED <<free, table, wq, worker, corrupt>>
    BY DEF set_dirty_after_write
  <1>3. e \in Entries
    BY <1>1, <1>2 DEF ClientOK
  <1>4. /\ client' \in [Clients -> ClientRecord] /\ ClientOK'
    <2>1. IdleClient \in ClientRecord /\ client \in [Clients -> ClientRecord]
      BY <1>1 DEF IdleClient, ClientRecord, TypeOK
    <2> QED
      BY <1>1, <1>2, <2>1 DEF ClientOK, IdleClient
  <1>5. InFlight' = InFlight
    BY <1>2 DEF InFlight
  <1>6. /\ Struct' /\ entry' \in [Entries -> EntryRecord]
        /\ clean' \in Seq(Entries) /\ dirty' \in Seq(Entries)
    <2>1. CASE UNCHANGED <<entry, clean, dirty>>
      BY <1>1, <1>2, <1>5, <2>1, SameStruct DEF TypeOK, lists
    <2>2. CASE /\ entry[e].alloc /\ entry[e].pending
               /\ entry' = [entry EXCEPT ![e].dirty = TRUE] /\ UNCHANGED <<clean, dirty>>
      <3>1. entry \in [Entries -> EntryRecord] /\ clean \in Seq(Entries) /\ dirty \in Seq(Entries)
        BY <1>1 DEF TypeOK
      <3>2. /\ entry' \in [Entries -> EntryRecord]
            /\ \A f \in Entries : /\ entry'[f].alloc = entry[f].alloc
                                  /\ entry'[f].pending = entry[f].pending
                                  /\ f # e => entry'[f].dirty = entry[f].dirty
        BY <1>3, <2>2, <3>1 DEF EntryRecord
      <3>3. e \notin ToSet(clean)
        BY <1>1, <1>3, <2>2, WhereIs
      <3>4. entry'[e].dirty
        BY <1>3, <2>2, <3>1 DEF EntryRecord
      <3>5. Partition'
        BY <1>1, <1>2, <1>5, <2>2 DEF Struct, Partition
      <3>6. BitsMatchQueues'
        BY <1>1, <1>2, <1>5, <2>2, <3>2, <3>3, <3>4 DEF Struct, BitsMatchQueues
      <3>7. HashedIsAllocated'
        BY <1>1, <1>2, <1>5, <3>2 DEF Struct, HashedIsAllocated
      <3> QED
        BY <2>2, <3>1, <3>2, <3>5, <3>6, <3>7 DEF Struct
    <2>3. CASE entry[e].alloc /\ ~entry[e].pending /\ mark_dirty(e)
      BY <1>1, <1>2, <1>3, <2>3, MarkDirtyStruct
    <2> QED
      BY <2>1, <2>2, <2>3 DEF set_dirty_after_write
  <1>7. TypeOK'
    BY <1>1, <1>2, <1>4, <1>6 DEF TypeOK
  <1>8. WorkerOK'
    BY <1>1, <1>2, <1>5 DEF WorkerOK
  <1> QED
    BY <1>4, <1>6, <1>7, <1>8 DEF IInv

LEMMA DiscardIInv ==
  ASSUME IInv, ~corrupt, NEW k \in Keys, remove_mapping(k)
  PROVE  IInv'
  <1>1. TypeOK /\ WorkerOK /\ ClientOK /\ Struct
    BY DEF IInv
  <1>2. PICK e \in h_lookup(k) :
          /\ table' = table \ {e}
          /\ entry' = [entry EXCEPT ![e].alloc = FALSE]
          /\ \/ /\ e \in ToSet(queue_of(e))
                /\ clean' = IF entry[e].dirty THEN clean ELSE l_del(clean, e)
                /\ dirty' = IF entry[e].dirty THEN l_del(dirty, e) ELSE dirty
                /\ free' = Append(free, e)
                /\ UNCHANGED corrupt
             \/ /\ e \notin ToSet(queue_of(e))
                /\ corrupt' = TRUE
                /\ UNCHANGED lists
    BY DEF remove_mapping
  <1>3. e \in Entries /\ e \in table
    BY <1>1, <1>2 DEF h_lookup, TypeOK
  <1>4. UNCHANGED <<wq, worker, client>>
    BY DEF remove_mapping
  <1>5. InFlight' = InFlight /\ ClientOK'
    BY <1>1, <1>4 DEF InFlight, ClientOK
  <1>6. WorkerOK'
    BY <1>1, <1>4, <1>5 DEF WorkerOK
  <1>7. entry \in [Entries -> EntryRecord]
    BY <1>1 DEF TypeOK
  <1>8. /\ entry' \in [Entries -> EntryRecord] /\ ~entry'[e].alloc
        /\ \A f \in Entries : /\ f # e => entry'[f].alloc = entry[f].alloc
                              /\ entry'[f].pending = entry[f].pending
                              /\ entry'[f].dirty = entry[f].dirty
    BY <1>2, <1>3, <1>7 DEF EntryRecord
  <1>9. CASE e \notin ToSet(queue_of(e)) /\ corrupt' = TRUE /\ UNCHANGED lists
    <2>1. TypeOK'
      BY <1>1, <1>2, <1>4, <1>8, <1>9 DEF TypeOK, lists
    <2> QED
      BY <1>5, <1>6, <1>9, <2>1 DEF IInv
  <1>10. CASE /\ e \in ToSet(queue_of(e))
              /\ clean' = IF entry[e].dirty THEN clean ELSE l_del(clean, e)
              /\ dirty' = IF entry[e].dirty THEN l_del(dirty, e) ELSE dirty
              /\ free' = Append(free, e)
              /\ UNCHANGED corrupt
    <2>1. /\ free \in Seq(Entries) /\ clean \in Seq(Entries) /\ dirty \in Seq(Entries)
          /\ IsInjective(free) /\ IsInjective(clean) /\ IsInjective(dirty)
      BY <1>1 DEF TypeOK, Struct, Partition
    <2>2. entry[e].alloc /\ e \notin ToSet(free) /\ e \notin InFlight
      BY <1>1, <1>3, <1>10, WhereIs DEF queue_of
    <2>3. /\ free' \in Seq(Entries) /\ IsInjective(free') /\ ToSet(free') = ToSet(free) \cup {e}
      BY <1>3, <1>10, <2>1, <2>2, AddTailProperties
    <2>4. /\ clean' \in Seq(Entries) /\ IsInjective(clean') /\ ToSet(clean') = ToSet(clean) \ {e}
          /\ dirty' \in Seq(Entries) /\ IsInjective(dirty') /\ ToSet(dirty') = ToSet(dirty) \ {e}
      <3>1. CASE entry[e].dirty
        <4>1. e \in ToSet(dirty) /\ e \notin ToSet(clean) /\ clean' = clean /\ dirty' = l_del(dirty, e)
          BY <1>1, <1>3, <1>10, <3>1, WhereIs DEF queue_of
        <4> QED
          BY <2>1, <4>1, DelProperties
      <3>2. CASE ~entry[e].dirty
        <4>1. e \in ToSet(clean) /\ e \notin ToSet(dirty) /\ dirty' = dirty /\ clean' = l_del(clean, e)
          BY <1>1, <1>3, <1>10, <3>2, WhereIs DEF queue_of
        <4> QED
          BY <2>1, <4>1, DelProperties
      <3> QED
        BY <3>1, <3>2
    <2>5. Partition'
      BY <1>1, <1>3, <1>5, <2>2, <2>3, <2>4 DEF Struct, Partition
    <2>6. BitsMatchQueues'
      BY <1>1, <1>5, <1>8, <2>3, <2>4 DEF Struct, BitsMatchQueues
    <2>7. HashedIsAllocated'
      BY <1>1, <1>2, <1>4, <1>5, <1>8 DEF Struct, HashedIsAllocated
    <2>8. TypeOK'
      BY <1>1, <1>2, <1>4, <1>8, <1>10, <2>3, <2>4 DEF TypeOK
    <2> QED
      BY <1>5, <1>6, <2>5, <2>6, <2>7, <2>8 DEF IInv, Struct
  <1> QED
    BY <1>2, <1>9, <1>10

-----------------------------------------------------------------------------
(* The steps of the worker.                                                 *)

\* A step of the worker between two critical sections of the mapping.
LEMMA WorkerStep ==
  ASSUME IInv, UNCHANGED <<entry, lists, table, client, corrupt>>,
         wq' \in Seq(Keys), Len(wq') < MAX_WORKQUEUE_SIZE,
         worker' \in WorkerRecord, WorkerOK', InFlight' = InFlight,
         InFlight # {} => worker'.type = worker.type
  PROVE  IInv'
  <1>1. TypeOK'
    BY DEF IInv, TypeOK, lists
  <1>2. ClientOK'
    BY DEF IInv, ClientOK
  <1>3. ~corrupt => Struct'
    BY SameStruct DEF IInv
  <1> QED
    BY <1>1, <1>2, <1>3 DEF IInv

LEMMA PeakIInv ==
  ASSUME IInv, peak_work
  PROVE  IInv'
  <1>1. /\ worker \in WorkerRecord /\ wq \in Seq(Keys) /\ Len(wq) < MAX_WORKQUEUE_SIZE
        /\ worker.pc = "idle" /\ wq # <<>>
        /\ worker' = [worker EXCEPT !.pc = "promote", !.key = Head(wq)]
        /\ UNCHANGED <<entry, lists, table, wq, client, corrupt>>
    BY DEF IInv, TypeOK, peak_work
  <1>2. Head(wq) \in Keys
    BY <1>1, HeadTailProperties
  <1>3. worker' \in WorkerRecord /\ worker'.pc = "promote" /\ worker'.key \in Keys
    BY <1>1, <1>2 DEF WorkerRecord
  <1>4. InFlight = {} /\ InFlight' = {}
    BY <1>1, <1>3 DEF InFlight
  <1>5. WorkerOK'
    BY <1>3, <1>4 DEF WorkerOK
  <1> QED
    BY <1>1, <1>3, <1>4, <1>5, WorkerStep

LEMMA RefusedIInv ==
  ASSUME IInv, PromotionRefused \/ DemotionRefused \/ WritebackRefused
  PROVE  IInv'
  <1>1. /\ worker \in WorkerRecord /\ wq \in Seq(Keys) /\ Len(wq) < MAX_WORKQUEUE_SIZE /\ WorkerOK
    BY DEF IInv, TypeOK
  <1>2. PICK pc \in {"demote", "writeback", "remove"} : worker' = [worker EXCEPT !.pc = pc]
    BY DEF PromotionRefused, DemotionRefused, WritebackRefused, goto
  <1>3. /\ worker.pc \in {"promote", "demote", "writeback"}
        /\ UNCHANGED <<entry, lists, table, wq, client, corrupt>>
    BY DEF PromotionRefused, DemotionRefused, WritebackRefused
  <1>4. /\ worker' \in WorkerRecord /\ worker'.key = worker.key
        /\ worker'.pc \in {"demote", "writeback", "remove"}
    BY <1>1, <1>2 DEF WorkerRecord
  <1>5. InFlight = {} /\ InFlight' = {}
    BY <1>3, <1>4 DEF InFlight
  <1>6. WorkerOK'
    BY <1>1, <1>3, <1>4, <1>5 DEF WorkerOK
  <1> QED
    BY <1>1, <1>3, <1>4, <1>5, <1>6, WorkerStep

LEMMA CopyIInv ==
  ASSUME IInv, MgRead \/ MgWrite \/ MgTrim
  PROVE  IInv'
  <1>1. /\ worker \in WorkerRecord /\ wq \in Seq(Keys) /\ Len(wq) < MAX_WORKQUEUE_SIZE /\ WorkerOK
    BY DEF IInv, TypeOK
  <1>2. UNCHANGED <<entry, lists, table, wq, client, corrupt>>
    BY DEF MgRead, MgWrite, MgTrim
  <1>3. /\ worker' \in WorkerRecord /\ worker'.key = worker.key /\ worker'.blk = worker.blk
        /\ worker'.type = worker.type
        /\ worker.pc \in {"mg_read", "mg_write", "mg_trim"}
        /\ \/ worker.pc = "mg_read" /\ worker'.pc = "mg_write"
           \/ worker'.pc = "complete"
    BY <1>1 DEF MgRead, MgWrite, MgTrim, goto, WorkerRecord
  <1>4. InFlight' = InFlight
    BY <1>3 DEF InFlight
  <1>5. WorkerOK'
    BY <1>1, <1>3, <1>4 DEF WorkerOK
  <1> QED
    BY <1>1, <1>2, <1>3, <1>4, <1>5, WorkerStep

LEMMA RemoveWorkIInv ==
  ASSUME IInv, remove_work
  PROVE  IInv'
  <1>1. wq \in Seq(Keys) /\ Len(wq) < MAX_WORKQUEUE_SIZE /\ worker.pc = "remove"
    BY DEF IInv, TypeOK, remove_work
  <1>2. /\ wq # <<>> /\ wq' = Tail(wq) /\ worker' = IdleWorker
        /\ UNCHANGED <<entry, lists, table, client, corrupt>>
    BY DEF remove_work, WQ!Remove
  <1>3. wq' \in Seq(Keys) /\ Len(wq') < MAX_WORKQUEUE_SIZE
    BY <1>1, <1>2, PopProperties, LenProperties, MappingAssumption
  <1>4. worker' \in WorkerRecord /\ worker'.pc = "idle"
    BY <1>2 DEF WorkerRecord, IdleWorker
  <1>5. InFlight = {} /\ InFlight' = {}
    BY <1>1, <1>4 DEF InFlight
  <1>6. WorkerOK'
    BY <1>4, <1>5 DEF WorkerOK
  <1> QED
    BY <1>2, <1>3, <1>4, <1>5, <1>6, WorkerStep

\* Where a migration of type t starts, its block is in flight.
LEMMA StartFlight ==
  ASSUME worker \in WorkerRecord, worker.key \in Keys, NEW e \in Entries,
         NEW t \in {"PROMOTION", "DEMOTION", "WRITEBACK"}, start(t, e)
  PROVE  worker' \in WorkerRecord /\ InFlight' = {e} /\ worker'.type = t /\ WorkerOK'
  <1>1. /\ worker' \in WorkerRecord /\ worker'.blk = e /\ worker'.type = t
        /\ worker'.key = worker.key
        /\ worker'.pc = IF t = "DEMOTION" THEN "mg_trim" ELSE "mg_read"
    BY DEF start, WorkerRecord
  <1>2. InFlight' = {e}
    BY <1>1 DEF InFlight
  <1> QED
    BY <1>1, <1>2 DEF WorkerOK

LEMMA PromotionIInv ==
  ASSUME IInv, ~corrupt, promotion_free_to_clean
  PROVE  IInv'
  <1> DEFINE e == Head(free)
  <1>1. TypeOK /\ WorkerOK /\ ClientOK /\ Struct
    BY DEF IInv
  <1>2. /\ worker.pc = "promote" /\ free # <<>> /\ free' = Tail(free)
        /\ entry' = [entry EXCEPT ![e] = [key |-> worker.key, pending |-> TRUE,
                                          dirty |-> FALSE, alloc |-> TRUE]]
        /\ start("PROMOTION", e)
        /\ UNCHANGED <<clean, dirty, table, wq, client, corrupt>>
    BY DEF promotion_free_to_clean
  <1>3. /\ e \in Entries /\ e \in ToSet(free)
        /\ free' \in Seq(Entries) /\ IsInjective(free') /\ ToSet(free') = ToSet(free) \ {e}
    BY <1>1, <1>2, PopFree
  <1> HIDE DEF e
  <1>4. InFlight = {} /\ worker.key \in Keys /\ worker \in WorkerRecord
    BY <1>1, <1>2 DEF InFlight, WorkerOK, TypeOK
  <1>5. worker' \in WorkerRecord /\ InFlight' = {e} /\ worker'.type = "PROMOTION" /\ WorkerOK'
    BY <1>2, <1>3, <1>4, StartFlight
  <1>6. entry \in [Entries -> EntryRecord]
    BY <1>1 DEF TypeOK
  <1>7. /\ entry' \in [Entries -> EntryRecord]
        /\ \A f \in Entries : f # e => entry'[f] = entry[f]
        /\ entry'[e].alloc /\ entry'[e].pending
    BY <1>2, <1>3, <1>4, <1>6 DEF EntryRecord
  <1>8. e \notin ToSet(clean) /\ e \notin ToSet(dirty) /\ e \notin table
    BY <1>1, <1>3, WhereIs DEF Struct, Partition
  <1>9. Partition'
    BY <1>1, <1>2, <1>3, <1>4, <1>5, <1>8 DEF Struct, Partition
  <1>10. BitsMatchQueues'
    BY <1>1, <1>2, <1>3, <1>4, <1>5, <1>7, <1>8 DEF Struct, BitsMatchQueues
  <1>11. HashedIsAllocated'
    BY <1>1, <1>2, <1>4, <1>5, <1>7, <1>8 DEF Struct, HashedIsAllocated
  <1>12. TypeOK' /\ ClientOK'
    BY <1>1, <1>2, <1>3, <1>5, <1>7 DEF TypeOK, ClientOK
  <1> QED
    BY <1>5, <1>9, <1>10, <1>11, <1>12 DEF IInv, Struct

LEMMA DemotionIInv ==
  ASSUME IInv, ~corrupt, demotion_clean_to_free
  PROVE  IInv'
  <1> DEFINE e == Head(clean)
  <1>1. TypeOK /\ WorkerOK /\ ClientOK /\ Struct
    BY DEF IInv
  <1>2. /\ worker.pc = "demote" /\ demotable /\ clean' = l_del(clean, e)
        /\ entry' = [entry EXCEPT ![e].pending = TRUE]
        /\ start("DEMOTION", e)
        /\ UNCHANGED <<free, dirty, table, wq, client, corrupt>>
    BY DEF demotion_clean_to_free
  <1>3. clean \in Seq(Entries) /\ IsInjective(clean) /\ entry \in [Entries -> EntryRecord]
    BY <1>1 DEF TypeOK, Struct, Partition
  <1>4. clean # <<>>
    BY <1>2, MappingAssumption DEF demotable
  <1>5. e \in Entries /\ e \in ToSet(clean)
    BY <1>3, <1>4, PopProperties
  <1> HIDE DEF e
  <1>6. clean' \in Seq(Entries) /\ IsInjective(clean') /\ ToSet(clean') = ToSet(clean) \ {e}
    BY <1>2, <1>3, <1>5, DelProperties
  <1>7. InFlight = {} /\ worker.key \in Keys /\ worker \in WorkerRecord
    BY <1>1, <1>2 DEF InFlight, WorkerOK, TypeOK
  <1>8. worker' \in WorkerRecord /\ InFlight' = {e} /\ worker'.type = "DEMOTION" /\ WorkerOK'
    BY <1>2, <1>5, <1>7, StartFlight
  <1>9. /\ entry' \in [Entries -> EntryRecord] /\ entry'[e].pending
        /\ \A f \in Entries : /\ entry'[f].alloc = entry[f].alloc
                              /\ entry'[f].dirty = entry[f].dirty
                              /\ f # e => entry'[f].pending = entry[f].pending
    BY <1>2, <1>3, <1>5 DEF EntryRecord
  <1>10. e \notin ToSet(free) /\ e \notin ToSet(dirty)
    BY <1>1, <1>5 DEF Struct, Partition
  <1>11. Partition'
    BY <1>1, <1>2, <1>5, <1>6, <1>7, <1>8, <1>10 DEF Struct, Partition
  <1>12. BitsMatchQueues'
    BY <1>1, <1>2, <1>6, <1>7, <1>8, <1>9 DEF Struct, BitsMatchQueues
  <1>13. HashedIsAllocated'
    BY <1>1, <1>2, <1>7, <1>8, <1>9 DEF Struct, HashedIsAllocated
  <1>14. TypeOK' /\ ClientOK'
    BY <1>1, <1>2, <1>6, <1>8, <1>9 DEF TypeOK, ClientOK
  <1> QED
    BY <1>8, <1>11, <1>12, <1>13, <1>14 DEF IInv, Struct

LEMMA WritebackIInv ==
  ASSUME IInv, ~corrupt, writeback_dirty_to_clean
  PROVE  IInv'
  <1> DEFINE e == Head(dirty)
  <1>1. TypeOK /\ WorkerOK /\ ClientOK /\ Struct
    BY DEF IInv
  <1>2. /\ worker.pc = "writeback" /\ dirty # <<>> /\ dirty' = l_del(dirty, e)
        /\ entry' = [entry EXCEPT ![e].pending = TRUE, ![e].dirty = FALSE]
        /\ start("WRITEBACK", e)
        /\ UNCHANGED <<free, clean, table, wq, client, corrupt>>
    BY DEF writeback_dirty_to_clean, writable
  <1>3. dirty \in Seq(Entries) /\ IsInjective(dirty) /\ entry \in [Entries -> EntryRecord]
    BY <1>1 DEF TypeOK, Struct, Partition
  <1>4. e \in Entries /\ e \in ToSet(dirty)
    BY <1>2, <1>3, PopProperties
  <1> HIDE DEF e
  <1>5. dirty' \in Seq(Entries) /\ IsInjective(dirty') /\ ToSet(dirty') = ToSet(dirty) \ {e}
    BY <1>2, <1>3, <1>4, DelProperties
  <1>6. InFlight = {} /\ worker.key \in Keys /\ worker \in WorkerRecord
    BY <1>1, <1>2 DEF InFlight, WorkerOK, TypeOK
  <1>7. worker' \in WorkerRecord /\ InFlight' = {e} /\ worker'.type = "WRITEBACK" /\ WorkerOK'
    BY <1>2, <1>4, <1>6, StartFlight
  <1>8. /\ entry' \in [Entries -> EntryRecord] /\ entry'[e].pending
        /\ \A f \in Entries : /\ entry'[f].alloc = entry[f].alloc
                              /\ f # e => /\ entry'[f].dirty = entry[f].dirty
                                          /\ entry'[f].pending = entry[f].pending
    BY <1>2, <1>3, <1>4 DEF EntryRecord
  <1>9. e \notin ToSet(free) /\ e \notin ToSet(clean)
    BY <1>1, <1>4 DEF Struct, Partition
  <1>10. Partition'
    BY <1>1, <1>2, <1>4, <1>5, <1>6, <1>7, <1>9 DEF Struct, Partition
  <1>11. BitsMatchQueues'
    BY <1>1, <1>2, <1>5, <1>6, <1>7, <1>8, <1>9 DEF Struct, BitsMatchQueues
  <1>12. HashedIsAllocated'
    BY <1>1, <1>2, <1>6, <1>7, <1>8 DEF Struct, HashedIsAllocated
  <1>13. TypeOK' /\ ClientOK'
    BY <1>1, <1>2, <1>5, <1>7, <1>8 DEF TypeOK, ClientOK
  <1> QED
    BY <1>7, <1>10, <1>11, <1>12, <1>13 DEF IInv, Struct

\* The end of a migration takes the block out of the worker's hands.
LEMMA EndFlight ==
  ASSUME worker \in WorkerRecord, WorkerOK, worker.pc = "complete", goto("remove")
  PROVE  worker' \in WorkerRecord /\ InFlight' = {} /\ WorkerOK' /\ InFlight = {worker.blk}
         /\ worker.blk \in Entries
  <1>1. worker' \in WorkerRecord /\ worker'.pc = "remove" /\ worker'.key = worker.key
    BY DEF goto, WorkerRecord
  <1>2. InFlight' = {} /\ InFlight = {worker.blk}
    BY <1>1 DEF InFlight
  <1> QED
    BY <1>1, <1>2 DEF WorkerOK

\* The one bit that changes when the block goes back to a queue.
Unpended(pool, e) == [pool EXCEPT ![e].pending = FALSE]

LEMMA UnpendedBits ==
  ASSUME NEW pool \in [Entries -> EntryRecord], NEW e \in Entries
  PROVE  /\ Unpended(pool, e) \in [Entries -> EntryRecord] /\ ~Unpended(pool, e)[e].pending
         /\ \A f \in Entries : /\ Unpended(pool, e)[f].alloc = pool[f].alloc
                               /\ Unpended(pool, e)[f].dirty = pool[f].dirty
                               /\ f # e => Unpended(pool, e)[f] = pool[f]
  BY DEF EntryRecord, Unpended

\* The block goes back to a queue.
LEMMA LandIInv ==
  ASSUME IInv, ~corrupt, NEW e \in Entries, e = worker.blk, worker.pc = "complete",
         unpend(e), add_tail(e) \/ add_head(e), table' = table \cup {e}, goto("remove"),
         UNCHANGED <<free, wq, client, corrupt>>
  PROVE  IInv'
  <1>1. TypeOK /\ WorkerOK /\ ClientOK /\ Struct
    BY DEF IInv
  <1>2. /\ clean \in Seq(Entries) /\ IsInjective(clean) /\ dirty \in Seq(Entries)
        /\ IsInjective(dirty) /\ entry \in [Entries -> EntryRecord] /\ worker \in WorkerRecord
    BY <1>1 DEF TypeOK, Struct, Partition
  <1>3. worker' \in WorkerRecord /\ InFlight' = {} /\ WorkerOK' /\ InFlight = {e}
    BY <1>1, <1>2, EndFlight
  <1>4. e \notin ToSet(free) /\ e \notin ToSet(clean) /\ e \notin ToSet(dirty)
    BY <1>1, <1>3 DEF Struct, Partition
  <1>5. /\ clean' \in Seq(Entries) /\ IsInjective(clean')
        /\ ToSet(clean') = IF entry[e].dirty THEN ToSet(clean) ELSE ToSet(clean) \cup {e}
        /\ dirty' \in Seq(Entries) /\ IsInjective(dirty')
        /\ ToSet(dirty') = IF entry[e].dirty THEN ToSet(dirty) \cup {e} ELSE ToSet(dirty)
    <2>1. ASSUME NEW s \in Seq(Entries), IsInjective(s), e \notin ToSet(s),
                 NEW u, u = Append(s, e) \/ u = <<e>> \o s
          PROVE  u \in Seq(Entries) /\ IsInjective(u) /\ ToSet(u) = ToSet(s) \cup {e}
      <3>1. CASE u = Append(s, e)
        BY <2>1, <3>1, AddTailProperties
      <3>2. CASE u = <<e>> \o s
        BY <2>1, <3>2, AddHeadProperties
      <3> QED
        BY <2>1, <3>1, <3>2
    <2>2. CASE entry[e].dirty
      <3>1. clean' = clean /\ (dirty' = Append(dirty, e) \/ dirty' = <<e>> \o dirty)
        BY <2>2 DEF add_tail, add_head
      <3>2. dirty' \in Seq(Entries) /\ IsInjective(dirty') /\ ToSet(dirty') = ToSet(dirty) \cup {e}
        BY <1>2, <1>4, <2>1, <3>1
      <3> QED
        BY <1>2, <2>2, <3>1, <3>2
    <2>3. CASE ~entry[e].dirty
      <3>1. dirty' = dirty /\ (clean' = Append(clean, e) \/ clean' = <<e>> \o clean)
        BY <2>3 DEF add_tail, add_head
      <3>2. clean' \in Seq(Entries) /\ IsInjective(clean') /\ ToSet(clean') = ToSet(clean) \cup {e}
        BY <1>2, <1>4, <2>1, <3>1
      <3> QED
        BY <1>2, <2>3, <3>1, <3>2
    <2> QED
      BY <2>2, <2>3
  <1>6. /\ entry' \in [Entries -> EntryRecord] /\ ~entry'[e].pending
        /\ \A f \in Entries : /\ entry'[f].alloc = entry[f].alloc
                              /\ entry'[f].dirty = entry[f].dirty
                              /\ f # e => entry'[f].pending = entry[f].pending
    <2>1. entry' = Unpended(entry, e)
      BY DEF unpend, Unpended
    <2> QED
      BY <1>2, <2>1, UnpendedBits
  <1>7. entry[e].alloc
    BY <1>1, <1>4, WhereIs
  <1>8. Partition'
    BY <1>1, <1>3, <1>4, <1>5 DEF Struct, Partition
  <1>9. BitsMatchQueues'
    BY <1>1, <1>3, <1>4, <1>5, <1>6 DEF Struct, BitsMatchQueues
  <1>10. HashedIsAllocated'
    BY <1>1, <1>3, <1>6, <1>7 DEF Struct, HashedIsAllocated
  <1>11. TypeOK' /\ ClientOK'
    BY <1>1, <1>3, <1>5, <1>6 DEF TypeOK, ClientOK
  <1> QED
    BY <1>3, <1>8, <1>9, <1>10, <1>11 DEF IInv, Struct

\* The two bits that a release clears, and nothing else, change in the pool.
Released(pool, e) == [pool EXCEPT ![e].pending = FALSE, ![e].alloc = FALSE]

LEMMA ReleasedBits ==
  ASSUME NEW pool \in [Entries -> EntryRecord], NEW e \in Entries
  PROVE  /\ Released(pool, e) \in [Entries -> EntryRecord]
         /\ ~Released(pool, e)[e].pending /\ ~Released(pool, e)[e].alloc
         /\ \A f \in Entries :
              /\ Released(pool, e)[f].dirty = pool[f].dirty
              /\ f # e => /\ Released(pool, e)[f].alloc = pool[f].alloc
                          /\ Released(pool, e)[f].pending = pool[f].pending
  <1> DEFINE half == [pool EXCEPT ![e].pending = FALSE]
             whole(h) == [h EXCEPT ![e].alloc = FALSE]
  <1>1. /\ half \in [Entries -> EntryRecord] /\ ~half[e].pending
        /\ \A f \in Entries : /\ half[f].dirty = pool[f].dirty
                              /\ f # e => half[f] = pool[f]
    BY DEF EntryRecord
  <1>2. ASSUME NEW h \in [Entries -> EntryRecord]
        PROVE  /\ whole(h) \in [Entries -> EntryRecord]
               /\ ~whole(h)[e].alloc /\ whole(h)[e].pending = h[e].pending
               /\ \A f \in Entries : /\ whole(h)[f].dirty = h[f].dirty
                                     /\ f # e => whole(h)[f] = h[f]
    BY DEF EntryRecord
  <1>3. Released(pool, e) = whole(half)
    BY DEF Released
  <1> HIDE DEF half, whole
  <1> QED
    BY <1>1, <1>2, <1>3

\* The block becomes free.
LEMMA ReleaseIInv ==
  ASSUME IInv, ~corrupt, NEW e \in Entries, e = worker.blk, worker.pc = "complete",
         entry' = Released(entry, e),
         free' = Append(free, e), table' = table \ {e}, goto("remove"),
         UNCHANGED <<clean, dirty, wq, client, corrupt>>
  PROVE  IInv'
  <1>1. TypeOK /\ WorkerOK /\ ClientOK /\ Struct
    BY DEF IInv
  <1>2. /\ free \in Seq(Entries) /\ IsInjective(free)
        /\ entry \in [Entries -> EntryRecord] /\ worker \in WorkerRecord
    BY <1>1 DEF TypeOK, Struct, Partition
  <1>3. worker' \in WorkerRecord /\ InFlight' = {} /\ WorkerOK' /\ InFlight = {e}
    BY <1>1, <1>2, EndFlight
  <1>4. e \notin ToSet(free) /\ e \notin ToSet(clean) /\ e \notin ToSet(dirty)
    BY <1>1, <1>3 DEF Struct, Partition
  <1>5. free' \in Seq(Entries) /\ IsInjective(free') /\ ToSet(free') = ToSet(free) \cup {e}
    BY <1>2, <1>4, AddTailProperties
  <1>6. /\ entry' \in [Entries -> EntryRecord] /\ ~entry'[e].pending /\ ~entry'[e].alloc
        /\ \A f \in Entries : /\ entry'[f].dirty = entry[f].dirty
                              /\ f # e => /\ entry'[f].alloc = entry[f].alloc
                                          /\ entry'[f].pending = entry[f].pending
    BY <1>2, ReleasedBits
  <1>7. Partition'
    BY <1>1, <1>3, <1>4, <1>5 DEF Struct, Partition
  <1>8. BitsMatchQueues'
    BY <1>1, <1>3, <1>4, <1>5, <1>6 DEF Struct, BitsMatchQueues
  <1>9. HashedIsAllocated'
    BY <1>1, <1>3, <1>6 DEF Struct, HashedIsAllocated
  <1>10. TypeOK' /\ ClientOK'
    BY <1>1, <1>3, <1>5, <1>6 DEF TypeOK, ClientOK
  <1> QED
    BY <1>3, <1>7, <1>8, <1>9, <1>10 DEF IInv, Struct

LEMMA CompleteIInv ==
  ASSUME IInv, ~corrupt, promotion_complete \/ demotion_complete \/ writeback_complete
  PROVE  IInv'
  <1> DEFINE e == worker.blk
  <1>1. TypeOK /\ WorkerOK /\ Struct
    BY DEF IInv
  <1>2. worker.pc = "complete" /\ goto("remove") /\ UNCHANGED <<wq, client, corrupt>>
    BY DEF promotion_complete, demotion_complete, writeback_complete, completes
  <1>3. InFlight = {e} /\ e \in Entries
    BY <1>1, <1>2, EndFlight DEF TypeOK
  <1>4. e \in table <=> worker.type # "PROMOTION"
    BY <1>1, <1>3, WhereIs DEF Struct, HashedIsAllocated, Partition
  <1>5. CASE promotion_complete /\ worker.ok
    BY <1>2, <1>3, <1>5, LandIInv DEF promotion_complete
  <1>6. CASE promotion_complete /\ ~worker.ok
    <2>1. table' = table \ {e}
      BY <1>4, <1>6 DEF promotion_complete, completes
    <2> QED
      BY <1>2, <1>3, <1>6, <2>1, ReleaseIInv DEF promotion_complete, Released
  <1>7. CASE demotion_complete
    BY <1>2, <1>3, <1>7, ReleaseIInv DEF demotion_complete, Released
  <1>8. CASE writeback_complete
    <2>1. table' = table \cup {e}
      BY <1>4, <1>8 DEF writeback_complete, completes
    <2> QED
      BY <1>2, <1>3, <1>8, <2>1, LandIInv DEF writeback_complete
  <1> QED
    BY <1>5, <1>6, <1>7, <1>8

-----------------------------------------------------------------------------
LEMMA StepIInv == IInv /\ [Next]_vars => IInv'
  <1> SUFFICES ASSUME IInv, [Next]_vars PROVE IInv'
    OBVIOUS
  <1>1. CASE ~corrupt /\ Migrate
    BY <1>1, PeakIInv, PromotionIInv, DemotionIInv, WritebackIInv, RefusedIInv, CopyIInv,
       CompleteIInv, RemoveWorkIInv DEF Migrate
  <1>2. ASSUME ~corrupt, NEW c \in Clients, Request(c) PROVE IInv'
    <2>1. PICK k \in Keys :
            \/ \E op \in Ops : LookupHit(c, op, k) \/ LookupMiss(c, op, k)
            \/ InsertQueued(c, k) \/ InsertNoRoom(c, k) \/ InsertDirty(c, k)
      BY <1>2 DEF Request
    <2>2. CASE \E op \in Ops : LookupHit(c, op, k)
      BY <1>2, <2>2, HitIInv
    <2>3. CASE \E op \in Ops : LookupMiss(c, op, k)
      BY <2>3, MissIInv
    <2>4. CASE InsertQueued(c, k) \/ InsertNoRoom(c, k)
      <3>1. "OVERWRITE" \in Ops
        BY <2>4 DEF InsertQueued, InsertNoRoom, InsertMiss
      <3> QED
        BY <2>4, <3>1, MissIInv
    <2>5. CASE InsertDirty(c, k)
      BY <1>2, <2>5, InsertDirtyIInv
    <2> QED
      BY <2>1, <2>2, <2>3, <2>4, <2>5
  <1>3. ASSUME ~corrupt, NEW c \in Clients, Proceed(c) PROVE IInv'
    BY <1>3, ClientIOIInv, SetDirtyIInv DEF Proceed
  <1>4. ASSUME ~corrupt, NEW k \in Keys, remove_mapping(k) PROVE IInv'
    BY <1>4, DiscardIInv
  <1>5. CASE UNCHANGED vars
    <2>1. InFlight' = InFlight /\ UNCHANGED <<entry, lists, table, wq, worker, client, corrupt>>
      BY <1>5 DEF vars, InFlight
    <2>2. IInv
      OBVIOUS
    <2> QED
      BY <2>1, <2>2, UserStep DEF IInv, TypeOK, ClientOK
  <1> QED
    BY <1>1, <1>2, <1>3, <1>4, <1>5 DEF Next

LEMMA SpecIInv == Spec => []IInv
  BY InitIInv, StepIInv, PTL DEF Spec

\* Every variable keeps its type, for any number of blocks, keys and users and
\* with every kind of request.
THEOREM TypeCorrect == Spec => []TypeOK
  BY SpecIInv, PTL DEF IInv

-----------------------------------------------------------------------------
(* The keys: no cache page has two blocks.  The argument is the work queue:  *)
(* a queued key is not cached, the worker promotes only the oldest queued    *)
(* key, and the users insert only keys that are not queued.                  *)

\* The block being promoted carries the key being promoted.
PromotingKey ==
  worker.pc \in {"mg_read", "mg_write", "complete"} /\ worker.type = "PROMOTION" =>
    entry[worker.blk].key = worker.key

KInv == IsInjective(wq) /\ PromotingKey /\ QueuedIsNotCached /\ UniqueKeys

LEMMA QueuedSet == WQ!Queued = ToSet(wq)
  BY DEF WQ!Queued, ToSet

LEMMA LookupSet ==
  ASSUME NEW k
  PROVE  h_lookup(k) # {} <=> \E e \in table : entry[e].key = k
  BY DEF h_lookup

\* Removing entries from the table, or changing anything else but keys and the
\* queue, keeps the keys in order.
LEMMA KeysKept ==
  ASSUME KInv, table' \subseteq table, \A e \in table' : entry'[e].key = entry[e].key,
         UNCHANGED wq, worker'.key = worker.key,
         worker.pc = "remove" => worker'.pc = "remove",
         worker'.pc # "idle" => worker.pc # "idle", PromotingKey'
  PROVE  KInv'
  <1>1. UniqueKeys'
    BY DEF KInv, UniqueKeys
  <1>2. ASSUME NEW k \in WQ!Queued', h_lookup(k)' # {}
        PROVE  worker'.pc = "remove" /\ k = worker'.key
    <2>1. k \in WQ!Queued
      BY <1>2 DEF WQ!Queued
    <2>2. h_lookup(k) # {}
      BY <1>2 DEF h_lookup
    <2> QED
      BY <2>1, <2>2 DEF KInv, QueuedIsNotCached
  <1>3. worker'.pc # "idle" => wq' # <<>> /\ Head(wq') = worker'.key
    BY DEF KInv, QueuedIsNotCached
  <1>4. QueuedIsNotCached'
    BY <1>2, <1>3 DEF QueuedIsNotCached
  <1> QED
    BY <1>1, <1>4 DEF KInv

\* Queueing a key that is not cached.
LEMMA QueueKInv ==
  ASSUME KInv, wq \in Seq(Keys), NEW k \in Keys, h_lookup(k) = {}, insert_work(k),
         UNCHANGED <<entry, table, worker>>
  PROVE  KInv'
  <1>1. CASE UNCHANGED wq
    BY <1>1, KeysKept DEF KInv, PromotingKey
  <1>2. CASE WQ!Insert(k)
    <2>1. wq' = Append(wq, k) /\ k \notin ToSet(wq)
      BY <1>2, QueuedSet DEF WQ!Insert, WQ!Accepts
    <2>2. IsInjective(wq') /\ ToSet(wq') = ToSet(wq) \cup {k}
      BY <2>1, AddTailProperties DEF KInv
    <2>3. wq # <<>> => wq' # <<>> /\ Head(wq') = Head(wq)
      BY <2>1, HeadTailAppend, AppendProperties
    <2>4. WQ!Queued' = WQ!Queued \cup {k}
      BY <2>2, QueuedSet DEF WQ!Queued, ToSet
    <2>5. \A j : h_lookup(j)' = h_lookup(j)
      BY DEF h_lookup
    <2>6. QueuedIsNotCached'
      BY <2>3, <2>4, <2>5 DEF KInv, QueuedIsNotCached
    <2>7. UniqueKeys' /\ PromotingKey'
      BY DEF KInv, UniqueKeys, PromotingKey
    <2> QED
      BY <2>2, <2>6, <2>7 DEF KInv
  <1> QED
    BY <1>1, <1>2 DEF insert_work

\* Caching a key that is neither cached nor queued by anybody else.
LEMMA CacheKInv ==
  ASSUME KInv, TypeOK, NEW e \in Entries, e \notin table, NEW k, h_lookup(k) = {},
         table' = table \cup {e}, entry'[e].key = k,
         \A f \in table : entry'[f].key = entry[f].key, UNCHANGED wq,
         worker'.key = worker.key, worker.pc = "remove" => worker'.pc = "remove",
         worker'.pc # "idle" => worker.pc # "idle", PromotingKey',
         k \in WQ!Queued => worker'.pc = "remove" /\ k = worker.key
  PROVE  KInv'
  <1>1. UniqueKeys'
    BY LookupSet DEF KInv, UniqueKeys
  <1>2. ASSUME NEW j \in WQ!Queued', h_lookup(j)' # {}
        PROVE  worker'.pc = "remove" /\ j = worker'.key
    <2>1. j \in WQ!Queued
      BY <1>2 DEF WQ!Queued
    <2>2. PICK f \in table' : entry'[f].key = j
      BY <1>2 DEF h_lookup
    <2>3. CASE f = e
      BY <2>1, <2>2, <2>3
    <2>4. CASE f \in table
      BY <2>1, <2>2, <2>4, LookupSet DEF KInv, QueuedIsNotCached
    <2> QED
      BY <2>2, <2>3, <2>4
  <1>3. worker'.pc # "idle" => wq' # <<>> /\ Head(wq') = worker'.key
    BY DEF KInv, QueuedIsNotCached
  <1>4. QueuedIsNotCached'
    BY <1>2, <1>3 DEF QueuedIsNotCached
  <1> QED
    BY <1>1, <1>4 DEF KInv

LEMMA InitKInv == Init => KInv
  <1> SUFFICES ASSUME Init PROVE KInv
    OBVIOUS
  <1>1. wq = <<>> /\ table = {} /\ worker.pc = "idle"
    BY DEF Init, IdleWorker
  <1>2. WQ!Queued = {} /\ IsInjective(wq)
    BY <1>1 DEF WQ!Queued, IsInjective
  <1> QED
    BY <1>1, <1>2 DEF KInv, PromotingKey, QueuedIsNotCached, UniqueKeys

LEMMA RequestKInv ==
  ASSUME IInv, KInv, ~corrupt, NEW c \in Clients, Request(c)
  PROVE  KInv'
  <1>1. TypeOK /\ WorkerOK /\ Struct /\ wq \in Seq(Keys) /\ table \subseteq Entries
    BY DEF IInv, TypeOK
  <1>2. PICK k \in Keys :
          \/ \E op \in Ops : LookupHit(c, op, k) \/ LookupMiss(c, op, k)
          \/ InsertQueued(c, k) \/ InsertNoRoom(c, k) \/ InsertDirty(c, k)
    BY DEF Request
  <1>3. CASE UNCHANGED <<entry, table, wq, worker>>
    BY <1>3, KeysKept DEF KInv, PromotingKey
  <1>4. CASE (\E op \in Ops : LookupMiss(c, op, k)) \/ InsertNoRoom(c, k)
    BY <1>1, <1>4, QueueKInv DEF LookupMiss, InsertNoRoom, InsertMiss
  <1>5. CASE InsertDirty(c, k)
    <2> DEFINE e == Head(free)
    <2>1. /\ free # <<>> /\ free' = Tail(free) /\ table' = table \cup {e} /\ h_lookup(k) = {}
          /\ entry' = [entry EXCEPT ![e] =
                         [key |-> k, pending |-> FALSE, dirty |-> TRUE, alloc |-> TRUE]]
          /\ UNCHANGED <<wq, worker>> /\ ~contains_work(k)
      BY <1>5 DEF InsertDirty, insert_dirty, InsertMiss
    <2>2. e \in Entries /\ e \in ToSet(free)
      BY <1>1, <2>1, PopFree
    <2> HIDE DEF e
    <2>3. e \notin table /\ e \notin InFlight
      BY <1>1, <2>2, WhereIs DEF Struct, Partition
    <2>4. entry \in [Entries -> EntryRecord]
      BY <1>1 DEF TypeOK
    <2>5. entry'[e].key = k /\ \A f \in Entries : f # e => entry'[f] = entry[f]
      BY <2>1, <2>2, <2>4
    <2>6. k \notin WQ!Queued
      BY <2>1 DEF contains_work
    <2>7. PromotingKey'
      <3>1. worker.pc \in {"mg_read", "mg_write", "complete"} => worker.blk \in Entries \ {e}
        BY <1>1, <2>3 DEF WorkerOK, InFlight
      <3> QED
        BY <2>1, <2>5, <3>1 DEF KInv, PromotingKey
    <2> QED
      BY <1>1, <2>1, <2>2, <2>3, <2>5, <2>6, <2>7, CacheKInv
  <1> QED
    BY <1>2, <1>3, <1>4, <1>5 DEF LookupHit, InsertQueued

LEMMA ProceedKInv ==
  ASSUME IInv, KInv, ~corrupt, NEW c \in Clients, Proceed(c)
  PROVE  KInv'
  <1>1. CASE CacheIO(c) \/ OriginIO(c)
    BY <1>1, KeysKept DEF CacheIO, OriginIO, KInv, PromotingKey
  <1>2. CASE set_dirty_after_write(c)
    <2>1. entry \in [Entries -> EntryRecord] /\ client[c].blk \in Entries /\ WorkerOK
          /\ table \subseteq Entries
      BY <1>2 DEF IInv, TypeOK, ClientOK, set_dirty_after_write
    <2>2. UNCHANGED <<table, wq, worker>>
      BY <1>2 DEF set_dirty_after_write
    <2>3. \A f \in Entries : entry'[f].key = entry[f].key
      BY <1>2, <2>1 DEF set_dirty_after_write, mark_dirty, EntryRecord
    <2>4. PromotingKey'
      BY <2>1, <2>2, <2>3 DEF KInv, PromotingKey, WorkerOK, InFlight
    <2> QED
      BY <2>1, <2>2, <2>3, <2>4, KeysKept
  <1> QED
    BY <1>1, <1>2 DEF Proceed

LEMMA DiscardKInv ==
  ASSUME IInv, KInv, ~corrupt, NEW k \in Keys, remove_mapping(k)
  PROVE  KInv'
  <1>1. entry \in [Entries -> EntryRecord] /\ table \subseteq Entries /\ WorkerOK
    BY DEF IInv, TypeOK
  <1>2. PICK e \in table : table' = table \ {e} /\ entry' = [entry EXCEPT ![e].alloc = FALSE]
    BY DEF remove_mapping, h_lookup
  <1>3. \A f \in Entries : entry'[f].key = entry[f].key
    BY <1>1, <1>2 DEF EntryRecord
  <1>4. UNCHANGED <<wq, worker>>
    BY DEF remove_mapping
  <1>5. PromotingKey'
    BY <1>1, <1>3, <1>4 DEF KInv, PromotingKey, WorkerOK, InFlight
  <1> QED
    BY <1>1, <1>2, <1>3, <1>4, <1>5, KeysKept

LEMMA MigrateKInv ==
  ASSUME IInv, KInv, ~corrupt, Migrate
  PROVE  KInv'
  <1>1. TypeOK /\ WorkerOK /\ Struct /\ wq \in Seq(Keys) /\ table \subseteq Entries
        /\ worker \in WorkerRecord /\ entry \in [Entries -> EntryRecord]
    BY DEF IInv, TypeOK
  <1>2. CASE peak_work
    <2>1. /\ worker.pc = "idle" /\ wq # <<>> /\ UNCHANGED <<entry, table, wq>>
          /\ worker'.pc = "promote" /\ worker'.key = Head(wq)
      BY <1>1, <1>2 DEF peak_work, WorkerRecord
    <2>2. WQ!Queued' = WQ!Queued /\ \A j : h_lookup(j)' = h_lookup(j)
      BY <2>1 DEF WQ!Queued, h_lookup
    <2>3. QueuedIsNotCached'
      BY <2>1, <2>2 DEF KInv, QueuedIsNotCached
    <2>4. UniqueKeys' /\ PromotingKey'
      BY <2>1 DEF KInv, UniqueKeys, PromotingKey
    <2> QED
      BY <2>1, <2>3, <2>4 DEF KInv
  <1>3. CASE PromotionRefused \/ DemotionRefused \/ WritebackRefused
    <2>1. /\ UNCHANGED <<entry, table, wq>> /\ worker'.key = worker.key
          /\ worker.pc \in {"promote", "demote", "writeback"}
          /\ worker'.pc \in {"demote", "writeback", "remove"}
      BY <1>1, <1>3 DEF PromotionRefused, DemotionRefused, WritebackRefused, goto, WorkerRecord
    <2> QED
      BY <2>1, KeysKept DEF PromotingKey
  <1>4. CASE MgRead \/ MgWrite \/ MgTrim
    <2>1. /\ UNCHANGED <<entry, table, wq>> /\ worker'.key = worker.key
          /\ worker'.blk = worker.blk /\ worker'.type = worker.type
          /\ worker'.pc \in {"mg_write", "complete"}
      BY <1>1, <1>4 DEF MgRead, MgWrite, MgTrim, goto, WorkerRecord
    <2>2. \/ worker.pc \in {"mg_read", "mg_write"}
          \/ worker.pc = "mg_trim" /\ worker.type = "DEMOTION"
      BY <1>1, <1>4 DEF MgRead, MgWrite, MgTrim, WorkerOK
    <2> QED
      BY <2>1, <2>2, KeysKept DEF KInv, PromotingKey
  <1>5. CASE promotion_free_to_clean
    <2> DEFINE e == Head(free)
    <2>1. /\ worker.pc = "promote" /\ free # <<>> /\ free' = Tail(free)
          /\ entry' = [entry EXCEPT ![e] = [key |-> worker.key, pending |-> TRUE,
                                            dirty |-> FALSE, alloc |-> TRUE]]
          /\ start("PROMOTION", e)
          /\ UNCHANGED <<table, wq>>
      BY <1>5 DEF promotion_free_to_clean
    <2>2. e \in Entries /\ e \in ToSet(free)
      BY <1>1, <2>1, PopFree
    <2> HIDE DEF e
    <2>3. e \notin table
      BY <1>1, <2>2, WhereIs
    <2>4. entry'[e].key = worker.key /\ \A f \in Entries : f # e => entry'[f] = entry[f]
      BY <1>1, <2>1, <2>2
    <2>5. worker'.key = worker.key /\ worker'.blk = e /\ worker'.pc = "mg_read"
      BY <1>1, <2>1 DEF start, WorkerRecord
    <2>6. PromotingKey'
      BY <2>4, <2>5 DEF PromotingKey
    <2> QED
      BY <1>1, <2>1, <2>3, <2>4, <2>5, <2>6, KeysKept
  <1>6. CASE demotion_clean_to_free \/ writeback_dirty_to_clean
    <2>1. PICK t \in {"DEMOTION", "WRITEBACK"} : \E e : start(t, e)
      BY <1>6 DEF demotion_clean_to_free, writeback_dirty_to_clean
    <2>2. /\ UNCHANGED <<table, wq>> /\ worker.pc \in {"demote", "writeback"}
          /\ \A f \in Entries : entry'[f].key = entry[f].key
      BY <1>1, <1>6 DEF demotion_clean_to_free, writeback_dirty_to_clean, EntryRecord
    <2>3. worker'.key = worker.key /\ worker'.type = t
      BY <1>1, <2>1 DEF start, WorkerRecord
    <2> QED
      BY <1>1, <2>2, <2>3, KeysKept DEF PromotingKey
  <1>7. CASE promotion_complete \/ demotion_complete \/ writeback_complete
    <2> DEFINE e == worker.blk
    <2>1. /\ worker.pc = "complete" /\ goto("remove") /\ UNCHANGED wq
          /\ \A f \in Entries : entry'[f].key = entry[f].key
      BY <1>1, <1>7 DEF promotion_complete, demotion_complete, writeback_complete, completes,
                        unpend, EntryRecord
    <2>2. worker'.key = worker.key /\ worker'.pc = "remove"
      BY <1>1, <2>1 DEF goto, WorkerRecord
    <2>3. PromotingKey'
      BY <2>2 DEF PromotingKey
    <2>4. CASE promotion_complete /\ worker.ok
      <3>1. InFlight = {e} /\ e \in Entries /\ worker.type = "PROMOTION" /\ table' = table \cup {e}
        BY <1>1, <2>1, <2>4, EndFlight DEF promotion_complete, completes
      <3>2. e \notin table
        BY <1>1, <3>1 DEF Struct, HashedIsAllocated
      <3>3. entry'[e].key = worker.key
        BY <2>1, <3>1 DEF KInv, PromotingKey
      <3>4. worker.key \in WQ!Queued
        <4>1. wq # <<>> /\ Head(wq) = worker.key
          BY <2>1 DEF KInv, QueuedIsNotCached
        <4> QED
          BY <1>1, <4>1, QueuedSet, PopProperties
      <3>5. h_lookup(worker.key) = {}
        BY <2>1, <3>4 DEF KInv, QueuedIsNotCached
      <3> QED
        BY <1>1, <2>1, <2>2, <2>3, <3>1, <3>2, <3>3, <3>5, CacheKInv
    <2>5. CASE table' \subseteq table
      BY <1>1, <2>1, <2>2, <2>3, <2>5, KeysKept
    <2> QED
      BY <1>7, <2>4, <2>5 DEF promotion_complete, demotion_complete, writeback_complete
  <1>8. CASE remove_work
    <2>1. /\ wq # <<>> /\ wq' = Tail(wq) /\ worker'.pc = "idle" /\ worker.pc = "remove"
          /\ UNCHANGED <<entry, table>>
      BY <1>8 DEF remove_work, WQ!Remove, IdleWorker
    <2>2. IsInjective(wq') /\ ToSet(wq') = ToSet(wq) \ {Head(wq)} /\ Head(wq) = worker.key
      BY <1>1, <2>1, PopProperties DEF KInv, QueuedIsNotCached
    <2>3. WQ!Queued' = ToSet(wq') /\ \A j : h_lookup(j)' = h_lookup(j)
      BY <2>1 DEF WQ!Queued, ToSet, h_lookup
    <2>4. QueuedIsNotCached'
      BY <2>1, <2>2, <2>3, QueuedSet DEF KInv, QueuedIsNotCached
    <2>5. UniqueKeys' /\ PromotingKey'
      BY <2>1 DEF KInv, UniqueKeys, PromotingKey
    <2> QED
      BY <2>2, <2>4, <2>5 DEF KInv
  <1> QED
    BY <1>2, <1>3, <1>4, <1>5, <1>6, <1>7, <1>8 DEF Migrate

LEMMA StepKInv == IInv /\ KInv /\ [Next]_vars => KInv'
  <1> SUFFICES ASSUME IInv, KInv, [Next]_vars PROVE KInv'
    OBVIOUS
  <1>1. CASE UNCHANGED vars
    BY <1>1, KeysKept DEF vars, KInv, PromotingKey
  <1> QED
    BY <1>1, RequestKInv, ProceedKInv, DiscardKInv, MigrateKInv DEF Next

LEMMA SpecKInv == Spec => [](IInv /\ KInv)
  BY InitIInv, InitKInv, StepIInv, StepKInv, PTL DEF Spec

-----------------------------------------------------------------------------
\* No cache page ever has two blocks, whoever inserts and whatever is discarded.
THEOREM KeysUnique == Spec => []UniqueKeys
  BY SpecKInv, PTL DEF KInv

\* What the work queue protects: a key waiting for its promotion is not cached.
THEOREM QueuedNotCached == Spec => []QueuedIsNotCached
  BY SpecKInv, PTL DEF KInv

\* Where the lists have not been misused the table is well formed: each block is
\* in exactly one place, its bits say which, the hash table holds what it should.
THEOREM StructureIntact == Spec => []Intact
  BY SpecKInv, PTL DEF IInv, KInv, Struct, Intact

\* The only step that misuses a list is a DISCARD of a block that the worker is
\* demoting or writing back.
THEOREM OnlyDiscardCorrupts == Spec => OnlyInFlightDiscardCorrupts
  <1>1. ASSUME IInv, [Next]_vars
        PROVE  [corrupt' # corrupt =>
                  /\ worker.type \in {"DEMOTION", "WRITEBACK"}
                  /\ worker.blk \in InFlight \cap table
                  /\ worker.blk \notin table']_vars
    <2> SUFFICES ASSUME Next, corrupt' # corrupt
                 PROVE  /\ worker.type \in {"DEMOTION", "WRITEBACK"}
                        /\ worker.blk \in InFlight \cap table
                        /\ worker.blk \notin table'
      BY <1>1
    <2>1. ~corrupt /\ TypeOK /\ WorkerOK /\ Struct
      BY <1>1 DEF IInv, Next
    <2>2. ~Migrate
      BY DEF Migrate, peak_work, promotion_free_to_clean, PromotionRefused,
             demotion_clean_to_free, DemotionRefused, writeback_dirty_to_clean,
             WritebackRefused, MgRead, MgWrite, MgTrim, promotion_complete,
             demotion_complete, writeback_complete, remove_work
    <2>3. \A c \in Clients : ~Request(c) /\ ~Proceed(c)
      BY DEF Request, Proceed, LookupHit, LookupMiss, InsertQueued, InsertNoRoom, InsertDirty,
             insert_dirty, CacheIO, OriginIO, set_dirty_after_write
    <2>4. PICK k \in Keys : remove_mapping(k)
      BY <2>2, <2>3 DEF Next
    <2>5. PICK e \in table : table' = table \ {e} /\ e \notin ToSet(queue_of(e))
      BY <2>4 DEF remove_mapping, h_lookup
    <2>6. e \in Entries
      BY <2>1, <2>5 DEF TypeOK
    <2>7. e \in InFlight
      BY <2>1, <2>5, <2>6, WhereIs DEF queue_of
    <2>8. e = worker.blk /\ worker.pc \in {"mg_read", "mg_write", "mg_trim", "complete"}
      BY <2>7 DEF InFlight
    <2>9. worker.type # "PROMOTION"
      BY <2>1, <2>5, <2>7 DEF Struct, HashedIsAllocated
    <2> QED
      BY <2>1, <2>5, <2>7, <2>8, <2>9 DEF WorkerOK
  <1> QED
    BY <1>1, SpecIInv, PTL DEF Spec, OnlyInFlightDiscardCorrupts

\* Without DISCARD the lists are never misused...
LEMMA NeverCorrupt ==
  ASSUME "DISCARD" \notin Ops
  PROVE  Spec => []~corrupt
  <1>1. Init => ~corrupt
    BY DEF Init
  <1>2. ~corrupt /\ [Next]_vars => ~corrupt'
    <2> SUFFICES ASSUME ~corrupt, [Next]_vars PROVE ~corrupt'
      OBVIOUS
    <2>1. CASE Migrate
      BY <2>1 DEF Migrate, peak_work, promotion_free_to_clean, PromotionRefused,
             demotion_clean_to_free, DemotionRefused, writeback_dirty_to_clean,
             WritebackRefused, MgRead, MgWrite, MgTrim, promotion_complete,
             demotion_complete, writeback_complete, remove_work
    <2>2. CASE \E c \in Clients : Request(c) \/ Proceed(c)
      BY <2>2 DEF Request, Proceed, LookupHit, LookupMiss, InsertQueued, InsertNoRoom,
             InsertDirty, insert_dirty, CacheIO, OriginIO, set_dirty_after_write
    <2>3. CASE \E k \in Keys : remove_mapping(k)
      BY <2>3 DEF remove_mapping
    <2>4. CASE UNCHANGED vars
      BY <2>4 DEF vars
    <2> QED
      BY <2>1, <2>2, <2>3, <2>4 DEF Next
  <1> QED
    BY <1>1, <1>2, PTL DEF Spec

\* ... so every block is always in exactly one place...
THEOREM BlocksPartitioned ==
  ASSUME "DISCARD" \notin Ops
  PROVE  Spec => [](Partition /\ BitsMatchQueues /\ HashedIsAllocated)
  BY NeverCorrupt, SpecIInv, PTL DEF IInv, Struct

\* Without DISCARD, the bits by which lookup_mapping and set_dirty_after_write choose
\* a queue (mapping.c:583, 660-665) always name the queue that the block is on.
THEOREM BitsNameTheQueue ==
  ASSUME "DISCARD" \notin Ops
  PROVE  Spec => []BitsMatchQueues
  BY BlocksPartitioned, PTL

\* Without DISCARD, what a look-up can hit is allocated, and every allocated block can
\* be hit once its promotion is complete.
THEOREM HashedAreAllocated ==
  ASSUME "DISCARD" \notin Ops
  PROVE  Spec => []HashedIsAllocated
  BY BlocksPartitioned, PTL

\* ... and the annotations at the *_complete functions hold.
THEOREM MigrationStates ==
  ASSUME "DISCARD" \notin Ops
  PROVE  Spec => []MigrationState
  <1>1. ASSUME IInv, ~corrupt PROVE MigrationState
    <2> SUFFICES ASSUME worker.pc = "complete"
                 PROVE  StateOf(worker.blk) = <<worker.type # "PROMOTION", FALSE, TRUE>>
      BY DEF MigrationState
    <2> DEFINE e == worker.blk
    <2>1. Struct /\ TypeOK /\ WorkerOK
      BY <1>1 DEF IInv
    <2>2. InFlight = {e} /\ e \in Entries
      BY <2>1 DEF InFlight, WorkerOK
    <2>3. e \notin ToSet(clean) \cup ToSet(dirty) /\ entry[e].alloc
      BY <2>1, <2>2 DEF Struct, Partition, BitsMatchQueues
    <2>4. e \in table <=> worker.type # "PROMOTION"
      BY <2>1, <2>2, <2>3 DEF Struct, HashedIsAllocated
    <2>5. entry[e].alloc = TRUE
      BY <2>1, <2>2, <2>3 DEF TypeOK, EntryRecord
    <2>6. (e \in table) = (worker.type # "PROMOTION")
      BY <2>4
    <2>7. (e \in ToSet(clean) \cup ToSet(dirty)) = FALSE
      BY <2>3
    <2> QED
      BY <2>5, <2>6, <2>7, Zenon DEF StateOf
  <1> QED
    BY <1>1, NeverCorrupt, SpecIInv, PTL

-----------------------------------------------------------------------------
(* Progress of the worker: a counting argument.  With no free entry, none in *)
(* flight and none dirty, all blocks would be clean, and then the worker     *)
(* demotes.                                                                  *)

LEMMA EntriesCount == IsFiniteSet(Entries) /\ Cardinality(Entries) = CACHE_BLOCK_NUMBER
  <1>1. 0 \in Int /\ CACHE_BLOCK_NUMBER - 1 \in Int /\ ~(0 > CACHE_BLOCK_NUMBER - 1)
    BY MappingAssumption
  <1>2. /\ IsFiniteSet(0 .. CACHE_BLOCK_NUMBER - 1)
        /\ Cardinality(0 .. CACHE_BLOCK_NUMBER - 1) = CACHE_BLOCK_NUMBER - 1 - 0 + 1
    BY <1>1, FS_Interval
  <1> QED
    BY <1>2, MappingAssumption DEF Entries

LEMMA AllClean ==
  ASSUME TypeOK, Struct, free = <<>>, dirty = <<>>, InFlight = {}
  PROVE  demotable
  <1>1. ToSet(free) = {} /\ ToSet(dirty) = {}
    BY DEF ToSet
  <1>2. ToSet(clean) = Entries
    BY <1>1 DEF Struct, Partition
  <1>3. clean \in [1 .. Len(clean) -> Entries] /\ Len(clean) \in Nat
    BY LenProperties DEF TypeOK
  <1>4. clean \in Surjection(1 .. Len(clean), Entries)
    BY <1>2, <1>3 DEF Surjection, ToSet
  <1>5. /\ IsFiniteSet(1 .. Len(clean)) /\ Cardinality(1 .. Len(clean)) = Len(clean)
    <2> DEFINE n == Len(clean)
    <2>1. n \in Nat /\ 1 \in Int /\ n \in Int
      BY <1>3
    <2> HIDE DEF n
    <2>2. IsFiniteSet(1 .. n) /\ Cardinality(1 .. n) = IF 1 > n THEN 0 ELSE n - 1 + 1
      BY <2>1, FS_Interval
    <2>3. Cardinality(1 .. n) = n
      BY <2>1, <2>2
    <2> QED
      BY <2>2, <2>3 DEF n
  <1>6. CACHE_BLOCK_NUMBER <= Len(clean)
    BY <1>4, <1>5, EntriesCount, FS_Surjection
  <1> QED
    BY <1>3, <1>6, MappingAssumption DEF demotable

RoundInv == /\ worker.pc = "demote" => free = <<>>
            /\ worker.pc = "writeback" => dirty # <<>>

LEMMA UserRoundInv ==
  ASSUME IInv, ~corrupt, RoundInv, NEW c \in Clients, Request(c) \/ Proceed(c)
  PROVE  RoundInv'
  <1>1. TypeOK /\ Struct /\ ClientOK
    BY DEF IInv
  <1>2. UNCHANGED worker
    BY DEF Request, Proceed, LookupHit, LookupMiss, InsertQueued, InsertNoRoom, InsertDirty,
           insert_dirty, CacheIO, OriginIO, set_dirty_after_write
  <1>3. free = <<>> => UNCHANGED free
    BY DEF Request, Proceed, LookupHit, LookupMiss, InsertQueued, InsertNoRoom, InsertDirty,
           insert_dirty, CacheIO, OriginIO, set_dirty_after_write, lists
  <1>4. dirty # <<>> => dirty' # <<>>
    <2>1. CASE UNCHANGED dirty
      BY <2>1
    <2>2. CASE \E k \in Keys : InsertDirty(c, k)
      <3>1. dirty' = Append(dirty, Head(free)) /\ free # <<>> /\ free' = Tail(free)
        BY <2>2 DEF InsertDirty, insert_dirty
      <3>2. Head(free) \in Entries /\ dirty \in Seq(Entries)
        BY <1>1, <3>1, PopFree DEF TypeOK
      <3> QED
        BY <3>1, <3>2, AppendProperties
    <2>3. CASE set_dirty_after_write(c)
      <3> DEFINE e == client[c].blk
      <3>1. e \in Entries /\ dirty \in Seq(Entries) /\ IsInjective(dirty)
        BY <1>1, <2>3 DEF ClientOK, TypeOK, Struct, Partition, set_dirty_after_write
      <3>2. CASE entry[e].alloc /\ ~entry[e].pending /\ mark_dirty(e)
        <4>1. CASE entry[e].dirty
          <5>1. e \in ToSet(dirty)
            BY <1>1, <3>1, <3>2, <4>1, WhereIs
          <5>2. l_del(dirty, e) \in Seq(Entries)
            BY <3>1, <5>1, DelProperties
          <5> QED
            BY <3>1, <3>2, <4>1, <5>2, AppendProperties DEF mark_dirty
        <4>2. CASE ~entry[e].dirty
          BY <3>1, <3>2, <4>2, AppendProperties DEF mark_dirty
        <4> QED
          BY <4>1, <4>2
      <3> QED
        BY <2>1, <2>3, <3>2 DEF set_dirty_after_write
    <2> QED
      BY <2>1, <2>2, <2>3 DEF Request, Proceed, LookupHit, LookupMiss, InsertQueued,
           InsertNoRoom, CacheIO, OriginIO, lists
  <1> QED
    BY <1>2, <1>3, <1>4 DEF RoundInv

LEMMA WorkerRoundInv ==
  ASSUME IInv, ~corrupt, RoundInv, Migrate
  PROVE  RoundInv'
  <1>1. TypeOK /\ Struct /\ worker \in WorkerRecord
    BY DEF IInv, TypeOK
  <1>2. CASE PromotionRefused
    BY <1>1, <1>2 DEF PromotionRefused, goto, WorkerRecord, RoundInv, lists
  <1>3. CASE DemotionRefused
    <2>1. /\ worker.pc = "demote" /\ ~demotable /\ UNCHANGED <<free, dirty>>
          /\ worker'.pc = "writeback"
      BY <1>1, <1>3 DEF DemotionRefused, goto, WorkerRecord, lists
    <2>2. free = <<>> /\ InFlight = {}
      BY <2>1 DEF RoundInv, InFlight
    <2>3. dirty # <<>>
      BY <1>1, <2>1, <2>2, AllClean
    <2> QED
      BY <2>1, <2>3 DEF RoundInv
  <1>4. CASE ~PromotionRefused /\ ~DemotionRefused
    <2>1. worker'.pc \notin {"demote", "writeback"}
      <3>0. CASE peak_work
        BY <1>1, <3>0 DEF peak_work, WorkerRecord
      <3>1. CASE remove_work
        BY <3>1 DEF remove_work, IdleWorker
      <3>2. CASE promotion_free_to_clean \/ demotion_clean_to_free \/ writeback_dirty_to_clean
        <4>1. PICK type, e : start(type, e)
          BY <3>2 DEF promotion_free_to_clean, demotion_clean_to_free, writeback_dirty_to_clean
        <4> QED
          BY <1>1, <4>1 DEF start, WorkerRecord
      <3>3. CASE MgRead \/ MgWrite \/ MgTrim
        BY <1>1, <3>3 DEF MgRead, MgWrite, MgTrim, goto, WorkerRecord
      <3>4. CASE WritebackRefused \/ promotion_complete \/ demotion_complete \/ writeback_complete
        <4>1. goto("remove")
          BY <3>4 DEF WritebackRefused, promotion_complete, demotion_complete, writeback_complete
        <4> QED
          BY <1>1, <4>1 DEF goto, WorkerRecord
      <3> QED
        BY <1>4, <3>0, <3>1, <3>2, <3>3, <3>4 DEF Migrate
    <2> QED
      BY <2>1 DEF RoundInv
  <1> QED
    BY <1>2, <1>3, <1>4

\* Without DISCARD, a round of the worker that finds neither a free entry nor enough
\* clean ones has a dirty block to write back: no round is spent for nothing.
THEOREM RoundsProgress ==
  ASSUME "DISCARD" \notin Ops
  PROVE  Spec => []RoundMakesProgress
  <1>1. Init => RoundInv
    BY DEF Init, IdleWorker, RoundInv
  <1>2. IInv /\ ~corrupt /\ RoundInv /\ [Next]_vars => RoundInv'
    <2> SUFFICES ASSUME IInv, ~corrupt, RoundInv, [Next]_vars PROVE RoundInv'
      OBVIOUS
    <2>1. CASE UNCHANGED vars
      BY <2>1 DEF vars, lists, RoundInv
    <2>2. ASSUME NEW k \in Keys PROVE ~remove_mapping(k)
      BY DEF remove_mapping
    <2> QED
      BY <2>1, <2>2, UserRoundInv, WorkerRoundInv DEF Next
  <1>3. ASSUME IInv, ~corrupt, RoundInv PROVE RoundMakesProgress
    <2> SUFFICES ASSUME worker.pc = "writeback" PROVE writable
      BY DEF RoundMakesProgress
    <2>1. Struct /\ dirty \in Seq(Entries) /\ dirty # <<>> /\ InFlight = {}
      BY <1>3 DEF IInv, TypeOK, RoundInv, InFlight
    <2>2. Head(dirty) \in Entries
      BY <2>1, PopProperties
    <2> QED
      BY <2>1, <2>2 DEF writable, Struct, BitsMatchQueues
  <1> QED
    BY <1>1, <1>2, <1>3, NeverCorrupt, SpecIInv, PTL DEF Spec
=============================================================================
