------------------------ MODULE PointerLists_proof -------------------------
(***************************************************************************)
(* The lists that the links of a table lead through: what l_add_head,      *)
(* l_add_tail, l_del, h_insert, h_lookup, h_remove, alloc_entry and free_entry *)
(* make of the queues and chains of any table.                             *)
(***************************************************************************)
EXTENDS PointerTable, SequenceTheorems, FiniteSetTheorems, WellFoundedInduction, TLAPS

\* The number of entries in the pool.
N == CACHE_BLOCK_NUMBER

\* What the assumptions say of the constants.
LEMMA Constants ==
  /\ N \in Nat \ {0}
  /\ INDEXER_NULL \notin Entries
  /\ UINT_MOD \in Nat /\ UINT_MOD > N
  /\ hash_32 \in [Keys -> Buckets]
  /\ NoKey \notin Keys
  BY PointerAssumption, TableAssumption DEF M!MappingAssumption, N

(* Every nonempty set of natural numbers has a least element. *)
LEMMA Least ==
  ASSUME NEW T \in SUBSET Nat, T # {}
  PROVE  \E m \in T : \A k \in T : m <= k
  <1> DEFINE U == {0 .. n : n \in T}
  <1>1. U \subseteq FiniteSubsetsOf(Nat) /\ U # {}
    <2>1. \A n \in T : IsFiniteSet(0 .. n) /\ 0 .. n \in SUBSET Nat
      BY FS_Interval
    <2> QED
      BY <2>1 DEF FiniteSubsetsOf
  <1>2. IsWellFoundedOn(StrictSubsetOrdering(Nat), FiniteSubsetsOf(Nat))
    BY FS_StrictSubsetOrderingWellFounded
  <1>3. PICK x \in U : \A y \in U : ~(<<y, x>> \in StrictSubsetOrdering(Nat))
    <2> HIDE DEF U
    <2> QED
      BY <1>1, <1>2, WFMin
  <1>4. PICK m \in T : x = 0 .. m
    OBVIOUS
  <1>5. ASSUME NEW k \in T, k < m PROVE FALSE
    <2>1. 0 .. k \in U /\ 0 .. k \subseteq 0 .. m /\ m \in 0 .. m /\ m \notin 0 .. k
      BY <1>5
    <2>2. <<0 .. k, x>> \in StrictSubsetOrdering(Nat)
      BY <1>4, <2>1 DEF StrictSubsetOrdering
    <2> QED
      BY <1>3, <2>1, <2>2
  <1> QED
    BY <1>5

\* Two functions that agree at the first place, and at each place where they
\* agree at the place before, agree everywhere.
LEMMA AgreeFrom ==
  ASSUME NEW a \in Nat, NEW b \in Nat, NEW F, NEW G, F[a] = G[a],
         \A n \in a + 1 .. b : F[n - 1] = G[n - 1] => F[n] = G[n]
  PROVE  \A n \in a .. b : F[n] = G[n]
  <1> DEFINE T == {n \in a .. b : F[n] # G[n]}
  <1> SUFFICES ASSUME T # {} PROVE FALSE
    OBVIOUS
  <1>1. PICK m \in T : \A k \in T : m <= k
    <2>1. T \in SUBSET Nat /\ T # {}
      OBVIOUS
    <2> HIDE DEF T
    <2> QED
      BY <2>1, Least
  <1>2. m # a /\ m - 1 \in a .. b /\ m - 1 \notin T
    BY <1>1
  <1> QED
    BY <1>1, <1>2

-----------------------------------------------------------------------------
(* What Walk returns. *)

\* s leads from index i along the links f to the null index.
Leads(f, i, s) ==
  /\ s \in Seq(Entries) /\ IsInjective(s)
  /\ i = IF s = <<>> THEN INDEXER_NULL ELSE s[1]
  /\ \A j \in 1 .. Len(s) : f[s[j]] = IF j = Len(s) THEN INDEXER_NULL ELSE s[j + 1]

\* A list of different entries is no longer than the pool.
LEMMA InjectiveLen ==
  ASSUME NEW s \in Seq(Entries), IsInjective(s)
  PROVE  Len(s) <= N
  <1>1. IsFiniteSet(Entries) /\ Cardinality(Entries) = N
    BY FS_Interval, Constants DEF Entries, N
  <1>2. IsFiniteSet(1 .. Len(s)) /\ Cardinality(1 .. Len(s)) = Len(s)
    <2>1. 1 \in Int /\ Len(s) \in Nat
      BY LenProperties
    <2> QED
      BY <2>1, FS_Interval
  <1>3. s \in Injection(1 .. Len(s), Entries)
    BY DEF IsInjective, Injection
  <1> QED
    BY <1>1, <1>2, <1>3, FS_Injection

\* A walk along the links returns the list that they lead through.
LEMMA WalkLeads ==
  ASSUME NEW f, NEW i, NEW s, Leads(f, i, s)
  PROVE  Walk(f, i) = s
  <1> DEFINE follow == [e \in Links |-> IF e = INDEXER_NULL THEN e ELSE f[e]]
             at == CHOOSE g : g = [n \in 1 .. N |-> IF n = 1 THEN i ELSE follow[g[n - 1]]]
             w == [n \in 1 .. N |-> IF n <= Len(s) THEN s[n] ELSE INDEXER_NULL]
  <1>1. /\ s \in Seq(Entries) /\ Len(s) \in 0 .. N /\ N \in Nat \ {0} /\ INDEXER_NULL \notin Entries
        /\ \A n \in 1 .. Len(s) : s[n] \in Entries
        /\ s = <<>> <=> Len(s) = 0
    BY InjectiveLen, Constants, LenProperties, EmptySeq, ElementOfSeq DEF Leads
  <1>2. w = [n \in 1 .. N |-> IF n = 1 THEN i ELSE follow[w[n - 1]]]
    <2> SUFFICES ASSUME NEW n \in 1 .. N
                 PROVE  w[n] = IF n = 1 THEN i ELSE follow[w[n - 1]]
      OBVIOUS
    <2>1. CASE n = 1
      BY <1>1, <2>1 DEF Leads
    <2>2. CASE n # 1
      <3>1. n - 1 \in 1 .. N /\ w[n - 1] \in Links
        BY <1>1, <2>2 DEF Links
      <3>2. CASE n - 1 <= Len(s)
        BY <1>1, <2>2, <3>1, <3>2 DEF Leads
      <3>3. CASE ~(n - 1 <= Len(s))
        BY <1>1, <2>2, <3>1, <3>3
      <3> QED
        BY <3>2, <3>3
    <2> QED
      BY <2>1, <2>2
  <1>3. at = [n \in 1 .. N |-> IF n = 1 THEN i ELSE follow[at[n - 1]]]
    <2> HIDE DEF w, follow
    <2> QED
      BY <1>2
  <1>4. \A n \in 1 .. N : at[n] = w[n]
    <2> HIDE DEF at, w, follow
    <2>1. at[1] = w[1]
      BY <1>1, <1>2, <1>3
    <2>2. ASSUME NEW n \in 2 .. N, at[n - 1] = w[n - 1] PROVE at[n] = w[n]
      BY <1>1, <1>2, <1>3, <2>2
    <2>3. \A n \in 1 + 1 .. N : at[n - 1] = w[n - 1] => at[n] = w[n]
      BY <2>2
    <2>4. 1 \in Nat /\ N \in Nat
      BY <1>1
    <2> QED
      BY <2>1, <2>3, <2>4, AgreeFrom
  <1>5. Cardinality({n \in 1 .. N : at[n] # INDEXER_NULL}) = Len(s)
    <2>1. {n \in 1 .. N : at[n] # INDEXER_NULL} = 1 .. Len(s)
      <3> HIDE DEF at
      <3>1. \A n \in 1 .. N : w[n] # INDEXER_NULL <=> n <= Len(s)
        BY <1>1
      <3> HIDE DEF w
      <3>2. \A n \in 1 .. N : at[n] # INDEXER_NULL <=> n \in 1 .. Len(s)
        BY <1>1, <1>4, <3>1
      <3>3. 1 .. Len(s) \subseteq 1 .. N
        BY <1>1
      <3> QED
        BY <3>2, <3>3
    <2> QED
      <3>1. 1 \in Int /\ Len(s) \in Nat
        BY <1>1
      <3>2. Cardinality(1 .. Len(s)) = IF 1 > Len(s) THEN 0 ELSE Len(s) - 1 + 1
        BY <3>1, FS_Interval
      <3>3. Cardinality(1 .. Len(s)) = Len(s)
        BY <3>1, <3>2
      <3> HIDE DEF at
      <3> QED
        BY <2>1, <3>3
  <1>6. Walk(f, i) = SubSeq(at, 1, Len(s))
    BY <1>5 DEF Walk, N
  <1>7. SubSeq(at, 1, Len(s)) = s
    <2> HIDE DEF at
    <2>1. \A n \in 1 .. Len(s) : at[n] = s[n]
      BY <1>1, <1>4
    <2> QED
      BY <1>1, <2>1, SubSeqProperties, SeqEqual
  <1> QED
    BY <1>6, <1>7

-----------------------------------------------------------------------------
(* Lists that grow and shrink. *)

\* The theorems about the abstract table, for the table that is read off the
\* links.
MP == INSTANCE Mapping_proof
        WITH entry <- Bits, free <- Listed("free"), clean <- Listed("clean"), dirty <- Listed("dirty"),
             table <- Hashed

\* s leads from index i along the links f to the null index, from its end.
LeadsBack(f, i, s) ==
  /\ i = IF s = <<>> THEN INDEXER_NULL ELSE s[Len(s)]
  /\ \A j \in 1 .. Len(s) : f[s[j]] = IF j = 1 THEN INDEXER_NULL ELSE s[j - 1]

\* The links g are the links f, but for the one of p, which is i, and that of
\* e, which does not matter.
Relinked(g, f, e, p, i) == \A x \in Entries \ {e} : g[x] = IF x = p THEN i ELSE f[x]

\* The links after a change, at p and at the other entries.
LEMMA Relink ==
  ASSUME NEW g, NEW f, NEW e, NEW p, NEW i, Relinked(g, f, e, p, i), NEW x \in Entries, x # e
  PROVE  /\ x = p => g[x] = i
         /\ x # p => g[x] = f[x]
  BY DEF Relinked

\* A list and the set of its entries.
LEMMA Places ==
  ASSUME NEW s \in Seq(Entries)
  PROVE  /\ Len(s) \in Nat /\ DOMAIN s = 1 .. Len(s) /\ (s = <<>> <=> Len(s) = 0)
         /\ \A j \in 1 .. Len(s) : s[j] \in Entries /\ s[j] \in ToSet(s)
         /\ \A x \in ToSet(s) : x \in Entries /\ \E j \in 1 .. Len(s) : x = s[j]
  BY EmptySeq, LenProperties, ElementOfSeq DEF ToSet

\* Two places of a list without repetitions hold different entries.
LEMMA Distinct ==
  ASSUME NEW s \in Seq(Entries), IsInjective(s), NEW i \in 1 .. Len(s), NEW j \in 1 .. Len(s), i # j
  PROVE  s[i] # s[j]
  BY Places DEF IsInjective

\* The null index is not that of an entry.
LEMMA NullIsNoEntry == INDEXER_NULL \notin Entries
  BY Constants

\* The list that the links f lead through from h.
LEMMA Following ==
  ASSUME NEW f, NEW h, NEW s, Leads(f, h, s)
  PROVE  /\ s \in Seq(Entries) /\ IsInjective(s) /\ Len(s) \in Nat /\ (s = <<>> <=> Len(s) = 0)
         /\ h = IF s = <<>> THEN INDEXER_NULL ELSE s[1]
  BY Places DEF Leads

\* The link of the j-th entry.
LEMMA FollowingAt ==
  ASSUME NEW f, NEW h, NEW s, Leads(f, h, s), NEW j \in 1 .. Len(s)
  PROVE  f[s[j]] = IF j = Len(s) THEN INDEXER_NULL ELSE s[j + 1]
  BY DEF Leads

\* The link back of the j-th entry.
LEMMA FollowingBackAt ==
  ASSUME NEW f, NEW h, NEW s, LeadsBack(f, h, s), NEW j \in 1 .. Len(s)
  PROVE  f[s[j]] = IF j = 1 THEN INDEXER_NULL ELSE s[j - 1]
  BY DEF LeadsBack

\* The list without its i-th entry.
LEMMA DelPlaces ==
  ASSUME NEW s \in Seq(Entries), IsInjective(s), NEW i \in 1 .. Len(s)
  PROVE  /\ M!l_del(s, s[i]) \in Seq(Entries) /\ IsInjective(M!l_del(s, s[i]))
         /\ ToSet(M!l_del(s, s[i])) = ToSet(s) \ {s[i]}
         /\ Len(M!l_del(s, s[i])) = Len(s) - 1
         /\ \A k \in 1 .. Len(s) - 1 : M!l_del(s, s[i])[k] = IF k < i THEN s[k] ELSE s[k + 1]
  <1>1. M!l_del(s, s[i]) = MP!l_del(s, s[i])
    BY DEF M!l_del, MP!l_del, M!RemoveAt, MP!RemoveAt
  <1>2. s[i] \in MP!ToSet(s) /\ MP!IsInjective(s)
    BY Places DEF MP!ToSet, MP!IsInjective, ToSet, IsInjective
  <1>3. /\ MP!l_del(s, s[i]) \in Seq(Entries) /\ MP!IsInjective(MP!l_del(s, s[i]))
        /\ MP!ToSet(MP!l_del(s, s[i])) = MP!ToSet(s) \ {s[i]}
    BY <1>2, MP!DelProperties, TableAssumption DEF M!MappingAssumption, M!AllOps, MP!AllOps
  <1>4. /\ Len(MP!l_del(s, s[i])) = Len(s) - 1
        /\ \A k \in 1 .. Len(s) - 1 : MP!l_del(s, s[i])[k] = IF k < i THEN s[k] ELSE s[k + 1]
    BY <1>2, MP!DelPlaces, TableAssumption DEF M!MappingAssumption, M!AllOps, MP!AllOps
  <1>5. IsInjective(MP!l_del(s, s[i])) /\ ToSet(MP!l_del(s, s[i])) = ToSet(s) \ {s[i]}
    <2> HIDE DEF MP!l_del
    <2> QED
      BY <1>3 DEF MP!ToSet, MP!IsInjective, ToSet, IsInjective
  <1> QED
    BY <1>1, <1>3, <1>4, <1>5

\* The list with one more entry at its end.
LEMMA TailPlaces ==
  ASSUME NEW s \in Seq(Entries), IsInjective(s), NEW e \in Entries \ ToSet(s)
  PROVE  /\ Append(s, e) \in Seq(Entries) /\ IsInjective(Append(s, e)) /\ Append(s, e) # <<>>
         /\ ToSet(Append(s, e)) = ToSet(s) \cup {e}
         /\ Len(Append(s, e)) = Len(s) + 1
         /\ \A j \in 1 .. Len(s) : Append(s, e)[j] = s[j]
         /\ Append(s, e)[Len(s) + 1] = e
  <1>1. /\ MP!IsInjective(Append(s, e)) /\ MP!ToSet(Append(s, e)) = MP!ToSet(s) \cup {e}
    <2>1. MP!IsInjective(s) /\ e \notin MP!ToSet(s)
      BY DEF MP!ToSet, MP!IsInjective, ToSet, IsInjective
    <2> QED
      BY <2>1, MP!AddTailProperties, TableAssumption DEF M!MappingAssumption, M!AllOps, MP!AllOps
  <1>2. IsInjective(Append(s, e)) /\ ToSet(Append(s, e)) = ToSet(s) \cup {e}
    BY <1>1 DEF MP!ToSet, MP!IsInjective, ToSet, IsInjective
  <1> QED
    BY <1>2, AppendProperties

\* The list with one more entry at its front.
LEMMA HeadPlaces ==
  ASSUME NEW s \in Seq(Entries), IsInjective(s), NEW e \in Entries \ ToSet(s)
  PROVE  /\ <<e>> \o s \in Seq(Entries) /\ IsInjective(<<e>> \o s) /\ <<e>> \o s # <<>>
         /\ ToSet(<<e>> \o s) = ToSet(s) \cup {e}
         /\ Len(<<e>> \o s) = Len(s) + 1
         /\ \A j \in 1 .. Len(s) : (<<e>> \o s)[j + 1] = s[j]
         /\ (<<e>> \o s)[1] = e
  <1> DEFINE r == <<e>> \o s
  <1>1. /\ MP!IsInjective(r) /\ MP!ToSet(r) = MP!ToSet(s) \cup {e} /\ r \in Seq(Entries)
    <2>1. MP!IsInjective(s) /\ e \notin MP!ToSet(s)
      BY DEF MP!ToSet, MP!IsInjective, ToSet, IsInjective
    <2> QED
      BY <2>1, MP!AddHeadProperties, TableAssumption DEF M!MappingAssumption, M!AllOps, MP!AllOps
  <1>2. IsInjective(r) /\ ToSet(r) = ToSet(s) \cup {e}
    BY <1>1 DEF MP!ToSet, MP!IsInjective, ToSet, IsInjective
  <1>3. /\ Len(r) = 1 + Len(s)
        /\ \A j \in 1 .. 1 + Len(s) : r[j] = IF j <= 1 THEN <<e>>[j] ELSE s[j - 1]
    <2>1. <<e>> \in Seq(Entries) /\ Len(<<e>>) = 1
      OBVIOUS
    <2> QED
      BY <2>1, ConcatProperties
  <1>4. Len(s) \in Nat /\ <<e>>[1] = e
    BY LenProperties
  <1> HIDE DEF r
  <1>5. Len(r) = Len(s) + 1 /\ r # <<>> /\ r[1] = e
    <2>1. Len(r) = Len(s) + 1 /\ r[1] = e
      BY <1>3, <1>4
    <2> QED
      BY <1>1, <1>4, <2>1, Places
  <1>6. ASSUME NEW j \in 1 .. Len(s) PROVE r[j + 1] = s[j]
    <2>1. j + 1 \in 1 .. 1 + Len(s) /\ ~(j + 1 <= 1) /\ j + 1 - 1 = j
      BY <1>4
    <2> QED
      BY <1>3, <2>1
  <1> QED
    BY <1>1, <1>2, <1>5, <1>6 DEF r

\* l_del on the forward links: the one before e gets the link of e.
LEMMA DelLeads ==
  ASSUME NEW f, NEW h, NEW s, Leads(f, h, s), NEW i \in 1 .. Len(s),
         NEW g, NEW k, k = IF i = 1 THEN f[s[i]] ELSE h,
         Relinked(g, f, s[i], IF i = 1 THEN INDEXER_NULL ELSE s[i - 1], f[s[i]])
  PROVE  Leads(g, k, M!l_del(s, s[i]))
  <1> DEFINE r == M!l_del(s, s[i])
             p == IF i = 1 THEN INDEXER_NULL ELSE s[i - 1]
  <1>1. /\ s \in Seq(Entries) /\ IsInjective(s) /\ Len(s) \in Nat /\ s # <<>>
        /\ h = s[1]
    BY Following
  <1>2. /\ r \in Seq(Entries) /\ IsInjective(r) /\ Len(r) = Len(s) - 1
        /\ \A j \in 1 .. Len(s) - 1 : r[j] = IF j < i THEN s[j] ELSE s[j + 1]
    BY <1>1, DelPlaces
  <1> HIDE DEF r, p
  <1>3. r = <<>> <=> Len(s) = 1
    BY <1>1, <1>2, Places
  <1>4. f[s[i]] = IF i = Len(s) THEN INDEXER_NULL ELSE s[i + 1]
    BY FollowingAt
  <1>5. k = IF r = <<>> THEN INDEXER_NULL ELSE r[1]
    BY <1>1, <1>2, <1>3, <1>4
  <1>6. ASSUME NEW j \in 1 .. Len(r)
        PROVE  g[r[j]] = IF j = Len(r) THEN INDEXER_NULL ELSE r[j + 1]
    <2> DEFINE m == IF j < i THEN j ELSE j + 1
    <2>1. m \in 1 .. Len(s) /\ m # i /\ r[j] = s[m]
      BY <1>1, <1>2
    <2>2. s[m] \in Entries /\ s[m] # s[i]
      BY <1>1, <2>1, Places, Distinct
    <2>3. s[m] = p <=> m = i - 1
      BY <1>1, <2>1, <2>2, Distinct, NullIsNoEntry DEF p
    <2>4. f[s[m]] = IF m = Len(s) THEN INDEXER_NULL ELSE s[m + 1]
      <3> HIDE DEF m
      <3> QED
        BY <2>1, FollowingAt
    <2>5. g[r[j]] = IF m = i - 1 THEN f[s[i]] ELSE f[s[m]]
      <3> HIDE DEF m
      <3> QED
        BY <2>1, <2>2, <2>3, Relink DEF p
    <2>6. CASE m = i - 1
      <3>1. j = i - 1
        BY <1>1, <2>1, <2>6
      <3>2. g[r[j]] = IF i = Len(s) THEN INDEXER_NULL ELSE s[i + 1]
        <4> HIDE DEF m
        <4> QED
          BY <1>4, <2>5, <2>6
      <3> QED
        BY <1>1, <1>2, <3>1, <3>2
    <2>7. CASE m # i - 1
      <3>1. g[r[j]] = IF m = Len(s) THEN INDEXER_NULL ELSE s[m + 1]
        <4> HIDE DEF m
        <4> QED
          BY <2>4, <2>5, <2>7
      <3> QED
        BY <1>1, <1>2, <2>1, <2>7, <3>1
    <2> QED
      BY <2>6, <2>7
  <1> QED
    BY <1>2, <1>5, <1>6 DEF Leads, r

\* l_del on the backward links: the one after e gets the link of e.
LEMMA DelLeadsBack ==
  ASSUME NEW f, NEW h, NEW s \in Seq(Entries), IsInjective(s), LeadsBack(f, h, s), NEW i \in 1 .. Len(s),
         NEW g, NEW k, k = IF i = Len(s) THEN f[s[i]] ELSE h,
         Relinked(g, f, s[i], IF i = Len(s) THEN INDEXER_NULL ELSE s[i + 1], f[s[i]])
  PROVE  LeadsBack(g, k, M!l_del(s, s[i]))
  <1> DEFINE r == M!l_del(s, s[i])
             p == IF i = Len(s) THEN INDEXER_NULL ELSE s[i + 1]
  <1>1. /\ s \in Seq(Entries) /\ IsInjective(s) /\ Len(s) \in Nat /\ s # <<>>
        /\ h = s[Len(s)]
    BY Places DEF LeadsBack
  <1>2. /\ r \in Seq(Entries) /\ IsInjective(r) /\ Len(r) = Len(s) - 1
        /\ \A j \in 1 .. Len(s) - 1 : r[j] = IF j < i THEN s[j] ELSE s[j + 1]
    BY <1>1, DelPlaces
  <1> HIDE DEF r, p
  <1>3. r = <<>> <=> Len(s) = 1
    BY <1>1, <1>2, Places
  <1>4. f[s[i]] = IF i = 1 THEN INDEXER_NULL ELSE s[i - 1]
    BY FollowingBackAt
  <1>5. k = IF r = <<>> THEN INDEXER_NULL ELSE r[Len(r)]
    BY <1>1, <1>2, <1>3, <1>4
  <1>6. ASSUME NEW j \in 1 .. Len(r)
        PROVE  g[r[j]] = IF j = 1 THEN INDEXER_NULL ELSE r[j - 1]
    <2> DEFINE m == IF j < i THEN j ELSE j + 1
    <2>1. m \in 1 .. Len(s) /\ m # i /\ r[j] = s[m]
      BY <1>1, <1>2
    <2>2. s[m] \in Entries /\ s[m] # s[i]
      BY <1>1, <2>1, Places, Distinct
    <2>3. s[m] = p <=> m = i + 1
      BY <1>1, <2>1, <2>2, Distinct, NullIsNoEntry DEF p
    <2>4. f[s[m]] = IF m = 1 THEN INDEXER_NULL ELSE s[m - 1]
      <3> HIDE DEF m
      <3> QED
        BY <2>1, FollowingBackAt
    <2>5. g[r[j]] = IF m = i + 1 THEN f[s[i]] ELSE f[s[m]]
      <3> HIDE DEF m
      <3> QED
        BY <2>1, <2>2, <2>3, Relink DEF p
    <2>6. CASE m = i + 1
      <3>1. j = i
        BY <1>1, <2>1, <2>6
      <3>2. g[r[j]] = IF i = 1 THEN INDEXER_NULL ELSE s[i - 1]
        <4> HIDE DEF m
        <4> QED
          BY <1>4, <2>5, <2>6
      <3> QED
        BY <1>1, <1>2, <3>1, <3>2
    <2>7. CASE m # i + 1
      <3>1. g[r[j]] = IF m = 1 THEN INDEXER_NULL ELSE s[m - 1]
        <4> HIDE DEF m
        <4> QED
          BY <2>4, <2>5, <2>7
      <3> QED
        BY <1>1, <1>2, <2>1, <2>7, <3>1
    <2> QED
      BY <2>6, <2>7
  <1> QED
    BY <1>2, <1>5, <1>6 DEF LeadsBack, r

\* l_add_tail on the forward links.
LEMMA TailLeads ==
  ASSUME NEW f, NEW h, NEW s, Leads(f, h, s), NEW e \in Entries \ ToSet(s),
         NEW g, NEW i, g[e] = INDEXER_NULL, Relinked(g, f, e, IF s = <<>> THEN INDEXER_NULL ELSE s[Len(s)], e)
  PROVE  Leads(g, IF s = <<>> THEN e ELSE h, Append(s, e))
  <1> DEFINE r == Append(s, e)
             p == IF s = <<>> THEN INDEXER_NULL ELSE s[Len(s)]
  <1>1. /\ s \in Seq(Entries) /\ IsInjective(s) /\ Len(s) \in Nat /\ (s = <<>> <=> Len(s) = 0)
        /\ h = IF s = <<>> THEN INDEXER_NULL ELSE s[1]
    BY Following
  <1>2. /\ r \in Seq(Entries) /\ IsInjective(r) /\ Len(r) = Len(s) + 1 /\ r # <<>>
        /\ r[Len(s) + 1] = e /\ \A j \in 1 .. Len(s) : r[j] = s[j]
    BY <1>1, TailPlaces
  <1> HIDE DEF r, p
  <1>3. (IF s = <<>> THEN e ELSE h) = r[1]
    BY <1>1, <1>2
  <1>4. ASSUME NEW j \in 1 .. Len(r)
        PROVE  g[r[j]] = IF j = Len(r) THEN INDEXER_NULL ELSE r[j + 1]
    <2>1. CASE j = Len(s) + 1
      <3>1. j # Len(r) => s # <<>>
        BY <1>1, <1>2, <2>1
      <3> QED
        BY <1>1, <1>2, <2>1, <3>1
    <2>2. CASE j # Len(s) + 1
      <3> DEFINE m == j
      <3>1. m \in 1 .. Len(s) /\ r[j] = s[m]
        BY <1>1, <1>2, <2>2
      <3>2. s[m] \in Entries /\ s[m] # e
        BY <1>1, <3>1, Places
      <3>3. s[m] = p <=> m = Len(s)
        BY <1>1, <3>1, <3>2, Distinct, NullIsNoEntry DEF p
      <3>4. f[s[m]] = IF m = Len(s) THEN INDEXER_NULL ELSE s[m + 1]
        <4> HIDE DEF m
        <4> QED
          BY <3>1, FollowingAt
      <3>5. g[r[j]] = IF m = Len(s) THEN e ELSE f[s[m]]
        <4> HIDE DEF m
        <4> QED
          BY <3>1, <3>2, <3>3, Relink DEF p
      <3> QED
        BY <1>1, <1>2, <2>2, <3>1, <3>4, <3>5
    <2> QED
      BY <2>1, <2>2
  <1> QED
    BY <1>2, <1>3, <1>4 DEF Leads, r

\* l_add_tail on the backward links.
LEMMA TailLeadsBack ==
  ASSUME NEW f, NEW h, NEW s \in Seq(Entries), IsInjective(s), LeadsBack(f, h, s), NEW e \in Entries \ ToSet(s),
         NEW g, NEW i, g[e] = h, Relinked(g, f, e, INDEXER_NULL, i)
  PROVE  LeadsBack(g, e, Append(s, e))
  <1> DEFINE r == Append(s, e)
             p == INDEXER_NULL
  <1>1. /\ s \in Seq(Entries) /\ IsInjective(s) /\ Len(s) \in Nat /\ (s = <<>> <=> Len(s) = 0)
        /\ h = IF s = <<>> THEN INDEXER_NULL ELSE s[Len(s)]
    BY Places DEF LeadsBack
  <1>2. /\ r \in Seq(Entries) /\ IsInjective(r) /\ Len(r) = Len(s) + 1 /\ r # <<>>
        /\ r[Len(s) + 1] = e /\ \A j \in 1 .. Len(s) : r[j] = s[j]
    BY <1>1, TailPlaces
  <1> HIDE DEF r, p
  <1>3. (e) = r[Len(r)]
    BY <1>1, <1>2
  <1>4. ASSUME NEW j \in 1 .. Len(r)
        PROVE  g[r[j]] = IF j = 1 THEN INDEXER_NULL ELSE r[j - 1]
    <2>1. CASE j = Len(s) + 1
      <3>1. j # 1 => s # <<>>
        BY <1>1, <1>2, <2>1
      <3> QED
        BY <1>1, <1>2, <2>1, <3>1
    <2>2. CASE j # Len(s) + 1
      <3> DEFINE m == j
      <3>1. m \in 1 .. Len(s) /\ r[j] = s[m]
        BY <1>1, <1>2, <2>2
      <3>2. s[m] \in Entries /\ s[m] # e
        BY <1>1, <3>1, Places
      <3>3. s[m] # p
        BY <1>1, <3>1, <3>2, Distinct, NullIsNoEntry DEF p
      <3>4. f[s[m]] = IF m = 1 THEN INDEXER_NULL ELSE s[m - 1]
        <4> HIDE DEF m
        <4> QED
          BY <3>1, FollowingBackAt
      <3>5. g[r[j]] = f[s[m]]
        <4> HIDE DEF m
        <4> QED
          BY <3>1, <3>2, <3>3, Relink DEF p
      <3> QED
        BY <1>1, <1>2, <2>2, <3>1, <3>4, <3>5
    <2> QED
      BY <2>1, <2>2
  <1> QED
    BY <1>2, <1>3, <1>4 DEF LeadsBack, r

\* l_add_head on the forward links.
LEMMA HeadLeads ==
  ASSUME NEW f, NEW h, NEW s, Leads(f, h, s), NEW e \in Entries \ ToSet(s),
         NEW g, NEW i, g[e] = h, Relinked(g, f, e, INDEXER_NULL, i)
  PROVE  Leads(g, e, <<e>> \o s)
  <1> DEFINE r == <<e>> \o s
             p == INDEXER_NULL
  <1>1. /\ s \in Seq(Entries) /\ IsInjective(s) /\ Len(s) \in Nat /\ (s = <<>> <=> Len(s) = 0)
        /\ h = IF s = <<>> THEN INDEXER_NULL ELSE s[1]
    BY Following
  <1>2. /\ r \in Seq(Entries) /\ IsInjective(r) /\ Len(r) = Len(s) + 1 /\ r # <<>>
        /\ r[1] = e /\ \A j \in 1 .. Len(s) : r[j + 1] = s[j]
    BY <1>1, HeadPlaces
  <1> HIDE DEF r, p
  <1>3. (e) = r[1]
    BY <1>1, <1>2
  <1>4. ASSUME NEW j \in 1 .. Len(r)
        PROVE  g[r[j]] = IF j = Len(r) THEN INDEXER_NULL ELSE r[j + 1]
    <2>1. CASE j = 1
      <3>1. j # Len(r) => s # <<>>
        BY <1>1, <1>2, <2>1
      <3> QED
        BY <1>1, <1>2, <2>1, <3>1
    <2>2. CASE j # 1
      <3> DEFINE m == j - 1
      <3>1. m \in 1 .. Len(s) /\ r[j] = s[m]
        BY <1>1, <1>2, <2>2
      <3>2. s[m] \in Entries /\ s[m] # e
        BY <1>1, <3>1, Places
      <3>3. s[m] # p
        BY <1>1, <3>1, <3>2, Distinct, NullIsNoEntry DEF p
      <3>4. f[s[m]] = IF m = Len(s) THEN INDEXER_NULL ELSE s[m + 1]
        <4> HIDE DEF m
        <4> QED
          BY <3>1, FollowingAt
      <3>5. g[r[j]] = f[s[m]]
        <4> HIDE DEF m
        <4> QED
          BY <3>1, <3>2, <3>3, Relink DEF p
      <3> QED
        BY <1>1, <1>2, <2>2, <3>1, <3>4, <3>5
    <2> QED
      BY <2>1, <2>2
  <1> QED
    BY <1>2, <1>3, <1>4 DEF Leads, r

\* l_add_head on the backward links.
LEMMA HeadLeadsBack ==
  ASSUME NEW f, NEW h, NEW s \in Seq(Entries), IsInjective(s), LeadsBack(f, h, s), NEW e \in Entries \ ToSet(s),
         NEW g, NEW i, g[e] = INDEXER_NULL, Relinked(g, f, e, IF s = <<>> THEN INDEXER_NULL ELSE s[1], e)
  PROVE  LeadsBack(g, IF s = <<>> THEN e ELSE h, <<e>> \o s)
  <1> DEFINE r == <<e>> \o s
             p == IF s = <<>> THEN INDEXER_NULL ELSE s[1]
  <1>1. /\ s \in Seq(Entries) /\ IsInjective(s) /\ Len(s) \in Nat /\ (s = <<>> <=> Len(s) = 0)
        /\ h = IF s = <<>> THEN INDEXER_NULL ELSE s[Len(s)]
    BY Places DEF LeadsBack
  <1>2. /\ r \in Seq(Entries) /\ IsInjective(r) /\ Len(r) = Len(s) + 1 /\ r # <<>>
        /\ r[1] = e /\ \A j \in 1 .. Len(s) : r[j + 1] = s[j]
    BY <1>1, HeadPlaces
  <1> HIDE DEF r, p
  <1>3. (IF s = <<>> THEN e ELSE h) = r[Len(r)]
    BY <1>1, <1>2
  <1>4. ASSUME NEW j \in 1 .. Len(r)
        PROVE  g[r[j]] = IF j = 1 THEN INDEXER_NULL ELSE r[j - 1]
    <2>1. CASE j = 1
      <3>1. j # 1 => s # <<>>
        BY <1>1, <1>2, <2>1
      <3> QED
        BY <1>1, <1>2, <2>1, <3>1
    <2>2. CASE j # 1
      <3> DEFINE m == j - 1
      <3>1. m \in 1 .. Len(s) /\ r[j] = s[m]
        BY <1>1, <1>2, <2>2
      <3>2. s[m] \in Entries /\ s[m] # e
        BY <1>1, <3>1, Places
      <3>3. s[m] = p <=> m = 1
        BY <1>1, <3>1, <3>2, Distinct, NullIsNoEntry DEF p
      <3>4. f[s[m]] = IF m = 1 THEN INDEXER_NULL ELSE s[m - 1]
        <4> HIDE DEF m
        <4> QED
          BY <3>1, FollowingBackAt
      <3>5. g[r[j]] = IF m = 1 THEN e ELSE f[s[m]]
        <4> HIDE DEF m
        <4> QED
          BY <3>1, <3>2, <3>3, Relink DEF p
      <3> QED
        BY <1>1, <1>2, <2>2, <3>1, <3>4, <3>5
    <2> QED
      BY <2>1, <2>2
  <1> QED
    BY <1>2, <1>3, <1>4 DEF LeadsBack, r

-----------------------------------------------------------------------------
(* Tables, column by column, and what an assignment changes.               *)

\* The three queues.
Queues == {"free", "clean", "dirty"}

\* The types of an entry, of a queue descriptor and of a table.  The counters
\* are bounded by what the links say, not by their type.
EntryType == [hash_next : Links, prev : Links, next : Links, pending : BOOLEAN,
              dirty : BOOLEAN, alloc : BOOLEAN, key : Keys \cup {NoKey}]

ListType == [nr_elts : Nat, head : Links, tail : Links]

Table == [es : [Entries -> EntryType], list : [Queues -> ListType],
          buckets : [Buckets -> Links], nr_allocated : Nat]

\* The columns of a table.
nexts(u)  == [e \in Entries |-> u.es[e].next]
prevs(u)  == [e \in Entries |-> u.es[e].prev]
hashes(u) == [e \in Entries |-> u.es[e].hash_next]
bits(u)   == [e \in Entries |-> [key |-> u.es[e].key, pending |-> u.es[e].pending,
                                 dirty |-> u.es[e].dirty, alloc |-> u.es[e].alloc]]
heads(u)  == [l \in Queues |-> u.list[l].head]
tails(u)  == [l \in Queues |-> u.list[l].tail]
counts(u) == [l \in Queues |-> u.list[l].nr_elts]

\* Two tables of which the links, the ends, the queues, the chains or the bits
\* are the same.
SameLinks(v, u)  == nexts(v) = nexts(u) /\ prevs(v) = prevs(u)
SameEnds(v, u)   == heads(v) = heads(u) /\ tails(v) = tails(u) /\ counts(v) = counts(u)
SameQueues(v, u) == SameLinks(v, u) /\ SameEnds(v, u)
SameChains(v, u) == hashes(v) = hashes(u) /\ v.buckets = u.buckets
SameBits(v, u)   == bits(v) = bits(u) /\ v.nr_allocated = u.nr_allocated

\* Assignments to one entry and to one queue descriptor.
set_entry(u, p, r) == [u EXCEPT !.es[p] = r]
set_list(u, l, r)  == [u EXCEPT !.list[l] = r]
set_buckets(u, f) == [u EXCEPT !.buckets = f]
set_allocated(u, n) == [u EXCEPT !.nr_allocated = n]
set_next(u, p, i) == [u EXCEPT !.es[p].next = i]
set_prev(u, p, i) == [u EXCEPT !.es[p].prev = i]
set_hash(u, p, i) == [u EXCEPT !.es[p].hash_next = i]
set_pending(u, p, i) == [u EXCEPT !.es[p].pending = i]
set_dirty(u, p, i) == [u EXCEPT !.es[p].dirty = i]
set_alloc(u, p, i) == [u EXCEPT !.es[p].alloc = i]
set_head(u, l, i) == [u EXCEPT !.list[l].head = i]
set_tail(u, l, i) == [u EXCEPT !.list[l].tail = i]
set_count(u, l, i) == [u EXCEPT !.list[l].nr_elts = i]

\* The parts of a table have their types,
LEMMA Parts ==
  ASSUME NEW u \in Table
  PROVE  /\ u.es \in [Entries -> EntryType] /\ u.list \in [Queues -> ListType]
         /\ u.buckets \in [Buckets -> Links] /\ u.nr_allocated \in Nat
  BY DEF Table

\* and so have those of an entry
LEMMA EntryParts ==
  ASSUME NEW u \in Table, NEW e \in Entries
  PROVE  /\ u.es[e] \in EntryType
         /\ u.es[e].hash_next \in Links /\ u.es[e].prev \in Links /\ u.es[e].next \in Links
         /\ u.es[e].pending \in BOOLEAN /\ u.es[e].dirty \in BOOLEAN /\ u.es[e].alloc \in BOOLEAN
         /\ u.es[e].key \in Keys \cup {NoKey}
  <1>1. u.es[e] \in EntryType
    BY Parts
  <1> QED
    BY <1>1 DEF EntryType

\* and those of a descriptor.
LEMMA ListParts ==
  ASSUME NEW u \in Table, NEW l \in Queues
  PROVE  /\ u.list[l] \in ListType
         /\ u.list[l].nr_elts \in Nat /\ u.list[l].head \in Links /\ u.list[l].tail \in Links
  <1>1. u.list[l] \in ListType
    BY Parts
  <1> QED
    BY <1>1 DEF ListType

\* What an entry shows besides its links.
entry_bits(r) == [key |-> r.key, pending |-> r.pending, dirty |-> r.dirty, alloc |-> r.alloc]

\* The columns after an assignment to an entry...
LEMMA SetEntry ==
  ASSUME NEW u \in Table, NEW p \in Entries, NEW r \in EntryType
  PROVE  LET v == set_entry(u, p, r) IN
         /\ v \in Table
         /\ nexts(v) = [nexts(u) EXCEPT ![p] = r.next]
         /\ prevs(v) = [prevs(u) EXCEPT ![p] = r.prev]
         /\ hashes(v) = [hashes(u) EXCEPT ![p] = r.hash_next]
         /\ bits(v) = [bits(u) EXCEPT ![p] = entry_bits(r)]
         /\ SameEnds(v, u) /\ v.buckets = u.buckets /\ v.nr_allocated = u.nr_allocated
         /\ v.es[p] = r
  <1> DEFINE v == set_entry(u, p, r)
  <1>1. /\ v.es = [u.es EXCEPT ![p] = r] /\ v.list = u.list /\ v.buckets = u.buckets
        /\ v.nr_allocated = u.nr_allocated /\ v = [u EXCEPT !.es = [u.es EXCEPT ![p] = r]]
    BY DEF Table, set_entry
  <1>2. u.es \in [Entries -> EntryType]
    BY Parts
  <1> HIDE DEF v
  <1>3. v.es[p] = r /\ \A x \in Entries \ {p} : v.es[x] = u.es[x]
    BY <1>1, <1>2
  <1>4. v.es \in [Entries -> EntryType]
    BY <1>1, <1>2, <1>3
  <1>5. v \in Table
    BY <1>1, <1>4 DEF Table
  <1>6. nexts(v) = [nexts(u) EXCEPT ![p] = r.next]
    BY <1>3 DEF nexts
  <1>7. prevs(v) = [prevs(u) EXCEPT ![p] = r.prev]
    BY <1>3 DEF prevs
  <1>8. hashes(v) = [hashes(u) EXCEPT ![p] = r.hash_next]
    BY <1>3 DEF hashes
  <1>9. bits(v) = [bits(u) EXCEPT ![p] = entry_bits(r)]
    BY <1>3 DEF bits, entry_bits
  <1>10. SameEnds(v, u)
    BY <1>1 DEF SameEnds, heads, tails, counts
  <1> QED
    BY <1>1, <1>3, <1>5, <1>6, <1>7, <1>8, <1>9, <1>10 DEF v

\* ... to a descriptor...
LEMMA SetList ==
  ASSUME NEW u \in Table, NEW l \in Queues, NEW r \in ListType
  PROVE  LET v == set_list(u, l, r) IN
         /\ v \in Table
         /\ heads(v) = [heads(u) EXCEPT ![l] = r.head]
         /\ tails(v) = [tails(u) EXCEPT ![l] = r.tail]
         /\ counts(v) = [counts(u) EXCEPT ![l] = r.nr_elts]
         /\ v.es = u.es /\ v.buckets = u.buckets /\ v.nr_allocated = u.nr_allocated
         /\ v.list[l] = r
  <1> DEFINE v == set_list(u, l, r)
  <1>1. /\ v.list = [u.list EXCEPT ![l] = r] /\ v.es = u.es /\ v.buckets = u.buckets
        /\ v.nr_allocated = u.nr_allocated /\ v = [u EXCEPT !.list = [u.list EXCEPT ![l] = r]]
    BY DEF Table, set_list
  <1>2. u.list \in [Queues -> ListType]
    BY Parts
  <1> HIDE DEF v
  <1>3. v.list[l] = r /\ \A x \in Queues \ {l} : v.list[x] = u.list[x]
    BY <1>1, <1>2
  <1>4. v.list \in [Queues -> ListType]
    BY <1>1, <1>2, <1>3
  <1>5. v \in Table
    BY <1>1, <1>4 DEF Table
  <1>6. heads(v) = [heads(u) EXCEPT ![l] = r.head]
    BY <1>3 DEF heads
  <1>7. tails(v) = [tails(u) EXCEPT ![l] = r.tail]
    BY <1>3 DEF tails
  <1>8. counts(v) = [counts(u) EXCEPT ![l] = r.nr_elts]
    BY <1>3 DEF counts
  <1> QED
    BY <1>1, <1>3, <1>5, <1>6, <1>7, <1>8 DEF v

\* ... to the buckets...
LEMMA SetBuckets ==
  ASSUME NEW u \in Table, NEW f \in [Buckets -> Links]
  PROVE  LET v == set_buckets(u, f) IN
         /\ v \in Table /\ v.es = u.es /\ v.list = u.list /\ v.buckets = f
         /\ v.nr_allocated = u.nr_allocated
  BY DEF Table, set_buckets

\* ... and to the count of allocated entries.
LEMMA SetAllocated ==
  ASSUME NEW u \in Table, NEW n \in Nat
  PROVE  LET v == set_allocated(u, n) IN
         /\ v \in Table /\ v.es = u.es /\ v.list = u.list /\ v.buckets = u.buckets
         /\ v.nr_allocated = n
  BY DEF Table, set_allocated

\* Columns of entries and of queues depend on nothing else.
LEMMA SameColumns ==
  ASSUME NEW u, NEW v
  PROVE  /\ v.es = u.es => SameLinks(v, u) /\ hashes(v) = hashes(u) /\ bits(v) = bits(u)
         /\ v.list = u.list => SameEnds(v, u)
  BY DEF SameLinks, SameEnds, nexts, prevs, hashes, bits, heads, tails, counts

\* A column at an entry,
LEMMA ColumnAt ==
  ASSUME NEW u, NEW e \in Entries
  PROVE  /\ nexts(u)[e] = u.es[e].next /\ prevs(u)[e] = u.es[e].prev
         /\ hashes(u)[e] = u.es[e].hash_next
         /\ bits(u)[e] = [key |-> u.es[e].key, pending |-> u.es[e].pending,
                          dirty |-> u.es[e].dirty, alloc |-> u.es[e].alloc]
  BY DEF nexts, prevs, hashes, bits

\* and the ends of a queue.
LEMMA EndAt ==
  ASSUME NEW u, NEW l \in Queues
  PROVE  heads(u)[l] = u.list[l].head /\ tails(u)[l] = u.list[l].tail /\ counts(u)[l] = u.list[l].nr_elts
  BY DEF heads, tails, counts

\* A column without a change.
LEMMA Unchanged ==
  ASSUME NEW u, NEW e \in Entries
  PROVE  /\ [nexts(u) EXCEPT ![e] = u.es[e].next] = nexts(u)
         /\ [prevs(u) EXCEPT ![e] = u.es[e].prev] = prevs(u)
         /\ [hashes(u) EXCEPT ![e] = u.es[e].hash_next] = hashes(u)
         /\ [bits(u) EXCEPT ![e] = [key |-> u.es[e].key, pending |-> u.es[e].pending,
                                    dirty |-> u.es[e].dirty, alloc |-> u.es[e].alloc]] = bits(u)
  BY DEF nexts, prevs, hashes, bits

\* No end changed.
LEMMA UnchangedEnds ==
  ASSUME NEW u, NEW l \in Queues
  PROVE  /\ [heads(u) EXCEPT ![l] = u.list[l].head] = heads(u)
         /\ [tails(u) EXCEPT ![l] = u.list[l].tail] = tails(u)
         /\ [counts(u) EXCEPT ![l] = u.list[l].nr_elts] = counts(u)
  BY DEF heads, tails, counts

\* Assignment to next.
LEMMA SetNext ==
  ASSUME NEW u \in Table, NEW p \in Entries, NEW i \in Links
  PROVE  LET v == set_next(u, p, i) IN
         /\ v \in Table
         /\ nexts(v) = [nexts(u) EXCEPT ![p] = i]
         /\ prevs(v) = prevs(u)
         /\ hashes(v) = hashes(u)
         /\ bits(v) = bits(u)
         /\ SameEnds(v, u)
         /\ v.buckets = u.buckets
         /\ v.nr_allocated = u.nr_allocated
  <1> DEFINE r == [u.es[p] EXCEPT !.next = i]
             v == set_next(u, p, i)
  <1>1. /\ r \in EntryType /\ r.next = i
        /\ r.hash_next = u.es[p].hash_next /\ r.prev = u.es[p].prev /\ r.pending = u.es[p].pending
        /\ r.dirty = u.es[p].dirty /\ r.alloc = u.es[p].alloc /\ r.key = u.es[p].key
    BY EntryParts DEF EntryType
  <1>2. v = set_entry(u, p, r)
    BY DEF set_next, set_entry
  <1> HIDE DEF r, v
  <1>3. /\ v \in Table
        /\ nexts(v) = [nexts(u) EXCEPT ![p] = r.next]
        /\ prevs(v) = [prevs(u) EXCEPT ![p] = r.prev]
        /\ hashes(v) = [hashes(u) EXCEPT ![p] = r.hash_next]
        /\ bits(v) = [bits(u) EXCEPT ![p] = [key |-> r.key, pending |-> r.pending,
                                              dirty |-> r.dirty, alloc |-> r.alloc]]
        /\ SameEnds(v, u) /\ v.buckets = u.buckets /\ v.nr_allocated = u.nr_allocated
    BY <1>1, <1>2, SetEntry DEF entry_bits
  <1>4. /\ [nexts(u) EXCEPT ![p] = u.es[p].next] = nexts(u)
        /\ [prevs(u) EXCEPT ![p] = u.es[p].prev] = prevs(u)
        /\ [hashes(u) EXCEPT ![p] = u.es[p].hash_next] = hashes(u)
        /\ [bits(u) EXCEPT ![p] = [key |-> u.es[p].key, pending |-> u.es[p].pending,
                                   dirty |-> u.es[p].dirty, alloc |-> u.es[p].alloc]] = bits(u)
    BY Unchanged
  <1> QED
    BY <1>1, <1>3, <1>4 DEF v, SameLinks

\* Assignment to prev.
LEMMA SetPrev ==
  ASSUME NEW u \in Table, NEW p \in Entries, NEW i \in Links
  PROVE  LET v == set_prev(u, p, i) IN
         /\ v \in Table
         /\ nexts(v) = nexts(u)
         /\ prevs(v) = [prevs(u) EXCEPT ![p] = i]
         /\ hashes(v) = hashes(u)
         /\ bits(v) = bits(u)
         /\ SameEnds(v, u)
         /\ v.buckets = u.buckets
         /\ v.nr_allocated = u.nr_allocated
  <1> DEFINE r == [u.es[p] EXCEPT !.prev = i]
             v == set_prev(u, p, i)
  <1>1. /\ r \in EntryType /\ r.prev = i
        /\ r.hash_next = u.es[p].hash_next /\ r.next = u.es[p].next /\ r.pending = u.es[p].pending
        /\ r.dirty = u.es[p].dirty /\ r.alloc = u.es[p].alloc /\ r.key = u.es[p].key
    BY EntryParts DEF EntryType
  <1>2. v = set_entry(u, p, r)
    BY DEF set_prev, set_entry
  <1> HIDE DEF r, v
  <1>3. /\ v \in Table
        /\ nexts(v) = [nexts(u) EXCEPT ![p] = r.next]
        /\ prevs(v) = [prevs(u) EXCEPT ![p] = r.prev]
        /\ hashes(v) = [hashes(u) EXCEPT ![p] = r.hash_next]
        /\ bits(v) = [bits(u) EXCEPT ![p] = [key |-> r.key, pending |-> r.pending,
                                              dirty |-> r.dirty, alloc |-> r.alloc]]
        /\ SameEnds(v, u) /\ v.buckets = u.buckets /\ v.nr_allocated = u.nr_allocated
    BY <1>1, <1>2, SetEntry DEF entry_bits
  <1>4. /\ [nexts(u) EXCEPT ![p] = u.es[p].next] = nexts(u)
        /\ [prevs(u) EXCEPT ![p] = u.es[p].prev] = prevs(u)
        /\ [hashes(u) EXCEPT ![p] = u.es[p].hash_next] = hashes(u)
        /\ [bits(u) EXCEPT ![p] = [key |-> u.es[p].key, pending |-> u.es[p].pending,
                                   dirty |-> u.es[p].dirty, alloc |-> u.es[p].alloc]] = bits(u)
    BY Unchanged
  <1> QED
    BY <1>1, <1>3, <1>4 DEF v, SameLinks

\* Assignment to hash_next.
LEMMA SetHash ==
  ASSUME NEW u \in Table, NEW p \in Entries, NEW i \in Links
  PROVE  LET v == set_hash(u, p, i) IN
         /\ v \in Table
         /\ nexts(v) = nexts(u)
         /\ prevs(v) = prevs(u)
         /\ hashes(v) = [hashes(u) EXCEPT ![p] = i]
         /\ bits(v) = bits(u)
         /\ SameEnds(v, u)
         /\ v.buckets = u.buckets
         /\ v.nr_allocated = u.nr_allocated
  <1> DEFINE r == [u.es[p] EXCEPT !.hash_next = i]
             v == set_hash(u, p, i)
  <1>1. /\ r \in EntryType /\ r.hash_next = i
        /\ r.prev = u.es[p].prev /\ r.next = u.es[p].next /\ r.pending = u.es[p].pending
        /\ r.dirty = u.es[p].dirty /\ r.alloc = u.es[p].alloc /\ r.key = u.es[p].key
    BY EntryParts DEF EntryType
  <1>2. v = set_entry(u, p, r)
    BY DEF set_hash, set_entry
  <1> HIDE DEF r, v
  <1>3. /\ v \in Table
        /\ nexts(v) = [nexts(u) EXCEPT ![p] = r.next]
        /\ prevs(v) = [prevs(u) EXCEPT ![p] = r.prev]
        /\ hashes(v) = [hashes(u) EXCEPT ![p] = r.hash_next]
        /\ bits(v) = [bits(u) EXCEPT ![p] = [key |-> r.key, pending |-> r.pending,
                                              dirty |-> r.dirty, alloc |-> r.alloc]]
        /\ SameEnds(v, u) /\ v.buckets = u.buckets /\ v.nr_allocated = u.nr_allocated
    BY <1>1, <1>2, SetEntry DEF entry_bits
  <1>4. /\ [nexts(u) EXCEPT ![p] = u.es[p].next] = nexts(u)
        /\ [prevs(u) EXCEPT ![p] = u.es[p].prev] = prevs(u)
        /\ [hashes(u) EXCEPT ![p] = u.es[p].hash_next] = hashes(u)
        /\ [bits(u) EXCEPT ![p] = [key |-> u.es[p].key, pending |-> u.es[p].pending,
                                   dirty |-> u.es[p].dirty, alloc |-> u.es[p].alloc]] = bits(u)
    BY Unchanged
  <1> QED
    BY <1>1, <1>3, <1>4 DEF v, SameLinks

\* Assignment to the pending bit.
LEMMA SetPending ==
  ASSUME NEW u \in Table, NEW p \in Entries, NEW i \in BOOLEAN
  PROVE  LET v == set_pending(u, p, i) IN
         /\ v \in Table
         /\ SameLinks(v, u)
         /\ hashes(v) = hashes(u)
         /\ bits(v) = [bits(u) EXCEPT ![p].pending = i]
         /\ SameEnds(v, u)
         /\ v.buckets = u.buckets
         /\ v.nr_allocated = u.nr_allocated
  <1> DEFINE r == [u.es[p] EXCEPT !.pending = i]
             v == set_pending(u, p, i)
  <1>1. /\ r \in EntryType /\ r.pending = i
        /\ r.hash_next = u.es[p].hash_next /\ r.prev = u.es[p].prev /\ r.next = u.es[p].next
        /\ r.dirty = u.es[p].dirty /\ r.alloc = u.es[p].alloc /\ r.key = u.es[p].key
    BY EntryParts DEF EntryType
  <1>2. v = set_entry(u, p, r)
    BY DEF set_pending, set_entry
  <1> HIDE DEF r, v
  <1>3. /\ v \in Table
        /\ nexts(v) = [nexts(u) EXCEPT ![p] = r.next]
        /\ prevs(v) = [prevs(u) EXCEPT ![p] = r.prev]
        /\ hashes(v) = [hashes(u) EXCEPT ![p] = r.hash_next]
        /\ bits(v) = [bits(u) EXCEPT ![p] = [key |-> r.key, pending |-> r.pending,
                                              dirty |-> r.dirty, alloc |-> r.alloc]]
        /\ SameEnds(v, u) /\ v.buckets = u.buckets /\ v.nr_allocated = u.nr_allocated
    BY <1>1, <1>2, SetEntry DEF entry_bits
  <1>4. /\ [nexts(u) EXCEPT ![p] = u.es[p].next] = nexts(u)
        /\ [prevs(u) EXCEPT ![p] = u.es[p].prev] = prevs(u)
        /\ [hashes(u) EXCEPT ![p] = u.es[p].hash_next] = hashes(u)
        /\ [bits(u) EXCEPT ![p] = [key |-> u.es[p].key, pending |-> u.es[p].pending,
                                   dirty |-> u.es[p].dirty, alloc |-> u.es[p].alloc]] = bits(u)
    BY Unchanged
  <1>5. [bits(u) EXCEPT ![p].pending = i] = [bits(u) EXCEPT ![p] = [key |-> r.key, pending |-> r.pending,
                                              dirty |-> r.dirty, alloc |-> r.alloc]]
    <2>1. [bits(u)[p] EXCEPT !.pending = i] = [key |-> r.key, pending |-> r.pending,
                                              dirty |-> r.dirty, alloc |-> r.alloc]
      <3>1. bits(u)[p] = [key |-> u.es[p].key, pending |-> u.es[p].pending,
                          dirty |-> u.es[p].dirty, alloc |-> u.es[p].alloc]
        BY ColumnAt
      <3>2. ASSUME NEW k, NEW x, NEW y, NEW z
            PROVE  [[key |-> k, pending |-> x, dirty |-> y, alloc |-> z] EXCEPT !.pending = i]
                     = [key |-> k, pending |-> i, dirty |-> y, alloc |-> z]
        OBVIOUS
      <3> QED
        BY <1>1, <3>1, <3>2
    <2> QED
      BY <2>1
  <1> QED
    BY <1>1, <1>3, <1>4, <1>5 DEF v, SameLinks

\* Assignment to the dirty bit.
LEMMA SetDirty ==
  ASSUME NEW u \in Table, NEW p \in Entries, NEW i \in BOOLEAN
  PROVE  LET v == set_dirty(u, p, i) IN
         /\ v \in Table
         /\ SameLinks(v, u)
         /\ hashes(v) = hashes(u)
         /\ bits(v) = [bits(u) EXCEPT ![p].dirty = i]
         /\ SameEnds(v, u)
         /\ v.buckets = u.buckets
         /\ v.nr_allocated = u.nr_allocated
  <1> DEFINE r == [u.es[p] EXCEPT !.dirty = i]
             v == set_dirty(u, p, i)
  <1>1. /\ r \in EntryType /\ r.dirty = i
        /\ r.hash_next = u.es[p].hash_next /\ r.prev = u.es[p].prev /\ r.next = u.es[p].next
        /\ r.pending = u.es[p].pending /\ r.alloc = u.es[p].alloc /\ r.key = u.es[p].key
    BY EntryParts DEF EntryType
  <1>2. v = set_entry(u, p, r)
    BY DEF set_dirty, set_entry
  <1> HIDE DEF r, v
  <1>3. /\ v \in Table
        /\ nexts(v) = [nexts(u) EXCEPT ![p] = r.next]
        /\ prevs(v) = [prevs(u) EXCEPT ![p] = r.prev]
        /\ hashes(v) = [hashes(u) EXCEPT ![p] = r.hash_next]
        /\ bits(v) = [bits(u) EXCEPT ![p] = [key |-> r.key, pending |-> r.pending,
                                              dirty |-> r.dirty, alloc |-> r.alloc]]
        /\ SameEnds(v, u) /\ v.buckets = u.buckets /\ v.nr_allocated = u.nr_allocated
    BY <1>1, <1>2, SetEntry DEF entry_bits
  <1>4. /\ [nexts(u) EXCEPT ![p] = u.es[p].next] = nexts(u)
        /\ [prevs(u) EXCEPT ![p] = u.es[p].prev] = prevs(u)
        /\ [hashes(u) EXCEPT ![p] = u.es[p].hash_next] = hashes(u)
        /\ [bits(u) EXCEPT ![p] = [key |-> u.es[p].key, pending |-> u.es[p].pending,
                                   dirty |-> u.es[p].dirty, alloc |-> u.es[p].alloc]] = bits(u)
    BY Unchanged
  <1>5. [bits(u) EXCEPT ![p].dirty = i] = [bits(u) EXCEPT ![p] = [key |-> r.key, pending |-> r.pending,
                                              dirty |-> r.dirty, alloc |-> r.alloc]]
    <2>1. [bits(u)[p] EXCEPT !.dirty = i] = [key |-> r.key, pending |-> r.pending,
                                              dirty |-> r.dirty, alloc |-> r.alloc]
      <3>1. bits(u)[p] = [key |-> u.es[p].key, pending |-> u.es[p].pending,
                          dirty |-> u.es[p].dirty, alloc |-> u.es[p].alloc]
        BY ColumnAt
      <3>2. ASSUME NEW k, NEW x, NEW y, NEW z
            PROVE  [[key |-> k, pending |-> x, dirty |-> y, alloc |-> z] EXCEPT !.dirty = i]
                     = [key |-> k, pending |-> x, dirty |-> i, alloc |-> z]
        OBVIOUS
      <3> QED
        BY <1>1, <3>1, <3>2
    <2> QED
      BY <2>1
  <1> QED
    BY <1>1, <1>3, <1>4, <1>5 DEF v, SameLinks

\* Assignment to the alloc bit.
LEMMA SetAlloc ==
  ASSUME NEW u \in Table, NEW p \in Entries, NEW i \in BOOLEAN
  PROVE  LET v == set_alloc(u, p, i) IN
         /\ v \in Table
         /\ SameLinks(v, u)
         /\ hashes(v) = hashes(u)
         /\ bits(v) = [bits(u) EXCEPT ![p].alloc = i]
         /\ SameEnds(v, u)
         /\ v.buckets = u.buckets
         /\ v.nr_allocated = u.nr_allocated
  <1> DEFINE r == [u.es[p] EXCEPT !.alloc = i]
             v == set_alloc(u, p, i)
  <1>1. /\ r \in EntryType /\ r.alloc = i
        /\ r.hash_next = u.es[p].hash_next /\ r.prev = u.es[p].prev /\ r.next = u.es[p].next
        /\ r.pending = u.es[p].pending /\ r.dirty = u.es[p].dirty /\ r.key = u.es[p].key
    BY EntryParts DEF EntryType
  <1>2. v = set_entry(u, p, r)
    BY DEF set_alloc, set_entry
  <1> HIDE DEF r, v
  <1>3. /\ v \in Table
        /\ nexts(v) = [nexts(u) EXCEPT ![p] = r.next]
        /\ prevs(v) = [prevs(u) EXCEPT ![p] = r.prev]
        /\ hashes(v) = [hashes(u) EXCEPT ![p] = r.hash_next]
        /\ bits(v) = [bits(u) EXCEPT ![p] = [key |-> r.key, pending |-> r.pending,
                                              dirty |-> r.dirty, alloc |-> r.alloc]]
        /\ SameEnds(v, u) /\ v.buckets = u.buckets /\ v.nr_allocated = u.nr_allocated
    BY <1>1, <1>2, SetEntry DEF entry_bits
  <1>4. /\ [nexts(u) EXCEPT ![p] = u.es[p].next] = nexts(u)
        /\ [prevs(u) EXCEPT ![p] = u.es[p].prev] = prevs(u)
        /\ [hashes(u) EXCEPT ![p] = u.es[p].hash_next] = hashes(u)
        /\ [bits(u) EXCEPT ![p] = [key |-> u.es[p].key, pending |-> u.es[p].pending,
                                   dirty |-> u.es[p].dirty, alloc |-> u.es[p].alloc]] = bits(u)
    BY Unchanged
  <1>5. [bits(u) EXCEPT ![p].alloc = i] = [bits(u) EXCEPT ![p] = [key |-> r.key, pending |-> r.pending,
                                              dirty |-> r.dirty, alloc |-> r.alloc]]
    <2>1. [bits(u)[p] EXCEPT !.alloc = i] = [key |-> r.key, pending |-> r.pending,
                                              dirty |-> r.dirty, alloc |-> r.alloc]
      <3>1. bits(u)[p] = [key |-> u.es[p].key, pending |-> u.es[p].pending,
                          dirty |-> u.es[p].dirty, alloc |-> u.es[p].alloc]
        BY ColumnAt
      <3>2. ASSUME NEW k, NEW x, NEW y, NEW z
            PROVE  [[key |-> k, pending |-> x, dirty |-> y, alloc |-> z] EXCEPT !.alloc = i]
                     = [key |-> k, pending |-> x, dirty |-> y, alloc |-> i]
        OBVIOUS
      <3> QED
        BY <1>1, <3>1, <3>2
    <2> QED
      BY <2>1
  <1> QED
    BY <1>1, <1>3, <1>4, <1>5 DEF v, SameLinks

\* Assignment to the head of a queue.
LEMMA SetHead ==
  ASSUME NEW u \in Table, NEW l \in Queues, NEW i \in Links
  PROVE  LET v == set_head(u, l, i) IN
         /\ v \in Table
         /\ heads(v) = [heads(u) EXCEPT ![l] = i]
         /\ tails(v) = tails(u)
         /\ counts(v) = counts(u)
         /\ SameLinks(v, u) /\ SameChains(v, u) /\ SameBits(v, u)
  <1> DEFINE r == [u.list[l] EXCEPT !.head = i]
             v == set_head(u, l, i)
  <1>1. /\ r \in ListType /\ r.head = i
        /\ r.tail = u.list[l].tail /\ r.nr_elts = u.list[l].nr_elts
    BY ListParts DEF ListType
  <1>2. v = set_list(u, l, r)
    BY DEF set_head, set_list
  <1> HIDE DEF r, v
  <1>3. /\ v \in Table
        /\ heads(v) = [heads(u) EXCEPT ![l] = r.head]
        /\ tails(v) = [tails(u) EXCEPT ![l] = r.tail]
        /\ counts(v) = [counts(u) EXCEPT ![l] = r.nr_elts]
        /\ v.es = u.es /\ v.buckets = u.buckets /\ v.nr_allocated = u.nr_allocated
    BY <1>1, <1>2, SetList
  <1>4. /\ [heads(u) EXCEPT ![l] = u.list[l].head] = heads(u)
        /\ [tails(u) EXCEPT ![l] = u.list[l].tail] = tails(u)
        /\ [counts(u) EXCEPT ![l] = u.list[l].nr_elts] = counts(u)
    BY UnchangedEnds
  <1>5. SameLinks(v, u) /\ hashes(v) = hashes(u) /\ bits(v) = bits(u)
    BY <1>3, SameColumns
  <1> QED
    BY <1>1, <1>3, <1>4, <1>5 DEF v, SameChains, SameBits

\* Assignment to the tail of a queue.
LEMMA SetTail ==
  ASSUME NEW u \in Table, NEW l \in Queues, NEW i \in Links
  PROVE  LET v == set_tail(u, l, i) IN
         /\ v \in Table
         /\ heads(v) = heads(u)
         /\ tails(v) = [tails(u) EXCEPT ![l] = i]
         /\ counts(v) = counts(u)
         /\ SameLinks(v, u) /\ SameChains(v, u) /\ SameBits(v, u)
  <1> DEFINE r == [u.list[l] EXCEPT !.tail = i]
             v == set_tail(u, l, i)
  <1>1. /\ r \in ListType /\ r.tail = i
        /\ r.head = u.list[l].head /\ r.nr_elts = u.list[l].nr_elts
    BY ListParts DEF ListType
  <1>2. v = set_list(u, l, r)
    BY DEF set_tail, set_list
  <1> HIDE DEF r, v
  <1>3. /\ v \in Table
        /\ heads(v) = [heads(u) EXCEPT ![l] = r.head]
        /\ tails(v) = [tails(u) EXCEPT ![l] = r.tail]
        /\ counts(v) = [counts(u) EXCEPT ![l] = r.nr_elts]
        /\ v.es = u.es /\ v.buckets = u.buckets /\ v.nr_allocated = u.nr_allocated
    BY <1>1, <1>2, SetList
  <1>4. /\ [heads(u) EXCEPT ![l] = u.list[l].head] = heads(u)
        /\ [tails(u) EXCEPT ![l] = u.list[l].tail] = tails(u)
        /\ [counts(u) EXCEPT ![l] = u.list[l].nr_elts] = counts(u)
    BY UnchangedEnds
  <1>5. SameLinks(v, u) /\ hashes(v) = hashes(u) /\ bits(v) = bits(u)
    BY <1>3, SameColumns
  <1> QED
    BY <1>1, <1>3, <1>4, <1>5 DEF v, SameChains, SameBits

\* Assignment to the count of a queue.
LEMMA SetCount ==
  ASSUME NEW u \in Table, NEW l \in Queues, NEW i \in Nat
  PROVE  LET v == set_count(u, l, i) IN
         /\ v \in Table
         /\ heads(v) = heads(u)
         /\ tails(v) = tails(u)
         /\ counts(v) = [counts(u) EXCEPT ![l] = i]
         /\ SameLinks(v, u) /\ SameChains(v, u) /\ SameBits(v, u)
  <1> DEFINE r == [u.list[l] EXCEPT !.nr_elts = i]
             v == set_count(u, l, i)
  <1>1. /\ r \in ListType /\ r.nr_elts = i
        /\ r.head = u.list[l].head /\ r.tail = u.list[l].tail
    BY ListParts DEF ListType
  <1>2. v = set_list(u, l, r)
    BY DEF set_count, set_list
  <1> HIDE DEF r, v
  <1>3. /\ v \in Table
        /\ heads(v) = [heads(u) EXCEPT ![l] = r.head]
        /\ tails(v) = [tails(u) EXCEPT ![l] = r.tail]
        /\ counts(v) = [counts(u) EXCEPT ![l] = r.nr_elts]
        /\ v.es = u.es /\ v.buckets = u.buckets /\ v.nr_allocated = u.nr_allocated
    BY <1>1, <1>2, SetList
  <1>4. /\ [heads(u) EXCEPT ![l] = u.list[l].head] = heads(u)
        /\ [tails(u) EXCEPT ![l] = u.list[l].tail] = tails(u)
        /\ [counts(u) EXCEPT ![l] = u.list[l].nr_elts] = counts(u)
    BY UnchangedEnds
  <1>5. SameLinks(v, u) /\ hashes(v) = hashes(u) /\ bits(v) = bits(u)
    BY <1>3, SameColumns
  <1> QED
    BY <1>1, <1>3, <1>4, <1>5 DEF v, SameChains, SameBits

\* Counts stay below the size of their type.
LEMMA Counting ==
  ASSUME NEW n \in Nat
  PROVE  /\ (n + 1) % UINT_MOD \in Nat /\ (n + UINT_MOD - 1) % UINT_MOD \in Nat
         /\ n < N => (n + 1) % UINT_MOD = n + 1
         /\ n > 0 /\ n <= N => (n + UINT_MOD - 1) % UINT_MOD = n - 1
  <1>1. UINT_MOD \in Nat \ {0} /\ N \in Nat /\ N < UINT_MOD
    BY Constants
  <1>2. \A m \in Nat : m % UINT_MOD \in Nat
    BY <1>1
  <1>3. \A m \in Nat : m < UINT_MOD => m % UINT_MOD = m
    BY <1>1
  <1>4. \A m \in Nat : m < UINT_MOD => (m + UINT_MOD) % UINT_MOD = m
    BY <1>1
  <1>5. n + 1 \in Nat /\ n + UINT_MOD - 1 \in Nat
    BY <1>1
  <1>6. n < N => (n + 1) % UINT_MOD = n + 1
    BY <1>1, <1>3, <1>5
  <1>7. ASSUME n > 0, n <= N PROVE (n + UINT_MOD - 1) % UINT_MOD = n - 1
    <2>1. n - 1 \in Nat /\ n - 1 < UINT_MOD /\ n + UINT_MOD - 1 = (n - 1) + UINT_MOD
      BY <1>1, <1>7
    <2> QED
      BY <1>4, <2>1
  <1> QED
    BY <1>2, <1>5, <1>6, <1>7

\* What l_del does to the columns.
LEMMA DelEffect ==
  ASSUME NEW u \in Table, NEW l \in Queues, NEW e \in Entries
  PROVE  LET v == l_del(u, l, e)
             prev == u.es[e].prev
             next == u.es[e].next
         IN /\ v \in Table /\ SameChains(v, u) /\ SameBits(v, u)
            /\ nexts(v) = IF prev = INDEXER_NULL THEN nexts(u) ELSE [nexts(u) EXCEPT ![prev] = next]
            /\ prevs(v) = IF next = INDEXER_NULL THEN prevs(u) ELSE [prevs(u) EXCEPT ![next] = prev]
            /\ heads(v) = IF prev = INDEXER_NULL THEN [heads(u) EXCEPT ![l] = next] ELSE heads(u)
            /\ tails(v) = IF next = INDEXER_NULL THEN [tails(u) EXCEPT ![l] = prev] ELSE tails(u)
            /\ counts(v) = [counts(u) EXCEPT ![l] = (u.list[l].nr_elts + UINT_MOD - 1) % UINT_MOD]
  <1> DEFINE prev == u.es[e].prev
             next == u.es[e].next
             a == IF prev = INDEXER_NULL THEN set_head(u, l, next) ELSE set_next(u, prev, next)
             b == IF next = INDEXER_NULL THEN set_tail(a, l, prev) ELSE set_prev(a, next, prev)
             n == (b.list[l].nr_elts + UINT_MOD - 1) % UINT_MOD
             v == l_del(u, l, e)
  <1>1. v = set_count(b, l, n)
    BY DEF l_del, set_head, set_next, set_tail, set_prev, set_count
  <1>2. /\ prev \in Links /\ next \in Links
        /\ prev # INDEXER_NULL => prev \in Entries
        /\ next # INDEXER_NULL => next \in Entries
    BY EntryParts DEF Links
  <1> HIDE DEF prev, next, v
  <1>3. /\ a \in Table /\ SameChains(a, u) /\ SameBits(a, u)
        /\ nexts(a) = IF prev = INDEXER_NULL THEN nexts(u) ELSE [nexts(u) EXCEPT ![prev] = next]
        /\ prevs(a) = prevs(u)
        /\ heads(a) = IF prev = INDEXER_NULL THEN [heads(u) EXCEPT ![l] = next] ELSE heads(u)
        /\ tails(a) = tails(u) /\ counts(a) = counts(u)
    <2>1. CASE prev = INDEXER_NULL
      <3>1. a = set_head(u, l, next)
        BY <2>1
      <3> HIDE DEF a
      <3> QED
        BY <1>2, <2>1, <3>1, SetHead DEF SameLinks
    <2>2. CASE prev # INDEXER_NULL
      <3>1. a = set_next(u, prev, next)
        BY <2>2
      <3> HIDE DEF a
      <3> QED
        BY <1>2, <2>2, <3>1, SetNext DEF SameEnds, SameChains, SameBits
    <2> QED
      BY <2>1, <2>2
  <1> HIDE DEF a
  <1>4. /\ b \in Table /\ SameChains(b, a) /\ SameBits(b, a)
        /\ prevs(b) = IF next = INDEXER_NULL THEN prevs(u) ELSE [prevs(u) EXCEPT ![next] = prev]
        /\ nexts(b) = nexts(a)
        /\ tails(b) = IF next = INDEXER_NULL THEN [tails(u) EXCEPT ![l] = prev] ELSE tails(u)
        /\ heads(b) = heads(a) /\ counts(b) = counts(u)
    <2>1. CASE next = INDEXER_NULL
      <3>1. b = set_tail(a, l, prev)
        BY <2>1
      <3> HIDE DEF b
      <3> QED
        BY <1>2, <1>3, <2>1, <3>1, SetTail DEF SameLinks
    <2>2. CASE next # INDEXER_NULL
      <3>1. b = set_prev(a, next, prev)
        BY <2>2
      <3> HIDE DEF b
      <3>2. /\ b \in Table /\ prevs(b) = [prevs(a) EXCEPT ![next] = prev] /\ nexts(b) = nexts(a)
            /\ hashes(b) = hashes(a) /\ bits(b) = bits(a) /\ SameEnds(b, a)
            /\ b.buckets = a.buckets /\ b.nr_allocated = a.nr_allocated
        <4>1. next \in Entries /\ prev \in Links /\ a \in Table
          BY <1>2, <1>3, <2>2
        <4> QED
          BY <3>1, <4>1, SetPrev
      <3> QED
        BY <1>3, <2>2, <3>2 DEF SameEnds, SameChains, SameBits
    <2> QED
      BY <2>1, <2>2
  <1> HIDE DEF b
  <1>5. n \in Nat /\ b.list[l].nr_elts = u.list[l].nr_elts
    <2>1. b.list[l].nr_elts = u.list[l].nr_elts
      BY <1>4, EndAt
    <2> QED
      BY <2>1, ListParts, Counting
  <1>6. n = (u.list[l].nr_elts + UINT_MOD - 1) % UINT_MOD
    BY <1>5
  <1> HIDE DEF n
  <1>7. /\ v \in Table /\ counts(v) = [counts(u) EXCEPT ![l] = n]
        /\ heads(v) = heads(b) /\ tails(v) = tails(b)
        /\ SameLinks(v, b) /\ SameChains(v, b) /\ SameBits(v, b)
    BY <1>1, <1>4, <1>5, SetCount
  <1> QED
    BY <1>3, <1>4, <1>6, <1>7 DEF SameLinks, SameChains, SameBits, v, prev, next

\* What l_add_tail does to the columns.
LEMMA AddTailEffect ==
  ASSUME NEW u \in Table, NEW l \in Queues, NEW e \in Entries, u.list[l].tail # e
  PROVE  LET v == l_add_tail(u, l, e)
             last == u.list[l].tail
         IN /\ v \in Table /\ SameChains(v, u) /\ SameBits(v, u)
            /\ nexts(v) = IF last = INDEXER_NULL THEN [nexts(u) EXCEPT ![e] = INDEXER_NULL]
                          ELSE [[nexts(u) EXCEPT ![e] = INDEXER_NULL] EXCEPT ![last] = e]
            /\ prevs(v) = [prevs(u) EXCEPT ![e] = last]
            /\ tails(v) = [tails(u) EXCEPT ![l] = e]
            /\ heads(v) = IF last = INDEXER_NULL THEN [heads(u) EXCEPT ![l] = e] ELSE heads(u)
            /\ counts(v) = [counts(u) EXCEPT ![l] = (u.list[l].nr_elts + 1) % UINT_MOD]
  <1> DEFINE last == u.list[l].tail
             n == (u.list[l].nr_elts + 1) % UINT_MOD
             a == set_next(u, e, INDEXER_NULL)
             b == set_prev(a, e, last)
             c == set_tail(b, l, e)
             d == set_count(c, l, n)
             v == l_add_tail(u, l, e)
  <1>1. /\ last \in Links /\ e \in Links /\ INDEXER_NULL \in Links
        /\ last # INDEXER_NULL => last \in Entries
        /\ n \in Nat
    BY ListParts, Counting DEF Links
  <1>2. /\ a \in Table /\ nexts(a) = [nexts(u) EXCEPT ![e] = INDEXER_NULL] /\ prevs(a) = prevs(u)
        /\ SameEnds(a, u) /\ SameChains(a, u) /\ SameBits(a, u)
    <2> HIDE DEF n, last
    <2> QED
      BY <1>1, SetNext DEF SameChains, SameBits
  <1>3. /\ b \in Table /\ prevs(b) = [prevs(a) EXCEPT ![e] = last] /\ nexts(b) = nexts(a)
        /\ SameEnds(b, a) /\ SameChains(b, a) /\ SameBits(b, a)
    <2> HIDE DEF n, last, a
    <2> QED
      BY <1>1, <1>2, SetPrev DEF SameChains, SameBits
  <1>4. /\ c \in Table /\ tails(c) = [tails(b) EXCEPT ![l] = e] /\ heads(c) = heads(b) /\ counts(c) = counts(b)
        /\ SameLinks(c, b) /\ SameChains(c, b) /\ SameBits(c, b)
    <2> HIDE DEF n, last, a, b
    <2> QED
      BY <1>1, <1>3, SetTail
  <1>5. /\ d \in Table /\ tails(d) = tails(c) /\ heads(d) = heads(c) /\ counts(d) = [counts(c) EXCEPT ![l] = n]
        /\ SameLinks(d, c) /\ SameChains(d, c) /\ SameBits(d, c)
    <2> HIDE DEF n, last, a, b, c
    <2> QED
      BY <1>1, <1>4, SetCount
  <1>6. v = IF last = INDEXER_NULL THEN set_head(d, l, e) ELSE set_next(d, last, e)
    <2>1. d = [u EXCEPT !.es[e].next = INDEXER_NULL, !.es[e].prev = last,
                        !.list[l].tail = e, !.list[l].nr_elts = (@ + 1) % UINT_MOD]
      <3> DEFINE w == [u EXCEPT !.es[e].next = INDEXER_NULL, !.es[e].prev = last,
                                !.list[l].tail = e, !.list[l].nr_elts = (@ + 1) % UINT_MOD]
      <3> USE DEF set_next, set_prev, set_tail, set_count
      <3>1. w = [u EXCEPT !.es = w.es, !.list = w.list]
        BY ZenonT(60) DEF Table
      <3>2. d = [u EXCEPT !.es = d.es, !.list = d.list]
        BY ZenonT(60) DEF Table
      <3>3. d.es = w.es
        BY DEF Table
      <3>4. d.list = w.list
        BY DEF Table
      <3> HIDE DEF d, w
      <3> QED
        BY <3>1, <3>2, <3>3, <3>4 DEF w
    <2>2. v = LET x == [u EXCEPT !.es[e].next = INDEXER_NULL, !.es[e].prev = last,
                                 !.list[l].tail = e, !.list[l].nr_elts = (@ + 1) % UINT_MOD]
              IN IF last = INDEXER_NULL THEN [x EXCEPT !.list[l].head = e] ELSE [x EXCEPT !.es[last].next = e]
      BY DEF l_add_tail, l_head
    <2>3. v = IF last = INDEXER_NULL THEN [d EXCEPT !.list[l].head = e] ELSE [d EXCEPT !.es[last].next = e]
      <3> HIDE DEF v, last, d
      <3> QED
        BY <2>1, <2>2
    <2> HIDE DEF d, v, last
    <2> QED
      BY <2>3 DEF set_head, set_next
  <1> HIDE DEF v, n, a, b, c, d
  <1>7. last # e
    OBVIOUS
  <1> HIDE DEF last
  <1>8. /\ v \in Table /\ SameChains(v, d) /\ SameBits(v, d) /\ counts(v) = counts(d)
        /\ nexts(v) = IF last = INDEXER_NULL THEN nexts(d) ELSE [nexts(d) EXCEPT ![last] = e]
        /\ prevs(v) = prevs(d) /\ tails(v) = tails(d)
        /\ heads(v) = IF last = INDEXER_NULL THEN [heads(d) EXCEPT ![l] = e] ELSE heads(d)
    <2>1. CASE last = INDEXER_NULL
      BY <1>1, <1>5, <1>6, <2>1, SetHead DEF SameLinks
    <2>2. CASE last # INDEXER_NULL
      <3>1. v = set_next(d, last, e) /\ d \in Table /\ last \in Entries /\ e \in Links
        BY <1>1, <1>5, <1>6, <2>2
      <3>2. /\ v \in Table /\ nexts(v) = [nexts(d) EXCEPT ![last] = e] /\ prevs(v) = prevs(d)
            /\ hashes(v) = hashes(d) /\ bits(v) = bits(d) /\ SameEnds(v, d)
            /\ v.buckets = d.buckets /\ v.nr_allocated = d.nr_allocated
        BY <3>1, SetNext
      <3> QED
        BY <2>2, <3>2 DEF SameEnds, SameChains, SameBits
    <2> QED
      BY <2>1, <2>2
  <1>9. SameChains(v, u) /\ SameBits(v, u)
    BY <1>2, <1>3, <1>4, <1>5, <1>8 DEF SameChains, SameBits
  <1>10. /\ nexts(d) = [nexts(u) EXCEPT ![e] = INDEXER_NULL] /\ prevs(d) = [prevs(u) EXCEPT ![e] = last]
         /\ tails(d) = [tails(u) EXCEPT ![l] = e] /\ heads(d) = heads(u)
         /\ counts(d) = [counts(u) EXCEPT ![l] = n]
    BY <1>2, <1>3, <1>4, <1>5 DEF SameLinks, SameEnds
  <1> QED
    BY <1>8, <1>9, <1>10 DEF v, n, last

\* What l_add_head does to the columns.
LEMMA AddHeadEffect ==
  ASSUME NEW u \in Table, NEW l \in Queues, NEW e \in Entries, u.list[l].head # e
  PROVE  LET v == l_add_head(u, l, e)
             last == u.list[l].head
         IN /\ v \in Table /\ SameChains(v, u) /\ SameBits(v, u)
            /\ prevs(v) = IF last = INDEXER_NULL THEN [prevs(u) EXCEPT ![e] = INDEXER_NULL]
                          ELSE [[prevs(u) EXCEPT ![e] = INDEXER_NULL] EXCEPT ![last] = e]
            /\ nexts(v) = [nexts(u) EXCEPT ![e] = last]
            /\ heads(v) = [heads(u) EXCEPT ![l] = e]
            /\ tails(v) = IF last = INDEXER_NULL THEN [tails(u) EXCEPT ![l] = e] ELSE tails(u)
            /\ counts(v) = [counts(u) EXCEPT ![l] = (u.list[l].nr_elts + 1) % UINT_MOD]
  <1> DEFINE last == u.list[l].head
             n == (u.list[l].nr_elts + 1) % UINT_MOD
             a == set_next(u, e, last)
             b == set_prev(a, e, INDEXER_NULL)
             c == set_head(b, l, e)
             d == set_count(c, l, n)
             v == l_add_head(u, l, e)
  <1>1. /\ last \in Links /\ e \in Links /\ INDEXER_NULL \in Links
        /\ last # INDEXER_NULL => last \in Entries
        /\ n \in Nat
    BY ListParts, Counting DEF Links
  <1>2. /\ a \in Table /\ nexts(a) = [nexts(u) EXCEPT ![e] = last] /\ prevs(a) = prevs(u)
        /\ SameEnds(a, u) /\ SameChains(a, u) /\ SameBits(a, u)
    <2> HIDE DEF n, last
    <2> QED
      BY <1>1, SetNext DEF SameChains, SameBits
  <1>3. /\ b \in Table /\ prevs(b) = [prevs(a) EXCEPT ![e] = INDEXER_NULL] /\ nexts(b) = nexts(a)
        /\ SameEnds(b, a) /\ SameChains(b, a) /\ SameBits(b, a)
    <2> HIDE DEF n, last, a
    <2> QED
      BY <1>1, <1>2, SetPrev DEF SameChains, SameBits
  <1>4. /\ c \in Table /\ heads(c) = [heads(b) EXCEPT ![l] = e] /\ tails(c) = tails(b) /\ counts(c) = counts(b)
        /\ SameLinks(c, b) /\ SameChains(c, b) /\ SameBits(c, b)
    <2> HIDE DEF n, last, a, b
    <2> QED
      BY <1>1, <1>3, SetHead
  <1>5. /\ d \in Table /\ heads(d) = heads(c) /\ tails(d) = tails(c) /\ counts(d) = [counts(c) EXCEPT ![l] = n]
        /\ SameLinks(d, c) /\ SameChains(d, c) /\ SameBits(d, c)
    <2> HIDE DEF n, last, a, b, c
    <2> QED
      BY <1>1, <1>4, SetCount
  <1>6. v = IF last = INDEXER_NULL THEN set_tail(d, l, e) ELSE set_prev(d, last, e)
    <2>1. d = [u EXCEPT !.es[e].next = last, !.es[e].prev = INDEXER_NULL,
                        !.list[l].head = e, !.list[l].nr_elts = (@ + 1) % UINT_MOD]
      <3> DEFINE w == [u EXCEPT !.es[e].next = last, !.es[e].prev = INDEXER_NULL,
                                !.list[l].head = e, !.list[l].nr_elts = (@ + 1) % UINT_MOD]
      <3> USE DEF set_next, set_prev, set_head, set_count
      <3>1. w = [u EXCEPT !.es = w.es, !.list = w.list]
        BY ZenonT(60) DEF Table
      <3>2. d = [u EXCEPT !.es = d.es, !.list = d.list]
        BY ZenonT(60) DEF Table
      <3>3. d.es = w.es
        BY DEF Table
      <3>4. d.list = w.list
        BY DEF Table
      <3> HIDE DEF d, w
      <3> QED
        BY <3>1, <3>2, <3>3, <3>4 DEF w
    <2>2. v = LET x == [u EXCEPT !.es[e].next = last, !.es[e].prev = INDEXER_NULL,
                                 !.list[l].head = e, !.list[l].nr_elts = (@ + 1) % UINT_MOD]
              IN IF last = INDEXER_NULL THEN [x EXCEPT !.list[l].tail = e] ELSE [x EXCEPT !.es[last].prev = e]
      BY DEF l_add_head, l_head
    <2>3. v = IF last = INDEXER_NULL THEN [d EXCEPT !.list[l].tail = e] ELSE [d EXCEPT !.es[last].prev = e]
      <3> HIDE DEF v, last, d
      <3> QED
        BY <2>1, <2>2
    <2> HIDE DEF d, v, last
    <2> QED
      BY <2>3 DEF set_tail, set_prev
  <1> HIDE DEF v, n, a, b, c, d
  <1>7. last # e
    OBVIOUS
  <1> HIDE DEF last
  <1>8. /\ v \in Table /\ SameChains(v, d) /\ SameBits(v, d) /\ counts(v) = counts(d)
        /\ prevs(v) = IF last = INDEXER_NULL THEN prevs(d) ELSE [prevs(d) EXCEPT ![last] = e]
        /\ nexts(v) = nexts(d) /\ heads(v) = heads(d)
        /\ tails(v) = IF last = INDEXER_NULL THEN [tails(d) EXCEPT ![l] = e] ELSE tails(d)
    <2>1. CASE last = INDEXER_NULL
      BY <1>1, <1>5, <1>6, <2>1, SetTail DEF SameLinks
    <2>2. CASE last # INDEXER_NULL
      <3>1. v = set_prev(d, last, e) /\ d \in Table /\ last \in Entries /\ e \in Links
        BY <1>1, <1>5, <1>6, <2>2
      <3>2. /\ v \in Table /\ prevs(v) = [prevs(d) EXCEPT ![last] = e] /\ nexts(v) = nexts(d)
            /\ hashes(v) = hashes(d) /\ bits(v) = bits(d) /\ SameEnds(v, d)
            /\ v.buckets = d.buckets /\ v.nr_allocated = d.nr_allocated
        BY <3>1, SetPrev
      <3> QED
        BY <2>2, <3>2 DEF SameEnds, SameChains, SameBits
    <2> QED
      BY <2>1, <2>2
  <1>9. SameChains(v, u) /\ SameBits(v, u)
    BY <1>2, <1>3, <1>4, <1>5, <1>8 DEF SameChains, SameBits
  <1>10. /\ prevs(d) = [prevs(u) EXCEPT ![e] = INDEXER_NULL] /\ nexts(d) = [nexts(u) EXCEPT ![e] = last]
         /\ heads(d) = [heads(u) EXCEPT ![l] = e] /\ tails(d) = tails(u)
         /\ counts(d) = [counts(u) EXCEPT ![l] = n]
    BY <1>2, <1>3, <1>4, <1>5 DEF SameLinks, SameEnds
  <1> QED
    BY <1>8, <1>9, <1>10 DEF v, n, last

-----------------------------------------------------------------------------
(* The queues that a table holds.                                          *)

\* Over what the columns range.
LEMMA ColumnDomains ==
  ASSUME NEW u
  PROVE  /\ DOMAIN nexts(u) = Entries /\ DOMAIN prevs(u) = Entries /\ DOMAIN hashes(u) = Entries
         /\ DOMAIN bits(u) = Entries
         /\ DOMAIN heads(u) = Queues /\ DOMAIN tails(u) = Queues /\ DOMAIN counts(u) = Queues
  BY DEF nexts, prevs, hashes, bits, heads, tails, counts

\* Queue l of table u holds the list s: read from the head, read from the tail
\* and counted.
OnQueue(u, l, s) ==
  /\ Leads(nexts(u), heads(u)[l], s)
  /\ LeadsBack(prevs(u), tails(u)[l], s)
  /\ counts(u)[l] = Len(s)

\* The three queues of table u hold the lists S, which share no entry.
Queued(u, S) ==
  /\ S \in [Queues -> Seq(Entries)]
  /\ \A l \in Queues : OnQueue(u, l, S[l])
  /\ \A l \in Queues, m \in Queues : l # m => ToSet(S[l]) \cap ToSet(S[m]) = {}

\* The ends and the count of a queue that holds list s.
LEMMA FollowedEnds ==
  ASSUME NEW u, NEW l, NEW s, OnQueue(u, l, s)
  PROVE  /\ s \in Seq(Entries) /\ IsInjective(s) /\ Len(s) \in Nat /\ Len(s) <= N
         /\ (s = <<>> <=> Len(s) = 0)
         /\ heads(u)[l] = (IF s = <<>> THEN INDEXER_NULL ELSE s[1])
         /\ tails(u)[l] = (IF s = <<>> THEN INDEXER_NULL ELSE s[Len(s)])
         /\ counts(u)[l] = Len(s)
  BY Following, InjectiveLen DEF OnQueue, LeadsBack

\* A list whose links, ends and count stay as they are is still on its queue.
LEMMA LeftAlone ==
  ASSUME NEW u, NEW v, NEW l, NEW s, OnQueue(u, l, s),
         heads(v)[l] = heads(u)[l], tails(v)[l] = tails(u)[l], counts(v)[l] = counts(u)[l],
         \A x \in ToSet(s) : nexts(v)[x] = nexts(u)[x] /\ prevs(v)[x] = prevs(u)[x]
  PROVE  OnQueue(v, l, s)
  <1>1. s \in Seq(Entries) /\ \A j \in 1 .. Len(s) : s[j] \in ToSet(s)
    BY FollowedEnds, Places
  <1>2. Leads(nexts(v), heads(v)[l], s)
    BY <1>1 DEF OnQueue, Leads
  <1>3. LeadsBack(prevs(v), tails(v)[l], s)
    BY <1>1 DEF OnQueue, LeadsBack
  <1> QED
    BY <1>2, <1>3 DEF OnQueue

\* Disjoint lists one of which is replaced by a list of other entries.
LEMMA ReplaceList ==
  ASSUME NEW u, NEW v, NEW S, Queued(u, S), NEW l \in Queues, NEW s,
         OnQueue(v, l, s),
         \A m \in Queues \ {l} : OnQueue(v, m, S[m]) /\ ToSet(s) \cap ToSet(S[m]) = {}
  PROVE  Queued(v, [S EXCEPT ![l] = s])
  <1> DEFINE R == [S EXCEPT ![l] = s]
  <1>1. s \in Seq(Entries)
    BY FollowedEnds
  <1>2. S \in [Queues -> Seq(Entries)]
    BY DEF Queued
  <1>3. R \in [Queues -> Seq(Entries)] /\ R[l] = s /\ \A m \in Queues \ {l} : R[m] = S[m]
    BY <1>1, <1>2
  <1> HIDE DEF R
  <1>4. \A m \in Queues : OnQueue(v, m, R[m])
    BY <1>3
  <1>5. ASSUME NEW k \in Queues, NEW m \in Queues, k # m PROVE ToSet(R[k]) \cap ToSet(R[m]) = {}
    <2>1. CASE k = l
      BY <1>3, <1>5, <2>1
    <2>2. CASE m = l
      BY <1>3, <1>5, <2>2
    <2>3. CASE k # l /\ m # l
      <3>1. R[k] = S[k] /\ R[m] = S[m]
        BY <1>3, <2>3
      <3> QED
        BY <1>5, <3>1 DEF Queued
    <2> QED
      BY <2>1, <2>2, <2>3
  <1> QED
    BY <1>3, <1>4, <1>5 DEF Queued, R

\* l_add_tail of an entry that is on no queue.
LEMMA AddTailQueued ==
  ASSUME NEW u \in Table, NEW S, Queued(u, S), NEW l \in Queues, NEW e \in Entries,
         \A m \in Queues : e \notin ToSet(S[m])
  PROVE  Queued(l_add_tail(u, l, e), [S EXCEPT ![l] = Append(S[l], e)])
  <1> DEFINE v == l_add_tail(u, l, e)
             s == S[l]
             r == Append(s, e)
             last == u.list[l].tail
  <1>1. OnQueue(u, l, s) /\ e \notin ToSet(s)
    BY DEF Queued
  <1> HIDE DEF s
  <1>2. /\ s \in Seq(Entries) /\ IsInjective(s) /\ Len(s) \in Nat /\ Len(s) <= N
        /\ (s = <<>> <=> Len(s) = 0) /\ INDEXER_NULL \notin Entries
        /\ last = (IF s = <<>> THEN INDEXER_NULL ELSE s[Len(s)])
        /\ u.list[l].nr_elts = Len(s) /\ \A j \in 1 .. Len(s) : s[j] \in Entries /\ s[j] \in ToSet(s)
        /\ heads(u)[l] = IF s = <<>> THEN INDEXER_NULL ELSE s[1]
    BY <1>1, FollowedEnds, EndAt, Places, Constants
  <1>3. /\ u.list[l].tail # e /\ (last # INDEXER_NULL => last \in Entries /\ s # <<>>)
        /\ (last = INDEXER_NULL => s = <<>>)
    BY <1>1, <1>2
  <1>4. /\ nexts(v) = IF last = INDEXER_NULL THEN [nexts(u) EXCEPT ![e] = INDEXER_NULL]
                      ELSE [[nexts(u) EXCEPT ![e] = INDEXER_NULL] EXCEPT ![last] = e]
        /\ prevs(v) = [prevs(u) EXCEPT ![e] = last]
        /\ tails(v) = [tails(u) EXCEPT ![l] = e]
        /\ heads(v) = IF last = INDEXER_NULL THEN [heads(u) EXCEPT ![l] = e] ELSE heads(u)
        /\ counts(v) = [counts(u) EXCEPT ![l] = (u.list[l].nr_elts + 1) % UINT_MOD]
    BY <1>3, AddTailEffect
  <1>5. /\ DOMAIN nexts(u) = Entries /\ DOMAIN prevs(u) = Entries
        /\ DOMAIN heads(u) = Queues /\ DOMAIN tails(u) = Queues /\ DOMAIN counts(u) = Queues
    BY ColumnDomains
  <1> HIDE DEF v, last
  <1>6. Relinked(nexts(v), nexts(u), e, last, e) /\ nexts(v)[e] = INDEXER_NULL
    BY <1>2, <1>3, <1>4, <1>5 DEF Relinked, last
  <1>7. Relinked(prevs(v), prevs(u), e, INDEXER_NULL, e) /\ prevs(v)[e] = last
    BY <1>2, <1>4, <1>5 DEF Relinked
  <1>8. /\ heads(v)[l] = (IF s = <<>> THEN e ELSE heads(u)[l])
        /\ tails(v)[l] = e
        /\ \A m \in Queues \ {l} : heads(v)[m] = heads(u)[m] /\ tails(v)[m] = tails(u)[m] /\ counts(v)[m] = counts(u)[m]
    BY <1>3, <1>4, <1>5
  <1>9. r \in Seq(Entries) /\ IsInjective(r) /\ Len(r) = Len(s) + 1 /\ ToSet(r) = ToSet(s) \cup {e}
    BY <1>1, <1>2, TailPlaces
  <1> HIDE DEF r
  <1>10. counts(v)[l] = Len(r)
    <2>1. Len(r) <= N
      BY <1>9, InjectiveLen
    <2>2. Len(s) < N
      BY <1>2, <1>9, <2>1, Constants
    <2> QED
      BY <1>2, <1>4, <1>5, <1>9, <2>2, Counting
  <1>11. OnQueue(v, l, r)
    <2>1. Leads(nexts(v), heads(v)[l], r)
      <3>1. Leads(nexts(u), heads(u)[l], s) /\ e \in Entries \ ToSet(s)
        BY <1>1 DEF OnQueue
      <3>2. Relinked(nexts(v), nexts(u), e, IF s = <<>> THEN INDEXER_NULL ELSE s[Len(s)], e)
        BY <1>2, <1>6
      <3> QED
        BY <1>2, <1>6, <1>8, <3>1, <3>2, TailLeads DEF r
    <2>2. LeadsBack(prevs(v), tails(v)[l], r)
      <3>1. LeadsBack(prevs(u), tails(u)[l], s) /\ e \in Entries \ ToSet(s) /\ tails(u)[l] = last
        BY <1>1, EndAt DEF OnQueue, last
      <3> QED
        BY <1>2, <1>7, <1>8, <3>1, TailLeadsBack DEF r
    <2> QED
      BY <1>10, <2>1, <2>2 DEF OnQueue
  <1>12. ASSUME NEW m \in Queues \ {l}
         PROVE  OnQueue(v, m, S[m]) /\ ToSet(r) \cap ToSet(S[m]) = {}
    <2>1. OnQueue(u, m, S[m]) /\ e \notin ToSet(S[m]) /\ ToSet(s) \cap ToSet(S[m]) = {}
      BY DEF Queued, s
    <2>2. ToSet(S[m]) \subseteq Entries
      BY <2>1, FollowedEnds, Places
    <2>3. last \notin ToSet(S[m])
      BY <1>2, <2>1, <2>2
    <2>4. \A x \in ToSet(S[m]) : nexts(v)[x] = nexts(u)[x] /\ prevs(v)[x] = prevs(u)[x]
      BY <1>2, <1>6, <1>7, <2>1, <2>2, <2>3 DEF Relinked
    <2>5. OnQueue(v, m, S[m])
      BY <1>8, <2>1, <2>4, LeftAlone
    <2> QED
      BY <1>9, <2>1, <2>5
  <1> QED
    BY <1>11, <1>12, ReplaceList DEF r, s, v

\* l_add_head of an entry that is on no queue.
LEMMA AddHeadQueued ==
  ASSUME NEW u \in Table, NEW S, Queued(u, S), NEW l \in Queues, NEW e \in Entries,
         \A m \in Queues : e \notin ToSet(S[m])
  PROVE  Queued(l_add_head(u, l, e), [S EXCEPT ![l] = <<e>> \o S[l]])
  <1> DEFINE v == l_add_head(u, l, e)
             s == S[l]
             r == <<e>> \o s
             last == u.list[l].head
  <1>1. OnQueue(u, l, s) /\ e \notin ToSet(s)
    BY DEF Queued
  <1> HIDE DEF s
  <1>2. /\ s \in Seq(Entries) /\ IsInjective(s) /\ Len(s) \in Nat /\ Len(s) <= N
        /\ (s = <<>> <=> Len(s) = 0) /\ INDEXER_NULL \notin Entries
        /\ last = (IF s = <<>> THEN INDEXER_NULL ELSE s[1])
        /\ u.list[l].nr_elts = Len(s) /\ \A j \in 1 .. Len(s) : s[j] \in Entries /\ s[j] \in ToSet(s)
        /\ tails(u)[l] = IF s = <<>> THEN INDEXER_NULL ELSE s[Len(s)]
    BY <1>1, FollowedEnds, EndAt, Places, Constants
  <1>3. /\ u.list[l].head # e /\ (last # INDEXER_NULL => last \in Entries /\ s # <<>>)
        /\ (last = INDEXER_NULL => s = <<>>)
    BY <1>1, <1>2
  <1>4. /\ prevs(v) = IF last = INDEXER_NULL THEN [prevs(u) EXCEPT ![e] = INDEXER_NULL]
                      ELSE [[prevs(u) EXCEPT ![e] = INDEXER_NULL] EXCEPT ![last] = e]
        /\ nexts(v) = [nexts(u) EXCEPT ![e] = last]
        /\ heads(v) = [heads(u) EXCEPT ![l] = e]
        /\ tails(v) = IF last = INDEXER_NULL THEN [tails(u) EXCEPT ![l] = e] ELSE tails(u)
        /\ counts(v) = [counts(u) EXCEPT ![l] = (u.list[l].nr_elts + 1) % UINT_MOD]
    BY <1>3, AddHeadEffect
  <1>5. /\ DOMAIN nexts(u) = Entries /\ DOMAIN prevs(u) = Entries
        /\ DOMAIN heads(u) = Queues /\ DOMAIN tails(u) = Queues /\ DOMAIN counts(u) = Queues
    BY ColumnDomains
  <1> HIDE DEF v, last
  <1>6. Relinked(prevs(v), prevs(u), e, last, e) /\ prevs(v)[e] = INDEXER_NULL
    BY <1>2, <1>3, <1>4, <1>5 DEF Relinked, last
  <1>7. Relinked(nexts(v), nexts(u), e, INDEXER_NULL, e) /\ nexts(v)[e] = last
    BY <1>2, <1>4, <1>5 DEF Relinked
  <1>8. /\ tails(v)[l] = (IF s = <<>> THEN e ELSE tails(u)[l])
        /\ heads(v)[l] = e
        /\ \A m \in Queues \ {l} : heads(v)[m] = heads(u)[m] /\ tails(v)[m] = tails(u)[m] /\ counts(v)[m] = counts(u)[m]
    BY <1>3, <1>4, <1>5
  <1>9. r \in Seq(Entries) /\ IsInjective(r) /\ Len(r) = Len(s) + 1 /\ ToSet(r) = ToSet(s) \cup {e}
    BY <1>1, <1>2, HeadPlaces
  <1> HIDE DEF r
  <1>10. counts(v)[l] = Len(r)
    <2>1. Len(r) <= N
      BY <1>9, InjectiveLen
    <2>2. Len(s) < N
      BY <1>2, <1>9, <2>1, Constants
    <2> QED
      BY <1>2, <1>4, <1>5, <1>9, <2>2, Counting
  <1>11. OnQueue(v, l, r)
    <2>1. LeadsBack(prevs(v), tails(v)[l], r)
      <3>1. LeadsBack(prevs(u), tails(u)[l], s) /\ e \in Entries \ ToSet(s)
        BY <1>1 DEF OnQueue
      <3>2. Relinked(prevs(v), prevs(u), e, IF s = <<>> THEN INDEXER_NULL ELSE s[1], e)
        BY <1>2, <1>6
      <3> QED
        BY <1>2, <1>6, <1>8, <3>1, <3>2, HeadLeadsBack DEF r
    <2>2. Leads(nexts(v), heads(v)[l], r)
      <3>1. Leads(nexts(u), heads(u)[l], s) /\ e \in Entries \ ToSet(s) /\ heads(u)[l] = last
        BY <1>1, EndAt DEF OnQueue, last
      <3> QED
        BY <1>2, <1>7, <1>8, <3>1, HeadLeads DEF r
    <2> QED
      BY <1>10, <2>1, <2>2 DEF OnQueue
  <1>12. ASSUME NEW m \in Queues \ {l}
         PROVE  OnQueue(v, m, S[m]) /\ ToSet(r) \cap ToSet(S[m]) = {}
    <2>1. OnQueue(u, m, S[m]) /\ e \notin ToSet(S[m]) /\ ToSet(s) \cap ToSet(S[m]) = {}
      BY DEF Queued, s
    <2>2. ToSet(S[m]) \subseteq Entries
      BY <2>1, FollowedEnds, Places
    <2>3. last \notin ToSet(S[m])
      BY <1>2, <2>1, <2>2
    <2>4. \A x \in ToSet(S[m]) : nexts(v)[x] = nexts(u)[x] /\ prevs(v)[x] = prevs(u)[x]
      BY <1>2, <1>6, <1>7, <2>1, <2>2, <2>3 DEF Relinked
    <2>5. OnQueue(v, m, S[m])
      BY <1>8, <2>1, <2>4, LeftAlone
    <2> QED
      BY <1>9, <2>1, <2>5
  <1> QED
    BY <1>11, <1>12, ReplaceList DEF r, s, v

\* l_del of an entry that is on the queue.
LEMMA DelQueued ==
  ASSUME NEW u \in Table, NEW S, Queued(u, S), NEW l \in Queues, NEW e \in ToSet(S[l])
  PROVE  /\ Queued(l_del(u, l, e), [S EXCEPT ![l] = M!l_del(S[l], e)])
         /\ ToSet(M!l_del(S[l], e)) = ToSet(S[l]) \ {e}
  <1> DEFINE v == l_del(u, l, e)
             s == S[l]
             r == M!l_del(s, e)
             prev == u.es[e].prev
             next == u.es[e].next
  <1>1. OnQueue(u, l, s) /\ e \in ToSet(s)
    BY DEF Queued
  <1> HIDE DEF s
  <1>2. /\ s \in Seq(Entries) /\ IsInjective(s) /\ Len(s) \in Nat /\ Len(s) <= N
        /\ INDEXER_NULL \notin Entries /\ s # <<>>
        /\ heads(u)[l] = s[1] /\ tails(u)[l] = s[Len(s)]
        /\ u.list[l].nr_elts = Len(s) /\ \A j \in 1 .. Len(s) : s[j] \in Entries /\ s[j] \in ToSet(s)
    BY <1>1, FollowedEnds, EndAt, Places, Constants
  <1>3. PICK i \in 1 .. Len(s) : e = s[i]
    BY <1>1, <1>2, Places
  <1>4. /\ nexts(u)[e] = (IF i = Len(s) THEN INDEXER_NULL ELSE s[i + 1])
        /\ prevs(u)[e] = (IF i = 1 THEN INDEXER_NULL ELSE s[i - 1])
    BY <1>1, <1>3 DEF OnQueue, Leads, LeadsBack
  <1>5. e \in Entries /\ next = nexts(u)[e] /\ prev = prevs(u)[e]
    BY <1>2, <1>3, ColumnAt
  <1>6. /\ next = (IF i = Len(s) THEN INDEXER_NULL ELSE s[i + 1])
        /\ prev = (IF i = 1 THEN INDEXER_NULL ELSE s[i - 1])
        /\ (next = INDEXER_NULL <=> i = Len(s)) /\ (prev = INDEXER_NULL <=> i = 1)
        /\ (next # INDEXER_NULL => next \in ToSet(s)) /\ (prev # INDEXER_NULL => prev \in ToSet(s))
    BY <1>2, <1>3, <1>4, <1>5
  <1>7. /\ nexts(v) = IF prev = INDEXER_NULL THEN nexts(u) ELSE [nexts(u) EXCEPT ![prev] = next]
        /\ prevs(v) = IF next = INDEXER_NULL THEN prevs(u) ELSE [prevs(u) EXCEPT ![next] = prev]
        /\ heads(v) = IF prev = INDEXER_NULL THEN [heads(u) EXCEPT ![l] = next] ELSE heads(u)
        /\ tails(v) = IF next = INDEXER_NULL THEN [tails(u) EXCEPT ![l] = prev] ELSE tails(u)
        /\ counts(v) = [counts(u) EXCEPT ![l] = (u.list[l].nr_elts + UINT_MOD - 1) % UINT_MOD]
    BY <1>5, DelEffect
  <1>8. /\ DOMAIN nexts(u) = Entries /\ DOMAIN prevs(u) = Entries
        /\ DOMAIN heads(u) = Queues /\ DOMAIN tails(u) = Queues /\ DOMAIN counts(u) = Queues
    BY ColumnDomains
  <1> HIDE DEF v, prev, next
  <1>9. Relinked(nexts(v), nexts(u), e, prev, next) /\ Relinked(prevs(v), prevs(u), e, next, prev)
    BY <1>2, <1>7, <1>8 DEF Relinked
  <1>10. /\ heads(v)[l] = (IF i = 1 THEN next ELSE heads(u)[l])
         /\ tails(v)[l] = (IF i = Len(s) THEN prev ELSE tails(u)[l])
         /\ \A m \in Queues \ {l} :
              heads(v)[m] = heads(u)[m] /\ tails(v)[m] = tails(u)[m] /\ counts(v)[m] = counts(u)[m]
    BY <1>6, <1>7, <1>8
  <1>11. r \in Seq(Entries) /\ IsInjective(r) /\ Len(r) = Len(s) - 1 /\ ToSet(r) = ToSet(s) \ {e}
    BY <1>2, <1>3, DelPlaces
  <1> HIDE DEF r
  <1>12. counts(v)[l] = Len(r)
    <2>1. Len(s) > 0 /\ u.list[l].nr_elts \in Nat
      BY <1>2, <1>3
    <2> QED
      BY <1>2, <1>7, <1>8, <1>11, <2>1, Counting
  <1>13. OnQueue(v, l, r)
    <2>1. Leads(nexts(v), heads(v)[l], r)
      <3>1. Leads(nexts(u), heads(u)[l], s)
        BY <1>1 DEF OnQueue
      <3>2. Relinked(nexts(v), nexts(u), s[i], IF i = 1 THEN INDEXER_NULL ELSE s[i - 1], nexts(u)[s[i]])
        BY <1>3, <1>5, <1>6, <1>9
      <3>3. heads(v)[l] = IF i = 1 THEN nexts(u)[s[i]] ELSE heads(u)[l]
        BY <1>3, <1>5, <1>10
      <3> QED
        BY <1>3, <3>1, <3>2, <3>3, DelLeads DEF r
    <2>2. LeadsBack(prevs(v), tails(v)[l], r)
      <3>1. LeadsBack(prevs(u), tails(u)[l], s)
        BY <1>1 DEF OnQueue
      <3>2. Relinked(prevs(v), prevs(u), s[i], IF i = Len(s) THEN INDEXER_NULL ELSE s[i + 1], prevs(u)[s[i]])
        BY <1>3, <1>5, <1>6, <1>9
      <3>3. tails(v)[l] = IF i = Len(s) THEN prevs(u)[s[i]] ELSE tails(u)[l]
        BY <1>3, <1>5, <1>10
      <3> QED
        BY <1>2, <1>3, <3>1, <3>2, <3>3, DelLeadsBack DEF r
    <2> QED
      BY <1>12, <2>1, <2>2 DEF OnQueue
  <1>14. ASSUME NEW m \in Queues \ {l}
         PROVE  OnQueue(v, m, S[m]) /\ ToSet(r) \cap ToSet(S[m]) = {}
    <2>1. OnQueue(u, m, S[m]) /\ ToSet(s) \cap ToSet(S[m]) = {}
      BY DEF Queued, s
    <2>2. ToSet(S[m]) \subseteq Entries /\ e \notin ToSet(S[m])
      BY <1>1, <2>1, FollowedEnds, Places
    <2>3. prev \notin ToSet(S[m]) /\ next \notin ToSet(S[m])
      BY <1>2, <1>6, <2>1, <2>2
    <2>4. \A x \in ToSet(S[m]) : nexts(v)[x] = nexts(u)[x] /\ prevs(v)[x] = prevs(u)[x]
      BY <1>9, <2>2, <2>3 DEF Relinked
    <2>5. OnQueue(v, m, S[m])
      BY <1>10, <2>1, <2>4, LeftAlone
    <2> QED
      BY <1>11, <2>1, <2>5
  <1>15. Queued(v, [S EXCEPT ![l] = r])
    BY <1>13, <1>14, ReplaceList
  <1> QED
    BY <1>11, <1>15 DEF r, s, v

-----------------------------------------------------------------------------
(* The chains that a table holds.                                          *)

\* The chains of table u are the lists C, and an entry is in the chain of the
\* bucket of its key.
Chained(u, C) ==
  /\ C \in [Buckets -> Seq(Entries)]
  /\ \A b \in Buckets : Leads(hashes(u), u.buckets[b], C[b])
  /\ \A b \in Buckets : \A e \in ToSet(C[b]) : bits(u)[e].key \in Keys /\ hash_32[bits(u)[e].key] = b

\* The entries in the chains.
InChains(C) == UNION {ToSet(C[b]) : b \in Buckets}

\* A chain is what is read along the links.
LEMMA ChainRead ==
  ASSUME NEW u, NEW C, Chained(u, C), NEW b \in Buckets
  PROVE  Chain(u, b) = C[b] /\ C[b] \in Seq(Entries) /\ IsInjective(C[b])
  <1>1. Leads(hashes(u), u.buckets[b], C[b])
    BY DEF Chained
  <1>2. Chain(u, b) = Walk(hashes(u), u.buckets[b])
    BY DEF Chain, hashes
  <1> QED
    BY <1>1, <1>2, WalkLeads, Following

\* A hashed entry is in the chain of its key.
LEMMA KeyedChain ==
  ASSUME NEW u, NEW C, Chained(u, C), NEW e \in InChains(C)
  PROVE  /\ e \in Entries /\ bits(u)[e].key \in Keys /\ hash_32[bits(u)[e].key] \in Buckets
         /\ e \in ToSet(C[hash_32[bits(u)[e].key]])
  <1>1. PICK b \in Buckets : e \in ToSet(C[b])
    BY DEF InChains
  <1>2. bits(u)[e].key \in Keys /\ hash_32[bits(u)[e].key] = b /\ C[b] \in Seq(Entries)
    BY <1>1 DEF Chained
  <1> QED
    BY <1>1, <1>2, Places

\* Chains stay where their links and the keys in them do,
LEMMA SameChained ==
  ASSUME NEW u, NEW C, Chained(u, C), NEW v, SameChains(v, u),
         \A e \in InChains(C) : bits(v)[e].key = bits(u)[e].key
  PROVE  Chained(v, C)
  <1>1. ASSUME NEW b \in Buckets PROVE Leads(hashes(v), v.buckets[b], C[b])
    BY DEF Chained, SameChains
  <1>2. ASSUME NEW b \in Buckets, NEW e \in ToSet(C[b])
        PROVE  bits(v)[e].key \in Keys /\ hash_32[bits(v)[e].key] = b
    <2>1. bits(u)[e].key \in Keys /\ hash_32[bits(u)[e].key] = b
      BY DEF Chained
    <2>2. e \in InChains(C)
      BY DEF InChains
    <2> QED
      BY <2>1, <2>2
  <1> QED
    BY <1>1, <1>2 DEF Chained

\* and queues where their links, ends and counts do.
LEMMA SameQueued ==
  ASSUME NEW u, NEW S, Queued(u, S), NEW v, SameQueues(v, u)
  PROVE  Queued(v, S)
  BY DEF Queued, OnQueue, SameQueues, SameLinks, SameEnds

\* What is linked behind an entry that is on no queue does not matter.
LEMMA OffQueues ==
  ASSUME NEW u, NEW S, Queued(u, S), NEW v, SameEnds(v, u), NEW e \in Entries,
         \A m \in Queues : e \notin ToSet(S[m]),
         \A x \in Entries \ {e} : nexts(v)[x] = nexts(u)[x] /\ prevs(v)[x] = prevs(u)[x]
  PROVE  Queued(v, S)
  <1>1. ASSUME NEW l \in Queues PROVE OnQueue(v, l, S[l])
    <2>1. OnQueue(u, l, S[l])
      BY DEF Queued
    <2>2. ToSet(S[l]) \subseteq Entries
      BY <2>1, FollowedEnds, Places
    <2>3. \A x \in ToSet(S[l]) : nexts(v)[x] = nexts(u)[x] /\ prevs(v)[x] = prevs(u)[x]
      BY <2>2
    <2>4. heads(v)[l] = heads(u)[l] /\ tails(v)[l] = tails(u)[l] /\ counts(v)[l] = counts(u)[l]
      BY DEF SameEnds
    <2> QED
      BY <2>1, <2>3, <2>4, LeftAlone
  <1> QED
    BY <1>1 DEF Queued

\* The same for an entry that is in no chain.
LEMMA OffChains ==
  ASSUME NEW u, NEW C, Chained(u, C), NEW v, v.buckets = u.buckets, NEW e \in Entries,
         e \notin InChains(C),
         \A x \in Entries \ {e} : hashes(v)[x] = hashes(u)[x] /\ bits(v)[x].key = bits(u)[x].key
  PROVE  Chained(v, C)
  <1>1. ASSUME NEW b \in Buckets PROVE Leads(hashes(v), v.buckets[b], C[b])
    <2>1. Leads(hashes(u), u.buckets[b], C[b]) /\ e \notin ToSet(C[b])
      BY DEF Chained, InChains
    <2>2. \A j \in 1 .. Len(C[b]) : C[b][j] \in Entries \ {e}
      BY <2>1, Following, Places
    <2> QED
      BY <2>1, <2>2 DEF Leads
  <1>2. ASSUME NEW b \in Buckets, NEW x \in ToSet(C[b])
        PROVE  bits(v)[x].key \in Keys /\ hash_32[bits(v)[x].key] = b
    <2>1. bits(u)[x].key \in Keys /\ hash_32[bits(u)[x].key] = b
      BY DEF Chained
    <2>2. x # e /\ x \in Entries
      <3>1. C[b] \in Seq(Entries)
        BY DEF Chained
      <3> QED
        BY <3>1, Places DEF InChains
    <2> QED
      BY <2>1, <2>2
  <1> QED
    BY <1>1, <1>2 DEF Chained

\* The entries of list c have keys of bucket b.
KeyedTo(u, c, b) == \A e \in ToSet(c) : bits(u)[e].key \in Keys /\ hash_32[bits(u)[e].key] = b

\* The chains of v but the one of bucket b are those of C.
OtherChains(v, C, b) == \A d \in Buckets \ {b} : Leads(hashes(v), v.buckets[d], C[d])

\* Chains one of which is replaced.
LEMMA ReplaceChain ==
  ASSUME NEW u, NEW C, Chained(u, C), NEW v, bits(v) = bits(u), NEW b \in Buckets, NEW c,
         Leads(hashes(v), v.buckets[b], c), KeyedTo(u, c, b), OtherChains(v, C, b)
  PROVE  /\ Chained(v, [C EXCEPT ![b] = c])
         /\ \A x : x \in InChains([C EXCEPT ![b] = c]) <=> (x \in InChains(C) /\ x \notin ToSet(C[b])) \/ x \in ToSet(c)
  <1> DEFINE D == [C EXCEPT ![b] = c]
  <1>1. c \in Seq(Entries) /\ C \in [Buckets -> Seq(Entries)]
    BY Following DEF Chained
  <1>2. D \in [Buckets -> Seq(Entries)] /\ D[b] = c /\ \A d \in Buckets \ {b} : D[d] = C[d]
    BY <1>1
  <1> HIDE DEF D
  <1>3. \A d \in Buckets : Leads(hashes(v), v.buckets[d], D[d])
    BY <1>2 DEF OtherChains
  <1>4. ASSUME NEW d \in Buckets, NEW e \in ToSet(D[d])
        PROVE  bits(v)[e].key \in Keys /\ hash_32[bits(v)[e].key] = d
    <2>1. CASE d = b
      BY <1>2, <1>4, <2>1 DEF KeyedTo
    <2>2. CASE d # b
      BY <1>2, <1>4, <2>2 DEF Chained
    <2> QED
      BY <2>1, <2>2
  <1>5. \A d \in Buckets \ {b} : ToSet(C[d]) \cap ToSet(C[b]) = {}
    BY DEF Chained
  <1>6. InChains(D) = (InChains(C) \ ToSet(C[b])) \cup ToSet(c)
    BY <1>2, <1>5 DEF InChains
  <1> QED
    BY <1>2, <1>3, <1>4, <1>6 DEF Chained, D

\* What h_insert does to the columns.
LEMMA InsertEffect ==
  ASSUME NEW u \in Table, NEW e \in Entries, bits(u)[e].key \in Keys
  PROVE  LET v == h_insert(u, e)
             b == hash_32[bits(u)[e].key]
         IN /\ v \in Table /\ SameQueues(v, u) /\ SameBits(v, u) /\ b \in Buckets
            /\ hashes(v) = [hashes(u) EXCEPT ![e] = u.buckets[b]]
            /\ v.buckets = [u.buckets EXCEPT ![b] = e]
  <1> DEFINE b == hash_32[bits(u)[e].key]
             i == u.buckets[b]
             a == set_hash(u, e, i)
             f == [u.buckets EXCEPT ![b] = e]
             v == h_insert(u, e)
  <1>1. bits(u)[e].key = u.es[e].key /\ b \in Buckets
    <2>1. bits(u)[e].key = u.es[e].key
      BY DEF bits
    <2> QED
      BY <2>1, Constants
  <1>2. i \in Links /\ f \in [Buckets -> Links]
    BY <1>1, Parts DEF Links
  <1>3. v = set_buckets(a, [a.buckets EXCEPT ![b] = e])
    BY <1>1 DEF h_insert, set_hash, set_buckets
  <1> HIDE DEF v, b
  <1>4. /\ a \in Table
        /\ nexts(a) = nexts(u) /\ prevs(a) = prevs(u) /\ hashes(a) = [hashes(u) EXCEPT ![e] = i]
        /\ bits(a) = bits(u) /\ SameEnds(a, u) /\ a.buckets = u.buckets /\ a.nr_allocated = u.nr_allocated
    <2> HIDE DEF i
    <2> QED
      BY <1>2, SetHash
  <1> HIDE DEF a, i
  <1>5. v = set_buckets(a, f)
    BY <1>3, <1>4
  <1> HIDE DEF f
  <1>6. /\ v \in Table /\ v.es = a.es /\ v.list = a.list /\ v.buckets = f
        /\ v.nr_allocated = a.nr_allocated
    BY <1>2, <1>4, <1>5, SetBuckets
  <1>7. SameLinks(v, a) /\ hashes(v) = hashes(a) /\ bits(v) = bits(a) /\ SameEnds(v, a)
    BY <1>6, SameColumns
  <1>8. SameQueues(v, u) /\ SameBits(v, u)
    BY <1>4, <1>6, <1>7 DEF SameQueues, SameLinks, SameEnds, SameBits
  <1> QED
    BY <1>1, <1>4, <1>6, <1>7, <1>8 DEF v, b, i, f

\* h_insert of an entry that is in no chain.
LEMMA InsertChained ==
  ASSUME NEW u \in Table, NEW C, Chained(u, C), NEW e \in Entries, e \notin InChains(C),
         bits(u)[e].key \in Keys
  PROVE  \E D : Chained(h_insert(u, e), D) /\ InChains(D) = InChains(C) \cup {e}
  <1> DEFINE b == hash_32[bits(u)[e].key]
             v == h_insert(u, e)
             c == C[b]
             r == <<e>> \o c
  <1>1. /\ v \in Table /\ SameBits(v, u) /\ b \in Buckets
        /\ hashes(v) = [hashes(u) EXCEPT ![e] = u.buckets[b]]
        /\ v.buckets = [u.buckets EXCEPT ![b] = e]
    BY InsertEffect
  <1>2. DOMAIN hashes(u) = Entries /\ u.buckets \in [Buckets -> Links] /\ INDEXER_NULL \notin Entries
    BY ColumnDomains, Parts, Constants
  <1> HIDE DEF b, v
  <1>3. Leads(hashes(u), u.buckets[b], c) /\ e \notin ToSet(c) /\ c \in Seq(Entries) /\ IsInjective(c)
    BY <1>1 DEF Chained, InChains, Leads
  <1> HIDE DEF c
  <1>4. Leads(hashes(v), v.buckets[b], r)
    <2>1. Relinked(hashes(v), hashes(u), e, INDEXER_NULL, e) /\ hashes(v)[e] = u.buckets[b]
      BY <1>1, <1>2 DEF Relinked
    <2>2. v.buckets[b] = e
      BY <1>1, <1>2
    <2> QED
      BY <1>3, <2>1, <2>2, HeadLeads
  <1>5. ToSet(r) = ToSet(c) \cup {e}
    BY <1>3, HeadPlaces
  <1> HIDE DEF r
  <1>6. KeyedTo(u, r, b)
    <2>1. \A x \in ToSet(c) : bits(u)[x].key \in Keys /\ hash_32[bits(u)[x].key] = b
      BY <1>1 DEF Chained, c
    <2> QED
      BY <1>5, <2>1 DEF b, KeyedTo
  <1>7. ASSUME NEW d \in Buckets \ {b} PROVE Leads(hashes(v), v.buckets[d], C[d])
    <2>1. Leads(hashes(u), u.buckets[d], C[d]) /\ e \notin ToSet(C[d])
      BY DEF Chained, InChains
    <2>2. \A j \in 1 .. Len(C[d]) : C[d][j] \in Entries \ {e}
      BY <2>1, Following, Places
    <2>3. \A j \in 1 .. Len(C[d]) : hashes(v)[C[d][j]] = hashes(u)[C[d][j]]
      BY <1>1, <1>2, <2>2
    <2>4. v.buckets[d] = u.buckets[d]
      BY <1>1, <1>2
    <2> QED
      BY <2>1, <2>3, <2>4 DEF Leads
  <1>8. bits(v) = bits(u)
    BY <1>1 DEF SameBits
  <1>9. /\ Chained(v, [C EXCEPT ![b] = r])
        /\ \A x : x \in InChains([C EXCEPT ![b] = r]) <=> (x \in InChains(C) /\ x \notin ToSet(C[b])) \/ x \in ToSet(r)
    <2>1. OtherChains(v, C, b)
      BY <1>7 DEF OtherChains
    <2>2. b \in Buckets
      BY <1>1
    <2> QED
      BY <1>4, <1>6, <1>8, <2>1, <2>2, ReplaceChain
  <1>10. ToSet(C[b]) \subseteq InChains(C)
    BY <1>1 DEF InChains
  <1> QED
    BY <1>5, <1>9, <1>10 DEF c, v

\* h_unlink of an entry and the one before it.
unlinked(u, k, e, prev) == h_unlink(u, k, [e |-> e, prev |-> prev])

\* What h_unlink does to the columns.
LEMMA UnlinkEffect ==
  ASSUME NEW u \in Table, NEW k \in Keys, NEW e \in Entries, NEW prev \in Links
  PROVE  LET v == unlinked(u, k, e, prev)
             b == hash_32[k]
             i == u.es[e].hash_next
         IN /\ v \in Table /\ SameQueues(v, u) /\ SameBits(v, u) /\ b \in Buckets
            /\ hashes(v) = IF prev = INDEXER_NULL THEN hashes(u) ELSE [hashes(u) EXCEPT ![prev] = i]
            /\ v.buckets = IF prev = INDEXER_NULL THEN [u.buckets EXCEPT ![b] = i] ELSE u.buckets
  <1> DEFINE b == hash_32[k]
             i == u.es[e].hash_next
             v == unlinked(u, k, e, prev)
             f == [u.buckets EXCEPT ![b] = i]
  <1>1. v = IF prev = INDEXER_NULL THEN set_buckets(u, f) ELSE set_hash(u, prev, i)
    BY DEF unlinked, h_unlink, set_buckets, set_hash
  <1>2. b \in Buckets /\ i \in Links /\ f \in [Buckets -> Links]
    BY Constants, EntryParts, Parts
  <1> HIDE DEF b, i, f, v
  <1>3. CASE prev = INDEXER_NULL
    <2>1. v \in Table /\ v.es = u.es /\ v.list = u.list /\ v.buckets = f /\ v.nr_allocated = u.nr_allocated
      BY <1>1, <1>2, <1>3, SetBuckets
    <2>2. SameLinks(v, u) /\ hashes(v) = hashes(u) /\ bits(v) = bits(u) /\ SameEnds(v, u)
      BY <2>1, SameColumns
    <2> QED
      BY <1>2, <1>3, <2>1, <2>2 DEF SameQueues, SameBits, v, b, i, f
  <1>4. CASE prev # INDEXER_NULL
    <2>1. prev \in Entries
      BY <1>4 DEF Links
    <2>2. /\ v \in Table /\ nexts(v) = nexts(u) /\ prevs(v) = prevs(u)
          /\ hashes(v) = [hashes(u) EXCEPT ![prev] = i]
          /\ bits(v) = bits(u) /\ SameEnds(v, u) /\ v.buckets = u.buckets /\ v.nr_allocated = u.nr_allocated
      BY <1>1, <1>2, <1>4, <2>1, SetHash
    <2> QED
      BY <1>2, <1>4, <2>2 DEF SameQueues, SameLinks, SameBits, v, b, i, f
  <1> QED
    BY <1>3, <1>4

\* The entry before place i of list c.
Before(c, i) == IF i = 1 THEN INDEXER_NULL ELSE c[i - 1]

\* h_unlink of an entry and the one before it in its chain.
LEMMA UnlinkChained ==
  ASSUME NEW u \in Table, NEW C, Chained(u, C), NEW k \in Keys,
         NEW i \in 1 .. Len(C[hash_32[k]]), NEW e, e = C[hash_32[k]][i],
         NEW prev, prev = Before(C[hash_32[k]], i)
  PROVE  LET v == unlinked(u, k, e, prev)
         IN /\ v \in Table /\ SameQueues(v, u) /\ SameBits(v, u)
            /\ \E D : Chained(v, D) /\ \A x : x \in InChains(D) <=> x \in InChains(C) /\ x # e
  <1> DEFINE b == hash_32[k]
             v == unlinked(u, k, e, prev)
             c == C[b]
             r == M!l_del(c, c[i])
  <1>1. b \in Buckets /\ Leads(hashes(u), u.buckets[b], c) /\ KeyedTo(u, c, b)
    BY Constants DEF Chained, KeyedTo
  <1>2. /\ c \in Seq(Entries) /\ IsInjective(c) /\ Len(c) \in Nat /\ INDEXER_NULL \notin Entries
        /\ \A j \in 1 .. Len(c) : c[j] \in Entries /\ c[j] \in ToSet(c)
    BY <1>1, Following, Places, Constants
  <1>3. /\ i \in 1 .. Len(c) /\ e = c[i] /\ e \in Entries /\ prev \in Links
        /\ prev = IF i = 1 THEN INDEXER_NULL ELSE c[i - 1]
        /\ prev = INDEXER_NULL <=> i = 1
        /\ i # 1 => prev \in ToSet(c)
    BY <1>2 DEF Links, Before
  <1>4. u.es[e].hash_next = hashes(u)[e]
    BY <1>3, ColumnAt
  <1>5. /\ v \in Table /\ SameQueues(v, u) /\ SameBits(v, u)
        /\ hashes(v) = IF prev = INDEXER_NULL THEN hashes(u) ELSE [hashes(u) EXCEPT ![prev] = hashes(u)[e]]
        /\ v.buckets = IF prev = INDEXER_NULL THEN [u.buckets EXCEPT ![b] = hashes(u)[e]] ELSE u.buckets
    <2> HIDE DEF v
    <2> QED
      <3> DEFINE n == u.es[e].hash_next
      <3>1. /\ v \in Table /\ SameQueues(v, u) /\ SameBits(v, u)
            /\ hashes(v) = IF prev = INDEXER_NULL THEN hashes(u) ELSE [hashes(u) EXCEPT ![prev] = n]
            /\ v.buckets = IF prev = INDEXER_NULL THEN [u.buckets EXCEPT ![b] = n] ELSE u.buckets
        <4>1. e \in Entries /\ prev \in Links
          BY <1>3
        <4> HIDE DEF c, r
        <4> QED
          BY <4>1, UnlinkEffect DEF v
      <3> QED
        BY <1>4, <3>1
  <1>6. DOMAIN hashes(u) = Entries /\ u.buckets \in [Buckets -> Links]
    BY ColumnDomains, Parts
  <1> HIDE DEF b, c, v
  <1>7. Leads(hashes(v), v.buckets[b], r)
    <2>1. Relinked(hashes(v), hashes(u), c[i], IF i = 1 THEN INDEXER_NULL ELSE c[i - 1], hashes(u)[c[i]])
      BY <1>2, <1>3, <1>5, <1>6 DEF Relinked
    <2>2. v.buckets[b] = IF i = 1 THEN hashes(u)[c[i]] ELSE u.buckets[b]
      BY <1>1, <1>3, <1>5, <1>6
    <2> QED
      BY <1>1, <1>3, <2>1, <2>2, DelLeads
  <1>8. ToSet(r) = ToSet(c) \ {e}
    BY <1>2, <1>3, DelPlaces
  <1> HIDE DEF r
  <1>9. KeyedTo(u, r, b)
    BY <1>1, <1>8 DEF KeyedTo
  <1>10. OtherChains(v, C, b)
    <2>1. ASSUME NEW d \in Buckets \ {b} PROVE Leads(hashes(v), v.buckets[d], C[d])
      <3>1. Leads(hashes(u), u.buckets[d], C[d]) /\ ToSet(C[d]) \cap ToSet(c) = {}
        BY <1>1 DEF Chained, KeyedTo
      <3>2. \A j \in 1 .. Len(C[d]) : C[d][j] \in Entries /\ C[d][j] # prev
        BY <1>2, <1>3, <3>1, Following, Places
      <3>3. \A j \in 1 .. Len(C[d]) : hashes(v)[C[d][j]] = hashes(u)[C[d][j]]
        BY <1>5, <1>6, <3>2
      <3>4. v.buckets[d] = u.buckets[d]
        BY <1>5, <1>6
      <3> QED
        BY <3>1, <3>3, <3>4 DEF Leads
    <2> QED
      BY <2>1 DEF OtherChains
  <1>11. bits(v) = bits(u)
    BY <1>5 DEF SameBits
  <1>12. /\ Chained(v, [C EXCEPT ![b] = r])
         /\ \A x : x \in InChains([C EXCEPT ![b] = r]) <=> (x \in InChains(C) /\ x \notin ToSet(C[b])) \/ x \in ToSet(r)
    BY <1>1, <1>7, <1>9, <1>10, <1>11, ReplaceChain
  <1>13. ToSet(c) \subseteq InChains(C) /\ e \in ToSet(c)
    BY <1>1, <1>2, <1>3 DEF InChains, c
  <1> DEFINE D == [C EXCEPT ![b] = r]
  <1> HIDE DEF D
  <1>14. \A x : x \in InChains(D) <=> x \in InChains(C) /\ x # e
    BY <1>8, <1>12, <1>13 DEF c, D
  <1>15. Chained(v, D)
    BY <1>12 DEF D
  <1> QED
    BY <1>5, <1>14, <1>15 DEF v

\* No hashed entry has key k.
LEMMA FoundMiss ==
  ASSUME NEW u, NEW C, Chained(u, C), NEW k \in Keys, \A x \in InChains(C) : bits(u)[x].key # k
  PROVE  found(u, k).e = INDEXER_NULL
  <1> DEFINE b == hash_32[k]
             c == C[b]
             I == {i \in 1 .. Len(c) : u.es[c[i]].key = k}
  <1>1. b \in Buckets
    BY Constants
  <1>2. Chain(u, b) = c /\ c \in Seq(Entries)
    BY <1>1, ChainRead
  <1>3. I = {}
    <2> SUFFICES ASSUME NEW i \in 1 .. Len(c), u.es[c[i]].key = k PROVE FALSE
      OBVIOUS
    <2>1. c[i] \in InChains(C) /\ c[i] \in Entries
      BY <1>1, <1>2, Places DEF InChains
    <2>2. bits(u)[c[i]].key = u.es[c[i]].key
      BY <2>1 DEF bits
    <2> QED
      BY <2>1, <2>2
  <1>4. SelectInSeq(Chain(u, hash_32[k]), LAMBDA e : u.es[e].key = k) = 0
    BY <1>2, <1>3 DEF SelectInSeq
  <1> QED
    BY <1>4 DEF found

\* The only hashed entry of its key is found, with the one before it.
LEMMA FoundHit ==
  ASSUME NEW u, NEW C, Chained(u, C), NEW e \in InChains(C), NEW k, k = bits(u)[e].key,
         \A x \in InChains(C) : bits(u)[x].key = k => x = e
  PROVE  /\ k \in Keys
         /\ \E i \in 1 .. Len(C[hash_32[k]]) :
              e = C[hash_32[k]][i] /\ found(u, k) = [e |-> e, prev |-> Before(C[hash_32[k]], i)]
  <1> DEFINE b == hash_32[k]
             c == C[b]
             I == {i \in 1 .. Len(c) : u.es[c[i]].key = k}
  <1>1. b \in Buckets /\ k \in Keys /\ e \in ToSet(c) /\ e \in Entries
    BY KeyedChain
  <1>2. Chain(u, b) = c /\ c \in Seq(Entries) /\ IsInjective(c)
    BY <1>1, ChainRead
  <1>3. PICK i \in 1 .. Len(c) : e = c[i]
    BY <1>1, <1>2, Places
  <1>4. I = {i}
    <2>1. u.es[e].key = k
      BY <1>1 DEF bits
    <2>2. ASSUME NEW j \in 1 .. Len(c), u.es[c[j]].key = k PROVE j = i
      <3>1. c[j] \in InChains(C) /\ c[j] \in Entries
        BY <1>1, <1>2, Places DEF InChains
      <3>2. bits(u)[c[j]].key = u.es[c[j]].key
        BY <3>1 DEF bits
      <3>3. c[j] = e
        BY <2>2, <3>1, <3>2
      <3> QED
        BY <1>2, <1>3, <3>3, Distinct
    <2> QED
      BY <1>3, <2>1, <2>2
  <1>7. i \in Nat /\ i >= 1
    <2>1. Len(c) \in Nat
      BY <1>2, Places
    <2> HIDE DEF c
    <2> QED
      BY <2>1
  <1>5. SelectInSeq(Chain(u, hash_32[k]), LAMBDA x : u.es[x].key = k) = i
    <2>1. Min({i}) = i
      <3>1. i \in Nat
        BY <1>7
      <3> QED
        BY <3>1 DEF Min
    <2>2. SelectInSeq(c, LAMBDA x : u.es[x].key = k) = IF I # {} THEN Min(I) ELSE 0
      BY DEF SelectInSeq
    <2> QED
      BY <1>2, <1>4, <2>1, <2>2
  <1>6. found(u, k) = [e |-> e, prev |-> Before(c, i)]
    <2>1. i # 0 /\ (i <= 1 <=> i = 1)
      BY <1>7
    <2> QED
      BY <1>2, <1>3, <1>5, <2>1 DEF found, Before
  <1> QED
    BY <1>1, <1>3, <1>6

-----------------------------------------------------------------------------
(* Look-up and removal.                                                    *)

\* e is the only hashed entry of its key.
OnlyOfKey(u, C, e) == \A x \in InChains(C) : bits(u)[x].key = bits(u)[e].key => x = e

\* Being the same is transitive.
LEMMA SameTwice ==
  ASSUME NEW u, NEW v, NEW w
  PROVE  /\ SameQueues(v, u) /\ SameQueues(w, v) => SameQueues(w, u)
         /\ SameChains(v, u) /\ SameChains(w, v) => SameChains(w, u)
         /\ SameBits(v, u) /\ SameBits(w, v) => SameBits(w, u)
  BY DEF SameQueues, SameLinks, SameEnds, SameChains, SameBits

\* The entry that is found, unlinked.
LEMMA UnlinkFound ==
  ASSUME NEW u \in Table, NEW C, Chained(u, C), NEW e \in InChains(C), OnlyOfKey(u, C, e)
  PROVE  LET k == bits(u)[e].key
             v == h_unlink(u, k, found(u, k))
         IN /\ k \in Keys /\ found(u, k).e = e
            /\ v \in Table /\ SameQueues(v, u) /\ SameBits(v, u)
            /\ \E D : Chained(v, D) /\ \A x : x \in InChains(D) <=> x \in InChains(C) /\ x # e
  <1> DEFINE k == bits(u)[e].key
             b == hash_32[k]
  <1>1. \A x \in InChains(C) : bits(u)[x].key = k => x = e
    BY DEF OnlyOfKey
  <1> HIDE DEF k
  <1>2. k = bits(u)[e].key
    BY DEF k
  <1>3. /\ k \in Keys
        /\ \E i \in 1 .. Len(C[hash_32[k]]) :
              e = C[hash_32[k]][i] /\ found(u, k) = [e |-> e, prev |-> Before(C[hash_32[k]], i)]
    BY <1>1, <1>2, FoundHit
  <1>4. PICK i \in 1 .. Len(C[hash_32[k]]) :
              e = C[hash_32[k]][i] /\ found(u, k) = [e |-> e, prev |-> Before(C[hash_32[k]], i)]
    BY <1>3
  <1> DEFINE prev == Before(C[hash_32[k]], i)
             v == unlinked(u, k, e, prev)
  <1>5. prev = Before(C[hash_32[k]], i)
    OBVIOUS
  <1> HIDE DEF prev
  <1>6. /\ v \in Table /\ SameQueues(v, u) /\ SameBits(v, u)
        /\ \E D : Chained(v, D) /\ \A x : x \in InChains(D) <=> x \in InChains(C) /\ x # e
    BY <1>3, <1>4, <1>5, UnlinkChained
  <1>7. h_unlink(u, k, found(u, k)) = v /\ found(u, k).e = e
    BY <1>4, <1>5 DEF unlinked
  <1> QED
    BY <1>3, <1>6, <1>7 DEF k

\* A look-up that finds e.
LEMMA LookupChained ==
  ASSUME NEW u \in Table, NEW C, Chained(u, C), NEW e \in InChains(C), OnlyOfKey(u, C, e)
  PROVE  LET k == bits(u)[e].key
             v == h_lookup(u, k)
         IN /\ v \in Table /\ SameQueues(v, u) /\ SameBits(v, u)
            /\ \E D : Chained(v, D) /\ InChains(D) = InChains(C)
  <1> DEFINE k == bits(u)[e].key
             v == h_lookup(u, k)
             f == found(u, k)
             a == h_unlink(u, k, f)
  <1>1. /\ k \in Keys /\ f.e = e
        /\ a \in Table /\ SameQueues(a, u) /\ SameBits(a, u)
        /\ \E D : Chained(a, D) /\ \A x : x \in InChains(D) <=> x \in InChains(C) /\ x # e
    BY UnlinkFound
  <1>2. e \in Entries /\ INDEXER_NULL \notin Entries
    BY KeyedChain, Constants
  <1>3. v = IF f.prev # INDEXER_NULL THEN h_insert(a, f.e) ELSE u
    <2>1. f.e # INDEXER_NULL
      BY <1>1, <1>2
    <2> QED
      BY <2>1 DEF h_lookup
  <1> HIDE DEF v, a, f, k
  <1>4. CASE f.prev = INDEXER_NULL
    <2>1. v = u
      BY <1>3, <1>4
    <2> QED
      BY <2>1 DEF v, k, SameQueues, SameLinks, SameEnds, SameBits
  <1>5. CASE f.prev # INDEXER_NULL
    <2>1. v = h_insert(a, e)
      BY <1>1, <1>3, <1>5
    <2>2. PICK D : Chained(a, D) /\ \A x : x \in InChains(D) <=> x \in InChains(C) /\ x # e
      BY <1>1
    <2>3. bits(a) = bits(u)
      BY <1>1 DEF SameBits
    <2>4. bits(a)[e].key \in Keys /\ e \notin InChains(D)
      BY <1>1, <2>2, <2>3 DEF k
    <2>5. /\ v \in Table /\ SameQueues(v, a) /\ SameBits(v, a)
      BY <1>1, <1>2, <2>1, <2>4, InsertEffect
    <2>6. PICK G : Chained(h_insert(a, e), G) /\ InChains(G) = InChains(D) \cup {e}
      BY <1>1, <1>2, <2>2, <2>4, InsertChained
    <2>7. Chained(v, G)
      BY <2>1, <2>6
    <2>8. InChains(G) = InChains(C)
      BY <2>2, <2>6
    <2>9. SameQueues(v, u) /\ SameBits(v, u)
      BY <1>1, <2>5, SameTwice
    <2> QED
      BY <2>5, <2>7, <2>8, <2>9 DEF v, k
  <1> QED
    BY <1>4, <1>5

\* h_remove of a hashed entry.
LEMMA RemoveChained ==
  ASSUME NEW u \in Table, NEW C, Chained(u, C), NEW e \in InChains(C), OnlyOfKey(u, C, e)
  PROVE  LET v == h_remove(u, e)
         IN /\ v \in Table /\ SameQueues(v, u) /\ SameBits(v, u)
            /\ \E D : Chained(v, D) /\ InChains(D) = InChains(C) \ {e}
  <1> DEFINE k == bits(u)[e].key
             v == h_remove(u, e)
             a == h_unlink(u, k, found(u, k))
  <1>1. /\ k \in Keys /\ found(u, k).e = e
        /\ a \in Table /\ SameQueues(a, u) /\ SameBits(a, u)
        /\ \E D : Chained(a, D) /\ \A x : x \in InChains(D) <=> x \in InChains(C) /\ x # e
    BY UnlinkFound
  <1>2. e \in Entries /\ INDEXER_NULL \notin Entries
    BY KeyedChain, Constants
  <1>3. u.es[e].key = k
    BY <1>2 DEF bits
  <1> HIDE DEF k
  <1>4. v = a
    BY <1>1, <1>2, <1>3 DEF h_remove
  <1> HIDE DEF v, a
  <1>5. PICK D : Chained(a, D) /\ \A x : x \in InChains(D) <=> x \in InChains(C) /\ x # e
    BY <1>1
  <1>6. Chained(v, D) /\ InChains(D) = InChains(C) \ {e}
    BY <1>4, <1>5
  <1> QED
    BY <1>1, <1>4, <1>6 DEF v

-----------------------------------------------------------------------------
(* What a table holds, and what each operation makes of it.                *)

\* The entries that were given out, by the bits B.
Allocated(B) == {e \in Entries : B[e].alloc}

\* The table u holds the queues S and the chains C, and counts the entries it
\* gave out.
Rep(u, S, C) ==
  /\ u \in Table
  /\ Queued(u, S)
  /\ Chained(u, C)
  /\ u.nr_allocated = Cardinality(Allocated(bits(u)))

\* e is on none of the queues S.
Off(S, e) == \A m \in Queues : e \notin ToSet(S[m])

\* Chains do not depend on the queues.
LEMMA SameKeysChained ==
  ASSUME NEW u, NEW C, Chained(u, C), NEW v, SameChains(v, u), bits(v) = bits(u)
  PROVE  Chained(v, C)
  BY SameChained

\* An entry that is not on a queue is not at its ends.
LEMMA NotAtEnds ==
  ASSUME NEW u, NEW l, NEW s, OnQueue(u, l, s), NEW e \in Entries, e \notin ToSet(s)
  PROVE  heads(u)[l] # e /\ tails(u)[l] # e
  <1>1. /\ s \in Seq(Entries) /\ Len(s) \in Nat /\ (s = <<>> <=> Len(s) = 0)
        /\ heads(u)[l] = (IF s = <<>> THEN INDEXER_NULL ELSE s[1])
        /\ tails(u)[l] = (IF s = <<>> THEN INDEXER_NULL ELSE s[Len(s)])
        /\ e # INDEXER_NULL
    BY FollowedEnds, Constants
  <1>2. \A j \in 1 .. Len(s) : s[j] # e
    BY <1>1, Places
  <1> QED
    BY <1>1, <1>2

\* l_add_tail of an entry that is on no queue appends it to the list.
LEMMA AddTailRep ==
  ASSUME NEW u, NEW S, NEW C, Rep(u, S, C), NEW l \in Queues, NEW e \in Entries, Off(S, e)
  PROVE  LET v == l_add_tail(u, l, e) IN
         /\ Rep(v, [S EXCEPT ![l] = Append(S[l], e)], C) /\ bits(v) = bits(u)
  <1>1. u \in Table /\ Queued(u, S) /\ Chained(u, C)
    BY DEF Rep
  <1> DEFINE v == l_add_tail(u, l, e)
  <1>2. Queued(v, [S EXCEPT ![l] = Append(S[l], e)])
    BY <1>1, AddTailQueued DEF Off
  <1>3. v \in Table /\ SameChains(v, u) /\ SameBits(v, u)
    <2>1. u.list[l].tail # e
      <3>1. OnQueue(u, l, S[l]) /\ e \notin ToSet(S[l])
        BY <1>1 DEF Queued, Off
      <3>2. tails(u)[l] = u.list[l].tail
        BY EndAt
      <3> QED
        BY <3>1, <3>2, NotAtEnds
    <2> QED
      BY <1>1, <2>1, AddTailEffect
  <1> HIDE DEF v
  <1>4. bits(v) = bits(u) /\ v.nr_allocated = u.nr_allocated
    BY <1>3 DEF SameBits
  <1>5. Chained(v, C)
    BY <1>1, <1>3, <1>4, SameKeysChained
  <1> QED
    BY <1>2, <1>3, <1>4, <1>5 DEF Rep, v

\* l_add_head of an entry that is on no queue puts it before the list.
LEMMA AddHeadRep ==
  ASSUME NEW u, NEW S, NEW C, Rep(u, S, C), NEW l \in Queues, NEW e \in Entries, Off(S, e)
  PROVE  LET v == l_add_head(u, l, e) IN
         /\ Rep(v, [S EXCEPT ![l] = <<e>> \o S[l]], C) /\ bits(v) = bits(u)
  <1>1. u \in Table /\ Queued(u, S) /\ Chained(u, C)
    BY DEF Rep
  <1> DEFINE v == l_add_head(u, l, e)
  <1>2. Queued(v, [S EXCEPT ![l] = <<e>> \o S[l]])
    BY <1>1, AddHeadQueued DEF Off
  <1>3. v \in Table /\ SameChains(v, u) /\ SameBits(v, u)
    <2>1. u.list[l].head # e
      <3>1. OnQueue(u, l, S[l]) /\ e \notin ToSet(S[l])
        BY <1>1 DEF Queued, Off
      <3>2. heads(u)[l] = u.list[l].head
        BY EndAt
      <3> QED
        BY <3>1, <3>2, NotAtEnds
    <2> QED
      BY <1>1, <2>1, AddHeadEffect
  <1> HIDE DEF v
  <1>4. bits(v) = bits(u) /\ v.nr_allocated = u.nr_allocated
    BY <1>3 DEF SameBits
  <1>5. Chained(v, C)
    BY <1>1, <1>3, <1>4, SameKeysChained
  <1> QED
    BY <1>2, <1>3, <1>4, <1>5 DEF Rep, v

\* l_del of an entry that is on the queue takes it out of the list.
LEMMA DelRep ==
  ASSUME NEW u, NEW S, NEW C, Rep(u, S, C), NEW l \in Queues, NEW e \in ToSet(S[l])
  PROVE  LET v == l_del(u, l, e)
             R == [S EXCEPT ![l] = M!l_del(S[l], e)]
         IN Rep(v, R, C) /\ bits(v) = bits(u) /\ Off(R, e) /\ e \in Entries
  <1>1. u \in Table /\ Queued(u, S) /\ Chained(u, C)
    BY DEF Rep
  <1> DEFINE v == l_del(u, l, e)
             s == M!l_del(S[l], e)
             R == [S EXCEPT ![l] = s]
  <1>2. Queued(v, R) /\ ToSet(s) = ToSet(S[l]) \ {e}
    BY <1>1, DelQueued
  <1>3. e \in Entries /\ S \in [Queues -> Seq(Entries)]
    BY <1>1, Places DEF Queued
  <1>4. v \in Table /\ SameChains(v, u) /\ SameBits(v, u)
    BY <1>1, <1>3, DelEffect
  <1> HIDE DEF v, s
  <1>5. bits(v) = bits(u) /\ v.nr_allocated = u.nr_allocated
    BY <1>4 DEF SameBits
  <1>6. Chained(v, C)
    BY <1>1, <1>4, <1>5, SameKeysChained
  <1>7. R[l] = s /\ \A m \in Queues \ {l} : R[m] = S[m]
    BY <1>3
  <1> HIDE DEF R
  <1>8. Off(R, e)
    BY <1>1, <1>2, <1>7 DEF Off, Queued
  <1> QED
    BY <1>2, <1>3, <1>4, <1>5, <1>6, <1>8 DEF Rep, v, R, s

\* h_insert of an entry that is in no chain adds it to the hashed ones.
LEMMA InsertRep ==
  ASSUME NEW u, NEW S, NEW C, Rep(u, S, C), NEW e \in Entries, e \notin InChains(C),
         bits(u)[e].key \in Keys
  PROVE  LET v == h_insert(u, e) IN
         /\ bits(v) = bits(u)
         /\ \E D : Rep(v, S, D) /\ InChains(D) = InChains(C) \cup {e}
  <1>1. u \in Table /\ Queued(u, S) /\ Chained(u, C)
    BY DEF Rep
  <1> DEFINE v == h_insert(u, e)
  <1>2. v \in Table /\ SameQueues(v, u) /\ SameBits(v, u)
    BY <1>1, InsertEffect
  <1>3. \E D : Chained(v, D) /\ InChains(D) = InChains(C) \cup {e}
    BY <1>1, InsertChained
  <1> HIDE DEF v
  <1>4. Queued(v, S) /\ bits(v) = bits(u) /\ v.nr_allocated = u.nr_allocated
    BY <1>1, <1>2, SameQueued DEF SameBits
  <1> QED
    BY <1>2, <1>3, <1>4 DEF Rep, v

\* h_lookup of a key that one entry has moves links but no entry in or out.
LEMMA LookupRep ==
  ASSUME NEW u, NEW S, NEW C, Rep(u, S, C), NEW e \in InChains(C), OnlyOfKey(u, C, e)
  PROVE  LET v == h_lookup(u, bits(u)[e].key) IN
         /\ bits(v) = bits(u)
         /\ \E D : Rep(v, S, D) /\ InChains(D) = InChains(C)
  <1>1. u \in Table /\ Queued(u, S) /\ Chained(u, C)
    BY DEF Rep
  <1> DEFINE v == h_lookup(u, bits(u)[e].key)
  <1>2. /\ v \in Table /\ SameQueues(v, u) /\ SameBits(v, u)
        /\ \E D : Chained(v, D) /\ InChains(D) = InChains(C)
    BY <1>1, LookupChained
  <1> HIDE DEF v
  <1>4. Queued(v, S) /\ bits(v) = bits(u) /\ v.nr_allocated = u.nr_allocated
    BY <1>1, <1>2, SameQueued DEF SameBits
  <1> QED
    BY <1>2, <1>4 DEF Rep, v

\* h_remove of the only entry of its key takes it out of the hashed ones.
LEMMA RemoveRep ==
  ASSUME NEW u, NEW S, NEW C, Rep(u, S, C), NEW e \in InChains(C), OnlyOfKey(u, C, e)
  PROVE  LET v == h_remove(u, e) IN
         /\ bits(v) = bits(u)
         /\ \E D : Rep(v, S, D) /\ InChains(D) = InChains(C) \ {e}
  <1>1. u \in Table /\ Queued(u, S) /\ Chained(u, C)
    BY DEF Rep
  <1> DEFINE v == h_remove(u, e)
  <1>2. /\ v \in Table /\ SameQueues(v, u) /\ SameBits(v, u)
        /\ \E D : Chained(v, D) /\ InChains(D) = InChains(C) \ {e}
    BY <1>1, RemoveChained
  <1> HIDE DEF v
  <1>4. Queued(v, S) /\ bits(v) = bits(u) /\ v.nr_allocated = u.nr_allocated
    BY <1>1, <1>2, SameQueued DEF SameBits
  <1> QED
    BY <1>2, <1>4 DEF Rep, v

\* A change of bits that leaves keys and what is allocated as it is.
LEMMA BitRep ==
  ASSUME NEW u, NEW S, NEW C, Rep(u, S, C), NEW v \in Table, SameQueues(v, u), SameChains(v, u),
         v.nr_allocated = u.nr_allocated,
         \A x \in Entries : bits(v)[x].key = bits(u)[x].key,
         Allocated(bits(v)) = Allocated(bits(u))
  PROVE  Rep(v, S, C)
  <1>1. u \in Table /\ Queued(u, S) /\ Chained(u, C)
    BY DEF Rep
  <1>2. \A x \in InChains(C) : x \in Entries
    BY <1>1, KeyedChain
  <1>3. Chained(v, C)
    BY <1>1, <1>2, SameChained
  <1>4. Queued(v, S)
    BY <1>1, SameQueued
  <1> QED
    BY <1>1, <1>3, <1>4 DEF Rep

\* The bits of an entry.
LEMMA BitsAt ==
  ASSUME NEW u \in Table, NEW e \in Entries
  PROVE  /\ bits(u)[e] = [key |-> bits(u)[e].key, pending |-> bits(u)[e].pending,
                          dirty |-> bits(u)[e].dirty, alloc |-> bits(u)[e].alloc]
         /\ u.es[e].key = bits(u)[e].key /\ u.es[e].pending = bits(u)[e].pending
         /\ u.es[e].dirty = bits(u)[e].dirty /\ u.es[e].alloc = bits(u)[e].alloc
  BY DEF bits

\* An assignment to the pending bit, and
LEMMA PendingRep ==
  ASSUME NEW u, NEW S, NEW C, Rep(u, S, C), NEW e \in Entries, NEW i \in BOOLEAN
  PROVE  LET v == set_pending(u, e, i) IN
         /\ Rep(v, S, C) /\ bits(v) = [bits(u) EXCEPT ![e].pending = i]
  <1>1. u \in Table
    BY DEF Rep
  <1> DEFINE v == set_pending(u, e, i)
  <1>2. /\ v \in Table /\ SameLinks(v, u) /\ hashes(v) = hashes(u)
        /\ bits(v) = [bits(u) EXCEPT ![e].pending = i]
        /\ SameEnds(v, u) /\ v.buckets = u.buckets /\ v.nr_allocated = u.nr_allocated
    BY <1>1, SetPending
  <1> HIDE DEF v
  <1>3. ASSUME NEW x \in Entries PROVE bits(v)[x].key = bits(u)[x].key /\ bits(v)[x].alloc = bits(u)[x].alloc
    BY <1>1, <1>2, BitsAt, ColumnDomains
  <1>4. Allocated(bits(v)) = Allocated(bits(u))
    BY <1>3 DEF Allocated
  <1> QED
    BY <1>2, <1>3, <1>4, BitRep DEF SameQueues, SameChains, v

\* one to the dirty bit, leave queues and chains alone.
LEMMA DirtyRep ==
  ASSUME NEW u, NEW S, NEW C, Rep(u, S, C), NEW e \in Entries, NEW i \in BOOLEAN
  PROVE  LET v == set_dirty(u, e, i) IN
         /\ Rep(v, S, C) /\ bits(v) = [bits(u) EXCEPT ![e].dirty = i]
  <1>1. u \in Table
    BY DEF Rep
  <1> DEFINE v == set_dirty(u, e, i)
  <1>2. /\ v \in Table /\ SameLinks(v, u) /\ hashes(v) = hashes(u)
        /\ bits(v) = [bits(u) EXCEPT ![e].dirty = i]
        /\ SameEnds(v, u) /\ v.buckets = u.buckets /\ v.nr_allocated = u.nr_allocated
    BY <1>1, SetDirty
  <1> HIDE DEF v
  <1>3. ASSUME NEW x \in Entries PROVE bits(v)[x].key = bits(u)[x].key /\ bits(v)[x].alloc = bits(u)[x].alloc
    BY <1>1, <1>2, BitsAt, ColumnDomains
  <1>4. Allocated(bits(v)) = Allocated(bits(u))
    BY <1>3 DEF Allocated
  <1> QED
    BY <1>2, <1>3, <1>4, BitRep DEF SameQueues, SameChains, v

\* The number of allocated entries, when one is given out and when one returns.
LEMMA AllocatedCount ==
  ASSUME NEW B, NEW G, NEW e \in Entries,
         \A x \in Entries \ {e} : B[x].alloc <=> G[x].alloc,
         B[e].alloc, ~G[e].alloc
  PROVE  /\ Cardinality(Allocated(B)) = Cardinality(Allocated(G)) + 1
         /\ Cardinality(Allocated(G)) \in Nat /\ Cardinality(Allocated(B)) <= N
  <1>1. IsFiniteSet(Entries) /\ Cardinality(Entries) = N
    BY FS_Interval, Constants DEF Entries, N
  <1>2. Allocated(B) \subseteq Entries /\ Allocated(G) \subseteq Entries
    BY DEF Allocated
  <1>3. Allocated(B) = Allocated(G) \cup {e} /\ e \notin Allocated(G)
    BY DEF Allocated
  <1>4. IsFiniteSet(Allocated(G)) /\ IsFiniteSet(Allocated(B)) /\ Cardinality(Allocated(B)) <= N
    BY <1>1, <1>2, FS_Subset
  <1>5. Cardinality(Allocated(G)) \in Nat
    BY <1>4, FS_CardinalityType
  <1> QED
    BY <1>3, <1>4, <1>5, FS_AddElement

\* free_entry of an allocated entry that is on no queue appends it to the free
\* ones, and the count stays that of the allocated entries.
LEMMA FreeRep ==
  ASSUME NEW u, NEW S, NEW C, Rep(u, S, C), NEW e \in Entries, Off(S, e), bits(u)[e].alloc
  PROVE  LET v == free_entry(u, e) IN
         /\ Rep(v, [S EXCEPT !["free"] = Append(S["free"], e)], C)
         /\ bits(v) = [bits(u) EXCEPT ![e].alloc = FALSE]
  <1> DEFINE n == (u.nr_allocated + UINT_MOD - 1) % UINT_MOD
             a == set_alloc(u, e, FALSE)
             b == set_allocated(a, n)
             v == free_entry(u, e)
  <1>1. u \in Table /\ Queued(u, S) /\ Chained(u, C) /\ u.nr_allocated = Cardinality(Allocated(bits(u)))
    BY DEF Rep
  <1>2. /\ a \in Table /\ SameLinks(a, u) /\ hashes(a) = hashes(u)
        /\ bits(a) = [bits(u) EXCEPT ![e].alloc = FALSE]
        /\ SameEnds(a, u) /\ a.buckets = u.buckets /\ a.nr_allocated = u.nr_allocated
    BY <1>1, SetAlloc
  <1>3. v = l_add_tail(b, "free", e)
    <2>1. v = l_add_tail(set_allocated(a, (a.nr_allocated + UINT_MOD - 1) % UINT_MOD), "free", e)
      BY DEF free_entry, set_allocated, set_alloc
    <2> QED
      BY <1>2, <2>1
  <1> HIDE DEF a, v
  <1>4. /\ \A x \in Entries : bits(a)[x].key = bits(u)[x].key
        /\ \A x \in Entries \ {e} : bits(a)[x].alloc = bits(u)[x].alloc
        /\ ~bits(a)[e].alloc
    <2>1. DOMAIN bits(u) = Entries
      BY ColumnDomains
    <2>2. ASSUME NEW x \in Entries \ {e} PROVE bits(a)[x] = bits(u)[x]
      BY <1>2, <2>1
    <2>3. bits(a)[e] = [bits(u)[e] EXCEPT !.alloc = FALSE]
      BY <1>2, <2>1
    <2>4. bits(a)[e].key = bits(u)[e].key /\ ~bits(a)[e].alloc
      BY <1>1, <2>3, BitsAt
    <2> QED
      BY <2>2, <2>4
  <1>5. n = Cardinality(Allocated(bits(a))) /\ n \in Nat
    <2>1. /\ u.nr_allocated = Cardinality(Allocated(bits(a))) + 1
          /\ Cardinality(Allocated(bits(a))) \in Nat /\ u.nr_allocated <= N
      BY <1>1, <1>4, AllocatedCount
    <2>2. u.nr_allocated \in Nat /\ u.nr_allocated > 0
      BY <2>1
    <2>3. n = u.nr_allocated - 1 /\ n \in Nat
      BY <2>1, <2>2, Counting
    <2> QED
      BY <2>1, <2>3
  <1> HIDE DEF n
  <1>6. b \in Table /\ b.es = a.es /\ b.list = a.list /\ b.buckets = a.buckets /\ b.nr_allocated = n
    BY <1>2, <1>5, SetAllocated
  <1> HIDE DEF b
  <1>7. SameLinks(b, a) /\ hashes(b) = hashes(a) /\ bits(b) = bits(a) /\ SameEnds(b, a)
    BY <1>6, SameColumns
  <1>8. SameQueues(b, u) /\ SameChains(b, u)
    BY <1>2, <1>6, <1>7 DEF SameQueues, SameLinks, SameEnds, SameChains
  <1>9. Queued(b, S)
    BY <1>1, <1>8, SameQueued
  <1>10. Chained(b, C)
    <2>1. \A x \in InChains(C) : x \in Entries
      BY <1>1, KeyedChain
    <2>2. \A x \in InChains(C) : bits(b)[x].key = bits(u)[x].key
      BY <1>4, <1>7, <2>1
    <2> QED
      BY <1>1, <1>8, <2>2, SameChained
  <1>11. Rep(b, S, C)
    BY <1>5, <1>6, <1>7, <1>9, <1>10 DEF Rep
  <1>12. Rep(v, [S EXCEPT !["free"] = Append(S["free"], e)], C) /\ bits(v) = bits(b)
    BY <1>3, <1>11, AddTailRep DEF Queues
  <1> QED
    BY <1>2, <1>7, <1>12 DEF v

\* Taking off the first.
LEMMA DelFirst ==
  ASSUME NEW s \in Seq(Entries), IsInjective(s), s # <<>>
  PROVE  Head(s) \in ToSet(s) /\ Head(s) = s[1] /\ M!l_del(s, Head(s)) = Tail(s)
  <1>1. Len(s) \in Nat /\ 1 \in 1 .. Len(s) /\ Head(s) = s[1] /\ s[1] \in ToSet(s)
    BY Places
  <1> DEFINE r == M!l_del(s, s[1])
  <1>2. /\ r \in Seq(Entries) /\ Len(r) = Len(s) - 1
        /\ \A k \in 1 .. Len(s) - 1 : r[k] = IF k < 1 THEN s[k] ELSE s[k + 1]
    BY <1>1, DelPlaces
  <1> HIDE DEF r
  <1>3. Tail(s) \in Seq(Entries) /\ Len(Tail(s)) = Len(s) - 1 /\ \A k \in 1 .. Len(s) - 1 : Tail(s)[k] = s[k + 1]
    BY HeadTailProperties
  <1>4. r = Tail(s)
    BY <1>1, <1>2, <1>3, SeqEqual
  <1> QED
    BY <1>1, <1>4 DEF r

\* An entry as alloc_entry hands it out, for key k.
fresh(k) == [init_entry EXCEPT !.alloc = TRUE, !.key = k]

\* Table v is u with entry e as alloc_entry hands it out for key k.
IsReset(v, u, e, k) ==
  /\ v \in Table /\ SameEnds(v, u) /\ v.buckets = u.buckets /\ v.nr_allocated = u.nr_allocated
  /\ \A x \in Entries \ {e} : nexts(v)[x] = nexts(u)[x]
  /\ \A x \in Entries \ {e} : prevs(v)[x] = prevs(u)[x]
  /\ \A x \in Entries \ {e} : hashes(v)[x] = hashes(u)[x]
  /\ bits(v) = [bits(u) EXCEPT ![e] = [key |-> k, pending |-> FALSE, dirty |-> FALSE, alloc |-> TRUE]]

\* The assignment with which alloc_entry resets an entry.
LEMMA ResetEntry ==
  ASSUME NEW u \in Table, NEW e \in Entries, NEW k \in Keys
  PROVE  IsReset(set_entry(u, e, fresh(k)), u, e, k)
  <1> DEFINE r == fresh(k)
             v == set_entry(u, e, r)
  <1>1. /\ r \in EntryType
        /\ entry_bits(r) = [key |-> k, pending |-> FALSE, dirty |-> FALSE, alloc |-> TRUE]
    BY DEF fresh, init_entry, EntryType, Links, entry_bits
  <1> HIDE DEF r
  <1>2. /\ v \in Table /\ SameEnds(v, u) /\ v.buckets = u.buckets /\ v.nr_allocated = u.nr_allocated
        /\ nexts(v) = [nexts(u) EXCEPT ![e] = r.next]
        /\ prevs(v) = [prevs(u) EXCEPT ![e] = r.prev]
        /\ hashes(v) = [hashes(u) EXCEPT ![e] = r.hash_next]
        /\ bits(v) = [bits(u) EXCEPT ![e] = entry_bits(r)]
    BY <1>1, SetEntry
  <1> HIDE DEF v
  <1>3. DOMAIN nexts(u) = Entries /\ DOMAIN prevs(u) = Entries /\ DOMAIN hashes(u) = Entries
    BY ColumnDomains
  <1>4. \A x \in Entries \ {e} : nexts(v)[x] = nexts(u)[x]
    BY <1>2, <1>3
  <1>5. \A x \in Entries \ {e} : prevs(v)[x] = prevs(u)[x]
    BY <1>2, <1>3
  <1>6. \A x \in Entries \ {e} : hashes(v)[x] = hashes(u)[x]
    BY <1>2, <1>3
  <1>7. IsReset(v, u, e, k)
    BY <1>1, <1>2, <1>4, <1>5, <1>6 DEF IsReset
  <1> QED
    BY <1>7 DEF r, v

\* alloc_entry takes the first free entry, which belongs to nothing then.
LEMMA AllocRep ==
  ASSUME NEW u, NEW S, NEW C, Rep(u, S, C), S["free"] # <<>>, NEW e, e = Head(S["free"]),
         e \notin InChains(C), ~bits(u)[e].alloc, NEW k \in Keys
  PROVE  LET v == alloc_entry(u, k)
             R == [S EXCEPT !["free"] = Tail(S["free"])]
         IN /\ e \in Entries /\ l_head(u, "free") = e
            /\ Rep(v, R, C) /\ Off(R, e)
            /\ bits(v) = [bits(u) EXCEPT ![e] = [key |-> k, pending |-> FALSE, dirty |-> FALSE, alloc |-> TRUE]]
  <1> DEFINE f == S["free"]
             R == [S EXCEPT !["free"] = Tail(S["free"])]
             a == l_del(u, "free", e)
             b == set_entry(a, e, fresh(k))
             n == (u.nr_allocated + 1) % UINT_MOD
             v == alloc_entry(u, k)
  <1>1. /\ u \in Table /\ Queued(u, S) /\ Chained(u, C) /\ u.nr_allocated = Cardinality(Allocated(bits(u)))
        /\ "free" \in Queues
    BY DEF Rep, Queues
  <1>2. OnQueue(u, "free", f) /\ f \in Seq(Entries) /\ IsInjective(f) /\ heads(u)["free"] = f[1]
    <2>1. OnQueue(u, "free", f)
      BY <1>1 DEF Queued
    <2> HIDE DEF f
    <2> QED
      BY <2>1, FollowedEnds DEF f
  <1>3. e \in ToSet(f) /\ e = f[1] /\ M!l_del(f, e) = Tail(f) /\ l_head(u, "free") = e /\ e \in Entries
    <2>1. l_head(u, "free") = heads(u)["free"]
      BY <1>1, EndAt DEF l_head
    <2> QED
      BY <1>2, <2>1, DelFirst, Places
  <1>4. Rep(a, R, C) /\ bits(a) = bits(u) /\ Off(R, e)
    BY <1>1, <1>3, DelRep
  <1>5. /\ a \in Table /\ Queued(a, R) /\ Chained(a, C)
    BY <1>4 DEF Rep
  <1>6. a.nr_allocated = u.nr_allocated
    BY <1>1, <1>4 DEF Rep
  <1>7. v = set_allocated(b, n)
    <2>1. v = [b EXCEPT !.nr_allocated = (b.nr_allocated + 1) % UINT_MOD]
      BY <1>3 DEF alloc_entry, set_entry, fresh
    <2>2. b.nr_allocated = u.nr_allocated
      BY <1>5, <1>6 DEF Table, set_entry
    <2> QED
      BY <2>1, <2>2 DEF set_allocated
  <1> HIDE DEF a, v, R, f
  <1>8. /\ b \in Table /\ SameEnds(b, a) /\ b.buckets = a.buckets
        /\ \A x \in Entries \ {e} : nexts(b)[x] = nexts(a)[x]
        /\ \A x \in Entries \ {e} : prevs(b)[x] = prevs(a)[x]
        /\ \A x \in Entries \ {e} : hashes(b)[x] = hashes(a)[x]
        /\ bits(b) = [bits(a) EXCEPT ![e] = [key |-> k, pending |-> FALSE, dirty |-> FALSE, alloc |-> TRUE]]
    <2>1. a \in Table /\ e \in Entries
      BY <1>3, <1>5
    <2>2. IsReset(b, a, e, k)
      BY <2>1, ResetEntry
    <2> HIDE DEF b
    <2> QED
      BY <2>2 DEF IsReset
  <1> HIDE DEF b
  <1>9. bits(b) = [bits(u) EXCEPT ![e] = [key |-> k, pending |-> FALSE, dirty |-> FALSE, alloc |-> TRUE]]
    BY <1>4, <1>8
  <1>10. /\ \A x \in Entries \ {e} : bits(b)[x] = bits(u)[x]
         /\ bits(b)[e].alloc
    BY <1>3, <1>9, ColumnDomains
  <1>11. n = Cardinality(Allocated(bits(b))) /\ n \in Nat
    <2>1. /\ Cardinality(Allocated(bits(b))) = u.nr_allocated + 1
          /\ u.nr_allocated \in Nat /\ Cardinality(Allocated(bits(b))) <= N
      <3>1. \A x \in Entries \ {e} : bits(b)[x].alloc <=> bits(u)[x].alloc
        BY <1>10
      <3>2. e \in Entries /\ bits(b)[e].alloc /\ ~bits(u)[e].alloc
        BY <1>3, <1>10
      <3>3. /\ Cardinality(Allocated(bits(b))) = Cardinality(Allocated(bits(u))) + 1
            /\ Cardinality(Allocated(bits(u))) \in Nat /\ Cardinality(Allocated(bits(b))) <= N
        BY <3>1, <3>2, AllocatedCount
      <3> QED
        BY <1>1, <3>3
    <2>2. u.nr_allocated < N
      BY <2>1, Constants
    <2>3. n = u.nr_allocated + 1 /\ n \in Nat
      BY <2>1, <2>2, Counting
    <2> QED
      BY <2>1, <2>3
  <1> HIDE DEF n
  <1>12. v \in Table /\ v.es = b.es /\ v.list = b.list /\ v.buckets = b.buckets /\ v.nr_allocated = n
    BY <1>7, <1>8, <1>11, SetAllocated
  <1>13. SameLinks(v, b) /\ hashes(v) = hashes(b) /\ bits(v) = bits(b) /\ SameEnds(v, b)
    BY <1>12, SameColumns
  <1>14. Queued(v, R)
    <2>1. SameEnds(v, a)
      BY <1>8, <1>13 DEF SameEnds
    <2>2. \A x \in Entries \ {e} : nexts(v)[x] = nexts(a)[x] /\ prevs(v)[x] = prevs(a)[x]
      BY <1>8, <1>13 DEF SameLinks
    <2>3. \A m \in Queues : e \notin ToSet(R[m])
      BY <1>4 DEF Off
    <2> QED
      BY <1>3, <1>5, <2>1, <2>2, <2>3, OffQueues
  <1>15. Chained(v, C)
    <2>1. v.buckets = a.buckets
      BY <1>8, <1>12
    <2>2. \A x \in Entries \ {e} : hashes(v)[x] = hashes(a)[x]
      BY <1>8, <1>13
    <2>3. \A x \in Entries \ {e} : bits(v)[x].key = bits(a)[x].key
      BY <1>4, <1>10, <1>13
    <2> QED
      BY <1>3, <1>5, <2>1, <2>2, <2>3, OffChains
  <1>16. Rep(v, R, C)
    BY <1>11, <1>12, <1>13, <1>14, <1>15 DEF Rep
  <1> QED
    BY <1>3, <1>4, <1>9, <1>13, <1>16 DEF v, R
=============================================================================
