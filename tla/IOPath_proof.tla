---------------------------- MODULE IOPath_proof ----------------------------
(***************************************************************************)
(* Proofs about IOPath, for every size of page, cache page and sector that *)
(* is a power of two times another, every request and every way in which   *)
(* the driver cuts it.                                                     *)
(*                                                                         *)
(* The shifts and the walk of reset_sgl_fn are recursive functions.  What  *)
(* they compute is proved by induction in the form of a statement about    *)
(* sets: a set of numbers with 0 and all successors is Nat (Induction),    *)
(* which follows from the least element of a set (Least), and this from    *)
(* the library's theorem that inclusion of finite sets is well founded.    *)
(***************************************************************************)
EXTENDS IOPath, FiniteSets, FiniteSetTheorems, WellFoundedInduction, TLAPS

(* Every nonempty set of natural numbers has a least element. *)
LEMMA Least ==
  ASSUME NEW T \in SUBSET Nat, T # {}
  PROVE  \E m \in T : \A k \in T : m <= k
  <1> DEFINE U == {0 .. n : n \in T}
  <1>1. U \subseteq FiniteSubsetsOf(Nat) /\ U # {}
    <2>1. \A n \in T : IsFiniteSet(0 .. n) /\ 0 .. n \in SUBSET Nat
      BY FS_Interval
    <2> QED
      BY <2>1 DEF FiniteSubsetsOf
  <1>2. IsWellFoundedOn(StrictSubsetOrdering(Nat), FiniteSubsetsOf(Nat))
    BY FS_StrictSubsetOrderingWellFounded
  <1>3. PICK x \in U : \A y \in U : ~(<<y, x>> \in StrictSubsetOrdering(Nat))
    <2> HIDE DEF U
    <2> QED
      BY <1>1, <1>2, WFMin
  <1>4. PICK m \in T : x = 0 .. m
    OBVIOUS
  <1>5. ASSUME NEW k \in T, k < m PROVE FALSE
    <2>1. 0 .. k \in U /\ 0 .. k \subseteq 0 .. m /\ m \in 0 .. m /\ m \notin 0 .. k
      BY <1>5
    <2>2. <<0 .. k, x>> \in StrictSubsetOrdering(Nat)
      BY <1>4, <2>1 DEF StrictSubsetOrdering
    <2> QED
      BY <1>3, <2>1, <2>2
  <1> QED
    BY <1>5

(* A set of natural numbers with 0 and all successors of its members is Nat. *)
LEMMA Induction ==
  ASSUME NEW T \in SUBSET Nat, 0 \in T, \A n \in T : n + 1 \in T
  PROVE  T = Nat
  <1> SUFFICES ASSUME Nat \ T # {}
               PROVE  FALSE
    OBVIOUS
  <1>1. PICK m \in Nat \ T : \A k \in Nat \ T : m <= k
    BY Least
  <1>2. m - 1 \in T
    BY <1>1
  <1> QED
    BY <1>1, <1>2

(* Quotient and remainder. *)
LEMMA DivMod ==
  ASSUME NEW d \in Nat \ {0}, NEW n \in Nat
  PROVE  n \div d \in Nat /\ n % d \in 0 .. d - 1 /\ n = (n \div d) * d + (n % d)
  <1> DEFINE q == n \div d
             r == n - d * q
  <1>1. q \in Nat
    OBVIOUS
  <1>2. d * q <= n /\ n < d * q + d
    OBVIOUS
  <1>3. d * q \in Nat /\ d * q = q * d
    BY <1>1
  <1>4. r \in 0 .. d - 1 /\ n = q * d + r
    <2> HIDE DEF q
    <2> QED
      BY <1>2, <1>3
  <1>5. n % d = r
    <2> HIDE DEF q, r
    <2> QED
      BY <1>1, <1>4
  <1>6. n = q * d + (n % d)
    <2> HIDE DEF q, r
    <2> QED
      BY <1>4, <1>5
  <1> QED
    BY <1>1, <1>4, <1>5, <1>6

(* They are the only numbers with that property. *)
LEMMA DivModOf ==
  ASSUME NEW d \in Nat \ {0}, NEW q \in Nat, NEW r \in 0 .. d - 1
  PROVE  (q * d + r) \div d = q /\ (q * d + r) % d = r
  <1>1. (q * d + r) \div d = q
    OBVIOUS
  <1>2. (q * d + r) % d = r
    OBVIOUS
  <1> QED
    BY <1>1, <1>2

(* A smaller multiple of d is smaller by d at least. *)
LEMMA TimesLess ==
  ASSUME NEW d \in Nat \ {0}, NEW a \in Nat, NEW b \in Nat, a < b
  PROVE  a * d + d <= b * d
  OBVIOUS

-----------------------------------------------------------------------------
(* Powers of two *)

Two(n) == 2 ^ n

(* The library knows powers of two from the number of subsets. *)
LEMMA PowOfCardinality ==
  ASSUME NEW n \in Nat
  PROVE  /\ IsFiniteSet(SUBSET (1 .. n))
         /\ Two(n) = Cardinality(SUBSET (1 .. n))
         /\ Two(n) \in Nat \ {0}
  <1>1. IsFiniteSet(1 .. n) /\ Cardinality(1 .. n) = n
    BY FS_Interval
  <1>2. IsFiniteSet(SUBSET (1 .. n)) /\ Two(n) = Cardinality(SUBSET (1 .. n))
    BY <1>1, FS_SUBSET DEF Two
  <1>3. Cardinality(SUBSET (1 .. n)) \in Nat \ {0}
    <2>1. Cardinality(SUBSET (1 .. n)) \in Nat
      BY <1>2, FS_CardinalityType
    <2>2. SUBSET (1 .. n) # {}
      OBVIOUS
    <2>3. Cardinality(SUBSET (1 .. n)) # 0
      BY <1>2, <2>2, FS_EmptySet
    <2> QED
      BY <2>1, <2>3
  <1> QED
    BY <1>2, <1>3

(* A power of two is a positive number. *)
LEMMA PowType ==
  ASSUME NEW n \in Nat
  PROVE  Two(n) \in Nat \ {0}
  BY PowOfCardinality, Zenon

(* A set with one more element has twice as many subsets. *)
LEMMA PowNext ==
  ASSUME NEW n \in Nat
  PROVE  Two(n + 1) = 2 * Two(n)
  <1> DEFINE S == SUBSET (1 .. n)
             B == {x \cup {n + 1} : x \in S}
             f == [x \in S |-> x \cup {n + 1}]
  <1>1. IsFiniteSet(S) /\ Two(n) = Cardinality(S) /\ Two(n) \in Nat
    BY PowOfCardinality
  <1>2. Two(n + 1) = Cardinality(SUBSET (1 .. n + 1))
    <2>1. n + 1 \in Nat
      OBVIOUS
    <2> QED
      BY <2>1, PowOfCardinality, Zenon
  <1>3. n + 1 \notin 1 .. n /\ 1 .. n + 1 = (1 .. n) \cup {n + 1}
    OBVIOUS
  <1>4. SUBSET (1 .. n + 1) = S \cup B
    <2>1. ASSUME NEW x \in SUBSET (1 .. n + 1), x \notin S
          PROVE  x \in B
      <3>1. n + 1 \in x /\ x \ {n + 1} \in S /\ x = (x \ {n + 1}) \cup {n + 1}
        BY <1>3, <2>1
      <3> QED
        BY <3>1
    <2>2. S \subseteq SUBSET (1 .. n + 1) /\ B \subseteq SUBSET (1 .. n + 1)
      BY <1>3
    <2> QED
      BY <2>1, <2>2
  <1>5. S \cap B = {}
    BY <1>3
  <1>6. f \in Bijection(S, B)
    <2>1. f \in Surjection(S, B)
      BY DEF Surjection
    <2>2. \A x, y \in S : f[x] = f[y] => x = y
      <3> SUFFICES ASSUME NEW x \in S, NEW y \in S, x \cup {n + 1} = y \cup {n + 1}
                   PROVE  x = y
        OBVIOUS
      <3>1. n + 1 \notin x /\ n + 1 \notin y
        BY <1>3
      <3> QED
        BY <3>1
    <2> QED
      BY <2>1, <2>2 DEF Bijection, Injection, Surjection, IsInjective
  <1>7. IsFiniteSet(B) /\ Cardinality(B) = Cardinality(S)
    <2> HIDE DEF f, B, S
    <2>1. ExistsBijection(S, B)
      BY <1>6 DEF ExistsBijection
    <2> QED
      BY <1>1, <2>1, FS_Bijection
  <1>8. Cardinality(S \cup B) = Cardinality(S) + Cardinality(B) - Cardinality(S \cap B)
    <2> HIDE DEF f, B, S
    <2> QED
      BY <1>1, <1>7, FS_Union
  <1>9. Cardinality(S \cap B) = 0
    BY <1>5, FS_EmptySet
  <1> HIDE DEF f, B, S
  <1>10. Two(n + 1) = Cardinality(S) + Cardinality(S)
    <2>1. Cardinality(S) \in Nat
      BY <1>1, FS_CardinalityType
    <2>2. Cardinality(S \cup B) = Cardinality(S) + Cardinality(S)
      BY <1>7, <1>8, <1>9, <2>1
    <2> QED
      BY <1>2, <1>4, <2>2, Zenon
  <1> QED
    BY <1>1, <1>10

(* The empty set has one. *)
LEMMA PowZero == Two(0) = 1
  BY DEF Two

(* Powers of two multiply. *)
LEMMA PowSum ==
  ASSUME NEW a \in Nat, NEW b \in Nat
  PROVE  Two(a + b) = Two(a) * Two(b)
  <1> DEFINE T == {n \in Nat : Two(a + n) = Two(a) * Two(n)}
  <1>1. 0 \in T
    BY PowZero, PowType
  <1>2. ASSUME NEW n \in T
        PROVE  n + 1 \in T
    <2>1. n \in Nat /\ Two(a + n) = Two(a) * Two(n)
      BY <1>2
    <2>2. Two(a + (n + 1)) = 2 * Two(a + n) /\ Two(n + 1) = 2 * Two(n)
      <3>1. a + n \in Nat /\ a + (n + 1) = (a + n) + 1
        BY <2>1
      <3> QED
        BY <2>1, <3>1, PowNext
    <2>3. Two(a) \in Nat /\ Two(n) \in Nat
      BY <2>1, PowType
    <2>4. Two(a + (n + 1)) = Two(a) * Two(n + 1)
      <3> DEFINE x == Two(a)  y == Two(n)
      <3>1. x \in Nat /\ y \in Nat
        BY <2>3
      <3>2. 2 * (x * y) = x * (2 * y)
        <4> HIDE DEF x, y
        <4> QED
          BY <3>1
      <3> QED
        BY <2>1, <2>2, <3>2
    <2> QED
      BY <2>1, <2>4
  <1>3. T = Nat
    <2> HIDE DEF T
    <2> QED
      BY <1>1, <1>2, Induction DEF T
  <1> QED
    BY <1>3

(* They grow with the exponent ... *)
LEMMA PowMonotone ==
  ASSUME NEW a \in Nat, NEW b \in Nat, a <= b
  PROVE  Two(a) <= Two(b)
  <1>1. PICK c \in Nat : b = a + c
    <2>1. b - a \in Nat /\ b = a + (b - a)
      OBVIOUS
    <2> QED
      BY <2>1
  <1>2. Two(b) = Two(a) * Two(c)
    BY <1>1, PowSum
  <1>3. Two(a) \in Nat \ {0} /\ Two(c) \in Nat \ {0}
    BY PowType
  <1> DEFINE x == Two(a)  y == Two(c)
  <1>4. x \in Nat \ {0} /\ y \in Nat \ {0}
    BY <1>3
  <1>5. x <= x * y
    <2> HIDE DEF x, y
    <2> QED
      BY <1>4
  <1> QED
    BY <1>2, <1>5

(* ... and beyond it. *)
LEMMA PowExceeds ==
  ASSUME NEW n \in Nat
  PROVE  n < Two(n)
  <1> DEFINE T == {k \in Nat : k < Two(k)}
  <1>1. 0 \in T
    BY PowZero
  <1>2. ASSUME NEW k \in T
        PROVE  k + 1 \in T
    <2>1. k \in Nat /\ Two(k + 1) = 2 * Two(k) /\ Two(k) \in Nat /\ k < Two(k)
      BY PowNext, PowType
    <2>2. k + 1 < Two(k + 1)
      <3> DEFINE x == Two(k)
      <3> HIDE DEF x
      <3>1. k + 1 < 2 * x
        BY <2>1 DEF x
      <3> QED
        BY <2>1, <3>1 DEF x
    <2> QED
      BY <2>1, <2>2
  <1>3. T = Nat
    <2> HIDE DEF T
    <2> QED
      BY <1>1, <1>2, Induction DEF T
  <1> QED
    BY <1>3

(* At most one power of two is below k with its double above k ... *)
LEMMA LogUnique ==
  ASSUME NEW k \in Nat, NEW a \in Nat, NEW b \in Nat,
         Two(a) <= k, k < Two(a + 1), Two(b) <= k, k < Two(b + 1)
  PROVE  a = b
  <1>1. ASSUME NEW x \in Nat, NEW y \in Nat, x < y, Two(y) <= k, k < Two(x + 1)
        PROVE  FALSE
    <2>1. x + 1 \in Nat /\ x + 1 <= y
      BY <1>1
    <2>2. Two(x + 1) <= Two(y)
      BY <2>1, PowMonotone, Zenon
    <2>3. Two(x + 1) \in Nat /\ Two(y) \in Nat
      BY <2>1, PowType, Zenon
    <2> DEFINE u == Two(x + 1)  v == Two(y)
    <2>4. u <= v /\ v <= k /\ k < u /\ u \in Nat /\ v \in Nat
      BY <1>1, <2>2, <2>3
    <2> QED
      <3> HIDE DEF u, v
      <3> QED
        BY <2>4
  <1>2. ~(a < b) /\ ~(b < a)
    BY <1>1
  <1> QED
    BY <1>2

(* ... and there is one. *)
LEMMA LogExists ==
  ASSUME NEW k \in Nat \ {0}
  PROVE  \E a \in Nat : Two(a) <= k /\ k < Two(a + 1)
  <1> DEFINE T == {a \in Nat : k < Two(a + 1)}
  <1>1. k \in T
    <2>1. k < Two(k) /\ Two(k) <= Two(k + 1)
      BY PowExceeds, PowMonotone
    <2>2. Two(k) \in Nat /\ Two(k + 1) \in Nat
      BY PowType
    <2> QED
      BY <2>1, <2>2
  <1>2. PICK a \in T : \A b \in T : a <= b
    BY <1>1, Least
  <1>3. Two(a) <= k
    <2>1. CASE a = 0
      BY <2>1, PowZero
    <2>2. CASE a # 0
      <3>1. a - 1 \in Nat /\ a - 1 \notin T /\ (a - 1) + 1 = a
        BY <1>2, <2>2
      <3>2. ~(k < Two(a))
        BY <3>1
      <3>3. Two(a) \in Nat
        BY PowType
      <3> QED
        BY <3>2, <3>3
    <2> QED
      BY <2>1, <2>2
  <1> QED
    BY <1>2, <1>3

(* LOG2 is exact on powers of two, the only arguments it gets. *)
LEMMA LogExact ==
  ASSUME NEW n \in Nat
  PROVE  LOG2(2 ^ n) = n
  <1> DEFINE m == Two(n)
             F(g) == g = [k \in 0 .. m |-> IF k > 1 THEN 1 + g[k \div 2] ELSE 0]
             L(k, a) == a \in Nat /\ Two(a) <= k /\ k < Two(a + 1)
             w == [k \in 0 .. m |-> IF k > 1 THEN CHOOSE a : L(k, a) ELSE 0]
             f == CHOOSE g : F(g)
  <1>1. m \in Nat \ {0}
    BY PowType
  <1>2. \A k \in Nat \ {0} : L(k, CHOOSE a : L(k, a))
    BY LogExists
  <1>3. \A k \in Nat : k > 1 => k \div 2 \in 1 .. k /\ k <= 2 * (k \div 2) + 1 /\ 2 * (k \div 2) <= k
    OBVIOUS
  <1>4. ASSUME NEW k \in Nat, k > 1, NEW a, L(k \div 2, a)
        PROVE  L(k, 1 + a)
    <2>1. a \in Nat /\ Two(a + 1) = 2 * Two(a) /\ Two((a + 1) + 1) = 2 * Two(a + 1)
      BY <1>4, PowNext
    <2>2. Two(a) \in Nat /\ Two(a + 1) \in Nat
      BY <1>4, PowType
    <2> DEFINE x == Two(a)  y == Two(a + 1)  h == k \div 2
    <2>3. h \in Nat /\ x <= h /\ h < y /\ y = 2 * x /\ x \in Nat /\ y \in Nat
      BY <1>3, <1>4, <2>1, <2>2
    <2>4. y <= k /\ k < 2 * y
      <3>1. k <= 2 * h + 1 /\ 2 * h <= k
        BY <1>3, <1>4
      <3> HIDE DEF x, y, h
      <3> QED
        BY <2>3, <3>1
    <2>5. 1 + a = a + 1
      BY <2>1
    <2> QED
      BY <2>1, <2>4, <2>5
  <1>5. ASSUME NEW k \in Nat \ {0}, NEW a, L(k, a)
        PROVE  a = CHOOSE b : L(k, b)
    <2> DEFINE c == CHOOSE b : L(k, b)
    <2>1. L(k, c)
      BY <1>2
    <2> HIDE DEF c
    <2>2. a = c
      BY <1>5, <2>1, LogUnique
    <2> QED
      BY <2>2 DEF c
  <1>6. ASSUME NEW k \in 0 .. m, k > 1
        PROVE  w[k] = 1 + w[k \div 2]
    <2> DEFINE h == k \div 2
    <2>0. k \in Nat \ {0} /\ h \in Nat \ {0} /\ h \in 0 .. m
      BY <1>1, <1>3, <1>6
    <2>1. CASE h > 1
      <3> DEFINE c == CHOOSE a : L(h, a)  d == CHOOSE a : L(k, a)
      <3>1. w[k] = d /\ w[h] = c
        BY <1>6, <2>0, <2>1
      <3>2. L(h, c)
        BY <1>2, <2>0
      <3>3. L(k, 1 + c)
        <4> HIDE DEF c, L
        <4> QED
          BY <1>4, <1>6, <2>0, <3>2
      <3>4. 1 + c = d
        <4> HIDE DEF c, L
        <4> QED
          BY <1>5, <2>0, <3>3
      <3> QED
        BY <3>1, <3>4
    <2>2. CASE ~(h > 1)
      <3> DEFINE d == CHOOSE a : L(k, a)
      <3>1. h = 1 /\ w[h] = 0 /\ w[k] = d
        BY <1>6, <2>0, <2>2
      <3>2. L(1, 0)
        BY PowZero, PowNext
      <3>3. L(k, 1 + 0)
        <4> HIDE DEF L
        <4> QED
          BY <1>4, <1>6, <2>0, <3>1, <3>2
      <3>4. 1 + 0 = d
        <4> HIDE DEF L
        <4> QED
          BY <1>5, <2>0, <3>3
      <3> QED
        BY <3>1, <3>4
    <2> QED
      BY <2>1, <2>2
  <1>7. F(w)
    <2>1. \A k \in 0 .. m : ~(k > 1) => w[k] = 0
      OBVIOUS
    <2>3. \A k \in 0 .. m : k > 1 => w[k] = 1 + w[k \div 2]
      <3> HIDE DEF w
      <3> QED
        BY <1>6
    <2>2. w = [k \in 0 .. m |-> w[k]]
      OBVIOUS
    <2> HIDE DEF w
    <2> QED
      BY <2>1, <2>2, <2>3
  <1>8. F(f)
    <2> HIDE DEF F, w
    <2> QED
      BY <1>7
  <1>9. LOG2(m) = f[m]
    BY DEF LOG2
  <1> HIDE DEF f
  <1>10. \A k \in 0 .. m : f[k] = IF k > 1 THEN 1 + f[k \div 2] ELSE 0
    BY <1>8
  <1> DEFINE T == {a \in Nat : a <= n => f[Two(a)] = a}
  <1>11. 0 \in T
    BY <1>1, <1>10, PowZero
  <1>12. ASSUME NEW a \in T
         PROVE  a + 1 \in T
    <2> SUFFICES ASSUME a + 1 <= n
                 PROVE  f[Two(a + 1)] = a + 1
      OBVIOUS
    <2>1. a \in Nat /\ Two(a + 1) = 2 * Two(a) /\ Two(a) \in Nat \ {0}
      BY PowNext, PowType
    <2>2. Two(a + 1) <= Two(n)
      <3>1. a + 1 \in Nat
        BY <2>1
      <3> QED
        BY <3>1, PowMonotone, Zenon
    <2> DEFINE x == Two(a)  y == Two(a + 1)
    <2>3. y = 2 * x /\ y <= m /\ x \in Nat \ {0} /\ f[x] = a
      BY <2>1, <2>2
    <2>4. f[y] = 1 + f[x]
      <3> HIDE DEF x, y, m
      <3>1. y \in 0 .. m /\ y > 1 /\ y \div 2 = x
        BY <1>1, <2>3
      <3> QED
        BY <1>10, <3>1
    <2> QED
      BY <2>1, <2>3, <2>4
  <1>13. T = Nat
    <2> HIDE DEF T
    <2> QED
      BY <1>11, <1>12, Induction DEF T
  <1> QED
    BY <1>9, <1>13 DEF Two

-----------------------------------------------------------------------------
(* The operators of IOPath *)

(* The loop of reset_sgl_fn divides the offset by the length of an iovec. *)
LEMMA SkipExact ==
  ASSUME NEW offset \in Nat
  PROVE  skip(offset) = [iov_pos |-> offset \div PAGE_SIZE, iov_offset |-> offset % PAGE_SIZE]
  <1> DEFINE F(g) == g = [n \in 0 .. offset |-> IF n < PAGE_SIZE THEN 0 ELSE g[n - PAGE_SIZE] + 1]
             w == [n \in 0 .. offset |-> n \div PAGE_SIZE]
             f == CHOOSE g : F(g)
  <1>1. PAGE_SIZE \in Nat \ {0}
    BY IOPathAssumption
  <1>2. ASSUME NEW n \in Nat
        PROVE  /\ n < PAGE_SIZE => n \div PAGE_SIZE = 0
               /\ n >= PAGE_SIZE => n \div PAGE_SIZE = ((n - PAGE_SIZE) \div PAGE_SIZE) + 1
    <2>1. CASE n < PAGE_SIZE
      <3>1. n \in 0 .. PAGE_SIZE - 1 /\ 0 * PAGE_SIZE + n = n
        BY <1>1, <2>1
      <3>2. (0 * PAGE_SIZE + n) \div PAGE_SIZE = 0
        BY <1>1, <3>1, DivModOf
      <3> QED
        BY <1>1, <2>1, <3>1, <3>2
    <2>2. CASE n >= PAGE_SIZE
      <3> DEFINE k == n - PAGE_SIZE
                 q == k \div PAGE_SIZE
                 r == k % PAGE_SIZE
      <3>1. k \in Nat /\ n = k + PAGE_SIZE
        BY <1>1, <2>2
      <3>2. q \in Nat /\ r \in 0 .. PAGE_SIZE - 1 /\ k = q * PAGE_SIZE + r
        <4> HIDE DEF k
        <4> QED
          BY <1>1, <3>1, DivMod
      <3> HIDE DEF k, q, r
      <3>3. n = (q + 1) * PAGE_SIZE + r
        BY <1>1, <3>1, <3>2
      <3>4. n \div PAGE_SIZE = q + 1
        BY <1>1, <3>2, <3>3, DivModOf
      <3> QED
        BY <1>1, <2>2, <3>4 DEF q, k
    <2> QED
      BY <1>1, <2>1, <2>2
  <1>3. F(w)
    <2>1. ASSUME NEW n \in 0 .. offset
          PROVE  w[n] = IF n < PAGE_SIZE THEN 0 ELSE w[n - PAGE_SIZE] + 1
      <3>1. n >= PAGE_SIZE => n - PAGE_SIZE \in 0 .. offset
        BY <1>1
      <3>2. w[n] = n \div PAGE_SIZE
        OBVIOUS
      <3>3. n >= PAGE_SIZE => w[n - PAGE_SIZE] = (n - PAGE_SIZE) \div PAGE_SIZE
        BY <3>1
      <3> HIDE DEF w
      <3>4. CASE n < PAGE_SIZE
        BY <1>2, <3>2, <3>4
      <3>5. CASE n >= PAGE_SIZE
        BY <1>1, <1>2, <3>2, <3>3, <3>5
      <3> QED
        BY <1>1, <3>4, <3>5
    <2>2. w = [n \in 0 .. offset |-> w[n]]
      OBVIOUS
    <2> HIDE DEF w
    <2> QED
      BY <2>1, <2>2
  <1>4. F(f)
    <2> HIDE DEF F, w
    <2> QED
      BY <1>3
  <1>5. skip(offset) = [iov_pos |-> f[offset], iov_offset |-> offset - f[offset] * PAGE_SIZE]
    BY DEF skip
  <1> HIDE DEF f
  <1>6. \A n \in 0 .. offset : f[n] = IF n < PAGE_SIZE THEN 0 ELSE f[n - PAGE_SIZE] + 1
    BY <1>4
  <1> DEFINE T == {n \in Nat : \A k \in 0 .. offset : k <= n => f[k] = k \div PAGE_SIZE}
  <1>7. 0 \in T
    BY <1>1, <1>2, <1>6
  <1>8. ASSUME NEW n \in T
        PROVE  n + 1 \in T
    <2> SUFFICES ASSUME NEW k \in 0 .. offset, k = n + 1
                 PROVE  f[k] = k \div PAGE_SIZE
      OBVIOUS
    <2>1. CASE k < PAGE_SIZE
      BY <1>1, <1>2, <1>6, <2>1
    <2>2. CASE k >= PAGE_SIZE
      <3>1. k - PAGE_SIZE \in 0 .. offset /\ k - PAGE_SIZE <= n
        BY <1>1, <2>2
      <3>2. f[k - PAGE_SIZE] = (k - PAGE_SIZE) \div PAGE_SIZE
        BY <3>1
      <3> QED
        BY <1>1, <1>2, <1>6, <2>2, <3>2
    <2> QED
      BY <1>1, <2>1, <2>2
  <1>9. T = Nat
    <2> HIDE DEF T
    <2> QED
      BY <1>7, <1>8, Induction DEF T
  <1>10. f[offset] = offset \div PAGE_SIZE
    <2>1. offset \in T
      <3> HIDE DEF T
      <3> QED
        BY <1>9
    <2> QED
      BY <2>1
  <1>11. offset - (offset \div PAGE_SIZE) * PAGE_SIZE = offset % PAGE_SIZE
    <2> DEFINE q == offset \div PAGE_SIZE
               r == offset % PAGE_SIZE
    <2>1. q \in Nat /\ r \in 0 .. PAGE_SIZE - 1 /\ offset = q * PAGE_SIZE + r
      BY <1>1, DivMod
    <2> HIDE DEF q, r
    <2>2. q * PAGE_SIZE \in Nat
      BY <1>1, <2>1
    <2>3. offset - q * PAGE_SIZE = r
      BY <2>1, <2>2
    <2> QED
      BY <2>3 DEF q, r
  <1> QED
    BY <1>5, <1>10, <1>11

(* Shifting by LOG2 of a ratio that is a power of two multiplies by the ratio. *)
LEMMA Shift ==
  ASSUME NEW b \in Nat, NEW k \in Nat, NEW size \in Nat \ {0}, size = b * Two(k)
  PROVE  2 ^ LOG2(size \div b) * b = size /\ 2 ^ LOG2(size \div b) \in Nat
  <1>1. Two(k) \in Nat \ {0}
    BY PowType
  <1>2. b # 0
    BY <1>1
  <1>3. size = Two(k) * b + 0 /\ 0 \in 0 .. b - 1
    <2> DEFINE x == Two(k)
    <2>1. x \in Nat
      BY <1>1
    <2> HIDE DEF x
    <2> QED
      BY <1>2, <2>1 DEF x
  <1>4. size \div b = Two(k)
    BY <1>1, <1>2, <1>3, DivModOf
  <1>5. LOG2(size \div b) = k
    BY <1>4, LogExact DEF Two
  <1> QED
    BY <1>1, <1>3, <1>5 DEF Two

(* The two shifts that count sectors multiply to a page and to a cache block. *)
LEMMA Shifts ==
  ASSUME block_size \in BlockSizes
  PROVE  /\ 2 ^ block_per_page_shift \in Nat
         /\ 2 ^ block_per_cblock_shift \in Nat
         /\ 2 ^ block_per_page_shift * block_size = PAGE_SIZE
         /\ 2 ^ block_per_cblock_shift * block_size = CACHE_BLOCK_SIZE
  <1>1. PAGE_SIZE \in Nat \ {0} /\ PagesPerCblock \in Nat \ {0} /\ block_size \in Nat
    BY IOPathAssumption
  <1>2. PICK n \in 0 .. PAGE_SIZE : PAGE_SIZE = block_size * Two(n)
    BY IOPathAssumption DEF Two
  <1>3. PICK m \in 0 .. PagesPerCblock : PagesPerCblock = Two(m)
    BY IOPathAssumption DEF Two
  <1>4. n \in Nat /\ m \in Nat /\ n + m \in Nat
    BY <1>1
  <1>5. CACHE_BLOCK_SIZE = block_size * Two(n + m) /\ CACHE_BLOCK_SIZE \in Nat \ {0}
    <2> DEFINE x == Two(n)  y == Two(m)
    <2>1. x \in Nat /\ y \in Nat /\ Two(n + m) = x * y
      BY <1>4, PowType, PowSum
    <2>2. block_size * (x * y) = (block_size * x) * y
      <3> HIDE DEF x, y
      <3> QED
        BY <1>1, <2>1
    <2>3. CACHE_BLOCK_SIZE = (block_size * x) * y
      BY <1>2, <1>3 DEF CACHE_BLOCK_SIZE
    <2>4. PAGE_SIZE * PagesPerCblock \in Nat \ {0}
      BY <1>1
    <2> QED
      BY <2>1, <2>2, <2>3, <2>4 DEF CACHE_BLOCK_SIZE
  <1>6. 2 ^ block_per_page_shift * block_size = PAGE_SIZE /\ 2 ^ block_per_page_shift \in Nat
    BY <1>1, <1>2, <1>4, Shift DEF block_per_page_shift
  <1>7. 2 ^ block_per_cblock_shift * block_size = CACHE_BLOCK_SIZE /\ 2 ^ block_per_cblock_shift \in Nat
    BY <1>1, <1>4, <1>5, Shift DEF block_per_cblock_shift
  <1> QED
    BY <1>6, <1>7

(* The sizes as positive numbers. *)
LEMMA Sizes ==
  /\ PAGE_SIZE \in Nat \ {0} /\ PagesPerCblock \in Nat \ {0}
  /\ CACHE_BLOCK_NUMBER \in Nat \ {0} /\ CACHE_BLOCK_SIZE \in Nat \ {0}
  /\ CACHE_BLOCK_SIZE = PagesPerCblock * PAGE_SIZE
  <1>1. PAGE_SIZE \in Nat \ {0} /\ PagesPerCblock \in Nat \ {0} /\ CACHE_BLOCK_NUMBER \in Nat \ {0}
    BY IOPathAssumption
  <1>2. PAGE_SIZE * PagesPerCblock \in Nat \ {0} /\ PAGE_SIZE * PagesPerCblock = PagesPerCblock * PAGE_SIZE
    BY <1>1
  <1> QED
    BY <1>1, <1>2 DEF CACHE_BLOCK_SIZE

(* The file offset of a page, computed with wrap-around, is the offset of its
   cache page, computed likewise, plus its place in there: the wrap never falls
   into a cache page, since OFFSET_MOD is a multiple of its size. *)
LEMMA OffsetSplit ==
  ASSUME NEW x \in Nat
  PROVE  (x * PAGE_SIZE) % OFFSET_MOD =
           mg_offset(x) + (x % PagesPerCblock) * PAGE_SIZE
  <1> DEFINE P == PAGE_SIZE
             C == CACHE_BLOCK_SIZE
             M == OFFSET_MOD
             q == x \div PagesPerCblock
             r == x % PagesPerCblock
             t == M \div C
             u == q \div t
             v == q % t
  <1>1. M \in Nat \ {0} /\ M % C = 0
    BY IOPathAssumption
  <1>2. P \in Nat \ {0} /\ C \in Nat \ {0} /\ C = PagesPerCblock * P /\ PagesPerCblock \in Nat \ {0}
    BY Sizes
  <1>3. q \in Nat /\ r \in 0 .. PagesPerCblock - 1 /\ x = q * PagesPerCblock + r
    BY <1>2, DivMod
  <1>4. t \in Nat \ {0} /\ M = t * C
    <2>1. t \in Nat /\ M = t * C + (M % C)
      BY <1>1, <1>2, DivMod
    <2> HIDE DEF t, C, M
    <2> QED
      BY <1>1, <1>2, <2>1
  <1>5. u \in Nat /\ v \in 0 .. t - 1 /\ q = u * t + v
    <2> HIDE DEF t, q
    <2> QED
      BY <1>3, <1>4, DivMod
  <1>6. mg_offset(x) = (q * C) % M
    BY DEF mg_offset
  <1> HIDE DEF P, C, M, q, r, t, u, v
  <1>7. v * C \in Nat /\ v * C + C <= M
    <2>1. v < t
      BY <1>4, <1>5
    <2> QED
      BY <1>2, <1>4, <1>5, <2>1, TimesLess
  <1>8. r * P \in Nat /\ r * P + P <= C
    <2>1. r < PagesPerCblock
      BY <1>2, <1>3
    <2> QED
      BY <1>2, <1>3, <2>1, TimesLess
  <1>9. q * C = u * M + v * C
    <2>1. (u * t + v) * C = u * (t * C) + v * C
      BY <1>2, <1>4, <1>5
    <2> QED
      BY <1>4, <1>5, <2>1
  <1>10. (q * C) % M = v * C
    <2>1. v * C \in 0 .. M - 1
      BY <1>1, <1>2, <1>7
    <2> QED
      BY <1>1, <1>5, <1>9, <2>1, DivModOf
  <1>11. x * P = u * M + (v * C + r * P)
    <2>1. (q * PagesPerCblock + r) * P = q * (PagesPerCblock * P) + r * P
      BY <1>2, <1>3
    <2>2. x * P = q * C + r * P
      BY <1>2, <1>3, <2>1
    <2>3. u * M \in Nat
      BY <1>1, <1>5
    <2> QED
      BY <1>7, <1>8, <1>9, <2>2, <2>3
  <1>12. (x * P) % M = v * C + r * P
    <2>1. v * C + r * P \in 0 .. M - 1
      BY <1>1, <1>2, <1>7, <1>8
    <2> QED
      BY <1>1, <1>5, <1>11, <2>1, DivModOf
  <1> QED
    BY <1>6, <1>10, <1>12 DEF P, C, M, q, r

-----------------------------------------------------------------------------
(* The inductive invariant *)

\* A node of the list.
PioRecord ==
  [page_index : Nat, operation : {"READ", "WRITE", "DISCARD"}, buffer : Nat,
   pio_cnt : 1 .. PagesPerCblock]

\* The list is complete and passed check_pio.
Whole == pio # <<>> /\ Len(pio) = head.pio_cnt /\ check_pio(head)

\* The bytes of the request, and those of them that come before byte n.
Size == head.pio_cnt * PAGE_SIZE

Sent(n) ==
  {m \in {<<Place(i, o), <<i, o>>>> : i \in 0 .. head.pio_cnt - 1, o \in 0 .. PAGE_SIZE - 1} :
     m[2][1] * PAGE_SIZE + m[2][2] < n}

\* The types that need no other part.
StateOK ==
  /\ pc \in {"idle", "build", "device"}
  /\ block_size \in BlockSizes
  /\ cblock \in 0 .. CACHE_BLOCK_NUMBER - 1

\* The list as create_pio and append_pio build it: node i has buffer i - 1.
PioOK ==
  /\ pio \in Seq(PioRecord)
  /\ \A i \in 1 .. Len(pio) : pio[i].buffer = i - 1
  /\ pio # <<>> => Len(pio) <= head.pio_cnt
  /\ pc # "idle" => pio # <<>>

\* Between requests all of the last one has been moved, or nothing.
IdleOK == pc = "idle" /\ moved # {} => Whole /\ moved = Sent(Size)

\* Nothing was moved for a list that is being built.
BuildOK == pc = "build" => moved = {} /\ filed = {}

\* The file I/O of a request and its device I/O exclude each other.
FiledOK ==
  /\ pc = "device" => filed = {}
  /\ filed # {} => Whole
  /\ SamePlaceInFile

\* The bytes moved are the first bytes of the request, and as long as the command
\* needs more, the walk stands at the next one.
DeviceOK ==
  pc = "device" =>
    /\ Whole
    /\ target_block * block_size = Place(0, 0)
    /\ done \in 0 .. Size
    /\ left \in 0 .. Size - done
    /\ req \in [iov_pos : 0 .. Len(pio), iov_offset : 0 .. PAGE_SIZE - 1]
    /\ left > 0 => req.iov_pos * PAGE_SIZE + req.iov_offset = done
    /\ moved = Sent(done)

IInv == StateOK /\ PioOK /\ IdleOK /\ BuildOK /\ FiledOK /\ DeviceOK

(* The first node of a list is a node. *)
LEMMA HeadType ==
  ASSUME PioOK, pio # <<>>
  PROVE  /\ head \in PioRecord /\ Len(pio) \in Nat \ {0} /\ head = pio[1]
         /\ head.page_index \in Nat /\ head.pio_cnt \in 1 .. PagesPerCblock
         /\ head.page_index % PagesPerCblock \in 0 .. PagesPerCblock - 1
  <1>1. head \in PioRecord /\ Len(pio) \in Nat \ {0}
    BY DEF PioOK, head
  <1>2. head.page_index \in Nat /\ head.pio_cnt \in 1 .. PagesPerCblock
    BY <1>1 DEF PioRecord
  <1>3. head.page_index % PagesPerCblock \in 0 .. PagesPerCblock - 1
    BY <1>2, Sizes, DivMod
  <1> QED
    BY <1>1, <1>2, <1>3 DEF head

(* Place as a sum, which is what the provers calculate with. *)
LEMMA PlaceSum ==
  ASSUME PioOK, StateOK, pio # <<>>, NEW i \in Nat, NEW o \in Nat
  PROVE  /\ Place(i, o) = Place(0, 0) + i * PAGE_SIZE + o
         /\ Place(0, 0) = cblock * CACHE_BLOCK_SIZE + (head.page_index % PagesPerCblock) * PAGE_SIZE
         /\ Place(0, 0) \in Nat /\ i * PAGE_SIZE \in Nat
  <1> DEFINE r == head.page_index % PagesPerCblock
             b == cblock * CACHE_BLOCK_SIZE
  <1>1. r \in Nat /\ PAGE_SIZE \in Nat
    BY HeadType, Sizes
  <1>2. b \in Nat
    <2>1. cblock \in Nat /\ CACHE_BLOCK_SIZE \in Nat
      BY Sizes DEF StateOK
    <2> QED
      BY <2>1
  <1>3. Place(i, o) = b + (r + i) * PAGE_SIZE + o /\ Place(0, 0) = b + (r + 0) * PAGE_SIZE + 0
    BY DEF Place
  <1> HIDE DEF r, b
  <1>4. (r + i) * PAGE_SIZE = r * PAGE_SIZE + i * PAGE_SIZE /\ i * PAGE_SIZE \in Nat /\ r * PAGE_SIZE \in Nat
    BY <1>1
  <1>5. r + 0 = r
    BY <1>1
  <1>6. Place(0, 0) = b + r * PAGE_SIZE /\ Place(i, o) = b + (r * PAGE_SIZE + i * PAGE_SIZE) + o
    BY <1>2, <1>3, <1>4, <1>5
  <1> QED
    BY <1>2, <1>4, <1>6 DEF r, b

(* The members of Sent. *)
LEMMA SentMember ==
  ASSUME NEW n, NEW m
  PROVE  m \in Sent(n) <=>
           \E i \in 0 .. head.pio_cnt - 1, o \in 0 .. PAGE_SIZE - 1 :
             m = <<Place(i, o), <<i, o>>>> /\ i * PAGE_SIZE + o < n
  BY DEF Sent

(* All bytes of the request lie before its end. *)
LEMMA SentAll ==
  ASSUME PioOK, pio # <<>>
  PROVE  Sent(Size) =
           {<<Place(i, o), <<i, o>>>> : i \in 0 .. head.pio_cnt - 1, o \in 0 .. PAGE_SIZE - 1}
  <1>1. ASSUME NEW i \in 0 .. head.pio_cnt - 1, NEW o \in 0 .. PAGE_SIZE - 1
        PROVE  i * PAGE_SIZE + o < Size
    <2> DEFINE k == head.pio_cnt
    <2>1. PAGE_SIZE \in Nat \ {0} /\ k \in Nat /\ Size = k * PAGE_SIZE
      BY HeadType, Sizes DEF Size
    <2> HIDE DEF k
    <2>2. i \in Nat /\ i < k
      BY <2>1 DEF k
    <2>3. i * PAGE_SIZE + PAGE_SIZE <= k * PAGE_SIZE /\ i * PAGE_SIZE \in Nat /\ k * PAGE_SIZE \in Nat
      BY <2>1, <2>2, TimesLess
    <2> QED
      BY <2>1, <2>3
  <1> QED
    BY <1>1 DEF Sent

(* The size of a request is a number. *)
LEMMA SizeType ==
  ASSUME PioOK, pio # <<>>
  PROVE  Size \in Nat /\ head.pio_cnt \in Nat \ {0}
  <1> DEFINE k == head.pio_cnt
  <1>1. k \in Nat \ {0} /\ PAGE_SIZE \in Nat
    BY HeadType, Sizes
  <1>2. k * PAGE_SIZE \in Nat
    <2> HIDE DEF k
    <2> QED
      BY <1>1
  <1> QED
    BY <1>1, <1>2 DEF Size

(* A longer prefix has more bytes. *)
LEMMA SentGrows ==
  ASSUME NEW n \in Int, NEW k \in Int, n <= k, PioOK, pio # <<>>
  PROVE  Sent(n) \subseteq Sent(k)
  <1> SUFFICES ASSUME NEW i \in 0 .. head.pio_cnt - 1, NEW o \in 0 .. PAGE_SIZE - 1,
                      i * PAGE_SIZE + o < n
               PROVE  i * PAGE_SIZE + o < k
    BY SentMember
  <1>1. i \in Nat /\ o \in Nat /\ PAGE_SIZE \in Nat
    BY SizeType, Sizes
  <1>2. i * PAGE_SIZE \in Nat
    BY <1>1
  <1> QED
    BY <1>1, <1>2

(* Whatever was moved is of the present request, which passed check_pio. *)
LEMMA MovedIsSent ==
  ASSUME IInv, moved # {}
  PROVE  /\ Whole /\ moved \subseteq Sent(Size)
         /\ pc = "idle" => moved = Sent(Size)
  <1>1. PioOK /\ StateOK
    BY DEF IInv
  <1>2. CASE pc = "idle"
    BY <1>2 DEF IInv, IdleOK
  <1>3. CASE pc = "device"
    <2>1. Whole /\ done \in 0 .. Size /\ moved = Sent(done)
      BY <1>3 DEF IInv, DeviceOK
    <2>2. pio # <<>> /\ Size \in Nat
      BY <1>1, <2>1, SizeType DEF Whole
    <2>3. Sent(done) \subseteq Sent(Size)
      BY <1>1, <2>1, <2>2, SentGrows
    <2> QED
      BY <1>3, <2>1, <2>3
  <1> QED
    BY <1>1, <1>2, <1>3 DEF IInv, StateOK, BuildOK

(* The invariant implies TypeOK: the walk is at an iovec as long as bytes are due. *)
LEMMA InvType ==
  ASSUME IInv
  PROVE  TypeOK
  <1>1. StateOK /\ PioOK
    BY DEF IInv
  <1>2. Len(pio) <= PagesPerCblock
    <2>1. CASE pio = <<>>
      BY <2>1, Sizes
    <2>2. CASE pio # <<>>
      BY <1>1, <2>2, HeadType, Sizes DEF PioOK
    <2> QED
      BY <2>1, <2>2
  <1>3. ASSUME pc = "device"
        PROVE  /\ req.iov_offset \in 0 .. PAGE_SIZE - 1
               /\ req.iov_pos \in 0 .. Len(pio)
               /\ left > 0 => req.iov_pos < Len(pio)
    <2>1. /\ Whole
          /\ done \in 0 .. Size
          /\ left \in 0 .. Size - done
          /\ req \in [iov_pos : 0 .. Len(pio), iov_offset : 0 .. PAGE_SIZE - 1]
          /\ left > 0 => req.iov_pos * PAGE_SIZE + req.iov_offset = done
      BY <1>3 DEF IInv, DeviceOK
    <2>2. Size \in Nat /\ Len(pio) \in Nat \ {0} /\ Len(pio) = head.pio_cnt /\ PAGE_SIZE \in Nat \ {0}
      BY <1>1, <2>1, HeadType, SizeType, Sizes DEF Whole
    <2>3. ASSUME left > 0, ~(req.iov_pos < Len(pio))
          PROVE  FALSE
      <3>1. req.iov_pos = Len(pio)
        BY <2>1, <2>2, <2>3
      <3>2. Size + req.iov_offset = done
        BY <2>1, <2>2, <2>3, <3>1 DEF Size
      <3> QED
        BY <2>1, <2>2, <2>3, <3>2
    <2> QED
      BY <2>1, <2>3
  <1> QED
    BY <1>1, <1>2, <1>3 DEF StateOK, TypeOK

(* The invariant implies EveryByteInPlace. *)
LEMMA InvEveryByte ==
  ASSUME IInv
  PROVE  EveryByteInPlace
  <1> DEFINE all == {<<Place(i, o), <<i, o>>>> : i \in 0 .. head.pio_cnt - 1, o \in 0 .. PAGE_SIZE - 1}
  <1> SUFFICES ASSUME pio # <<>>, moved # {}
               PROVE  moved \subseteq all /\ (pc = "idle" => moved = all)
    BY DEF EveryByteInPlace
  <1>1. Sent(Size) = all
    BY SentAll DEF IInv
  <1> HIDE DEF all
  <1> QED
    BY <1>1, MovedIsSent

\* Page i of a request that passes check_pio, seen from the start of its block.
LEMMA InBlock ==
  ASSUME PioOK, StateOK, Whole, NEW i \in 0 .. head.pio_cnt - 1, NEW o \in 0 .. PAGE_SIZE - 1
  PROVE  \E j \in 0 .. CACHE_BLOCK_SIZE - 1 : Place(i, o) = cblock * CACHE_BLOCK_SIZE + j
  <1> DEFINE r == head.page_index % PagesPerCblock
             k == head.pio_cnt
  <1>1. /\ r \in 0 .. PagesPerCblock - 1 /\ k \in Nat \ {0} /\ PAGE_SIZE \in Nat \ {0}
        /\ PagesPerCblock \in Nat \ {0} /\ CACHE_BLOCK_SIZE = PagesPerCblock * PAGE_SIZE
        /\ CACHE_BLOCK_SIZE \in Nat
    BY HeadType, SizeType, Sizes DEF Whole
  <1>2. PagesPerCblock - r >= k
    BY DEF Whole, check_pio
  <1>3. Place(i, o) = cblock * CACHE_BLOCK_SIZE + (r + i) * PAGE_SIZE + o
    BY DEF Place
  <1>4. i \in 0 .. k - 1
    OBVIOUS
  <1> HIDE DEF r, k
  <1>5. r + i \in Nat /\ r + i < PagesPerCblock
    BY <1>1, <1>2, <1>4
  <1>6. (r + i) * PAGE_SIZE + PAGE_SIZE <= PagesPerCblock * PAGE_SIZE /\ (r + i) * PAGE_SIZE \in Nat
    BY <1>1, <1>5, TimesLess
  <1>7. (r + i) * PAGE_SIZE + o \in 0 .. CACHE_BLOCK_SIZE - 1
    BY <1>1, <1>6
  <1>8. cblock * CACHE_BLOCK_SIZE \in Nat
    <2>1. cblock \in Nat
      BY Sizes DEF StateOK
    <2> QED
      BY <1>1, <2>1
  <1>9. Place(i, o) = cblock * CACHE_BLOCK_SIZE + ((r + i) * PAGE_SIZE + o)
    BY <1>1, <1>3, <1>6, <1>8
  <1> QED
    BY <1>7, <1>9

(* The invariant implies StaysInBlock. *)
LEMMA InvStaysInBlock ==
  ASSUME IInv
  PROVE  StaysInBlock
  <1> SUFFICES ASSUME NEW m \in moved
               PROVE  m[1] \div CACHE_BLOCK_SIZE = cblock
    BY DEF StaysInBlock
  <1>1. PioOK /\ StateOK /\ Whole /\ m \in Sent(Size)
    BY MovedIsSent DEF IInv
  <1>2. PICK i \in 0 .. head.pio_cnt - 1, o \in 0 .. PAGE_SIZE - 1 : m = <<Place(i, o), <<i, o>>>>
    BY <1>1, SentMember
  <1>3. PICK j \in 0 .. CACHE_BLOCK_SIZE - 1 : Place(i, o) = cblock * CACHE_BLOCK_SIZE + j
    BY <1>1, InBlock
  <1>4. cblock \in Nat /\ CACHE_BLOCK_SIZE \in Nat \ {0}
    BY <1>1, Sizes DEF StateOK
  <1>5. (cblock * CACHE_BLOCK_SIZE + j) \div CACHE_BLOCK_SIZE = cblock
    BY <1>4, DivModOf
  <1> QED
    BY <1>2, <1>3, <1>5

(* The invariant implies OverwriteFillsBlock: each byte of the block is some byte
   of some page of the request. *)
LEMMA InvOverwrite ==
  ASSUME IInv
  PROVE  OverwriteFillsBlock
  <1> DEFINE C == CACHE_BLOCK_SIZE
             b == cblock * C
  <1> SUFFICES ASSUME pc = "idle", moved # {}, optimizable(head)
               PROVE  {m[1] : m \in moved} = b .. (cblock + 1) * C - 1
    BY DEF OverwriteFillsBlock
  <1>1. PioOK /\ StateOK /\ Whole /\ pio # <<>> /\ moved = Sent(Size)
    BY MovedIsSent DEF IInv, Whole
  <1>2. head.pio_cnt = PagesPerCblock /\ head.page_index % PagesPerCblock = 0
    BY DEF optimizable, overwritable
  <1>3. /\ PAGE_SIZE \in Nat \ {0} /\ PagesPerCblock \in Nat \ {0} /\ C \in Nat \ {0} /\ cblock \in Nat
        /\ C = PagesPerCblock * PAGE_SIZE
    BY <1>1, Sizes DEF StateOK
  <1>4. b \in Nat /\ (cblock + 1) * C = b + C
    <2> HIDE DEF C
    <2> QED
      BY <1>3
  <1>5. ASSUME NEW m \in moved
        PROVE  m[1] \in b .. (cblock + 1) * C - 1
    <2>1. PICK i \in 0 .. head.pio_cnt - 1, o \in 0 .. PAGE_SIZE - 1 : m = <<Place(i, o), <<i, o>>>>
      BY <1>1, SentMember
    <2>2. PICK j \in 0 .. C - 1 : Place(i, o) = b + j
      BY <1>1, InBlock
    <2> HIDE DEF C, b
    <2> QED
      BY <1>3, <1>4, <2>1, <2>2
  <1>6. ASSUME NEW x \in b .. (cblock + 1) * C - 1
        PROVE  \E m \in moved : m[1] = x
    <2> DEFINE j == x - b
               i == j \div PAGE_SIZE
               o == j % PAGE_SIZE
    <2>1. j \in Nat /\ j < C /\ x = b + j
      <3> HIDE DEF C, b
      <3> QED
        BY <1>3, <1>4
    <2>2. i \in Nat /\ o \in 0 .. PAGE_SIZE - 1 /\ j = i * PAGE_SIZE + o
      <3> HIDE DEF j
      <3> QED
        BY <1>3, <2>1, DivMod
    <2>3. i < PagesPerCblock
      <3> HIDE DEF i, o, j, b, C
      <3>1. ASSUME ~(i < PagesPerCblock)
            PROVE  FALSE
        <4>1. PagesPerCblock * PAGE_SIZE <= i * PAGE_SIZE
          BY <1>3, <2>2, <3>1
        <4>2. i * PAGE_SIZE \in Nat /\ PagesPerCblock * PAGE_SIZE \in Nat
          BY <1>3, <2>2
        <4> QED
          BY <1>3, <2>1, <2>2, <4>1, <4>2
      <3> QED
        BY <3>1
    <2> HIDE DEF i, o, j
    <2>4. i \in 0 .. head.pio_cnt - 1 /\ o \in Nat
      BY <1>2, <1>3, <2>2, <2>3
    <2>5. <<Place(i, o), <<i, o>>>> \in moved
      BY <1>1, <2>2, <2>4, SentAll
    <2>6. Place(i, o) = x
      <3>1. Place(i, o) = Place(0, 0) + i * PAGE_SIZE + o
        BY <1>1, <2>2, <2>4, PlaceSum
      <3>2. Place(0, 0) = b + 0 * PAGE_SIZE
        BY <1>1, <1>2, <2>2, <2>4, PlaceSum
      <3>3. i * PAGE_SIZE \in Nat
        BY <1>3, <2>2
      <3> HIDE DEF b
      <3> QED
        BY <1>3, <1>4, <2>1, <2>2, <2>4, <3>1, <3>2, <3>3
    <2> QED
      BY <2>5, <2>6
  <1> QED
    BY <1>5, <1>6

-----------------------------------------------------------------------------
(* The steps *)

(* The initial states satisfy the invariant ... *)
LEMMA InitInv ==
  ASSUME Init
  PROVE  IInv
  <1>1. 0 \in 0 .. CACHE_BLOCK_NUMBER - 1
    BY Sizes
  <1>2. StateOK
    BY <1>1 DEF Init, StateOK
  <1>3. PioOK
    BY DEF Init, PioOK
  <1>4. IdleOK /\ BuildOK /\ FiledOK /\ DeviceOK
    BY DEF Init, IdleOK, BuildOK, FiledOK, DeviceOK, SamePlaceInFile
  <1> QED
    BY <1>2, <1>3, <1>4 DEF IInv

(* ... and each step keeps it: create_pio, *)
LEMMA CreateInv ==
  ASSUME IInv, NEW x \in PageIndexes, NEW op \in {"READ", "WRITE", "DISCARD"},
         NEW n \in 1 .. PagesPerCblock, create_pio(x, op, n)
  PROVE  IInv'
  <1> DEFINE p == [page_index |-> x, operation |-> op, buffer |-> 0, pio_cnt |-> n]
  <1>1. pio' = <<p>> /\ pc' = "build" /\ moved' = {} /\ filed' = {} /\ UNCHANGED <<block_size, cblock>>
    BY DEF create_pio
  <1>2. p \in PioRecord
    BY IOPathAssumption DEF PioRecord
  <1>3. StateOK'
    BY <1>1 DEF IInv, StateOK
  <1>4. PioOK'
    <2>1. pio' \in Seq(PioRecord) /\ Len(pio') = 1 /\ pio'[1] = p /\ pio' # <<>>
      <3> HIDE DEF p
      <3> QED
        BY <1>1, <1>2
    <2>2. p.buffer = 0 /\ p.pio_cnt = n /\ n >= 1
      BY Sizes
    <2> HIDE DEF p
    <2>3. (\A i \in 1 .. Len(pio) : pio[i].buffer = i - 1)'
      BY <2>1, <2>2
    <2>4. Len(pio') <= head'.pio_cnt
      BY <2>1, <2>2 DEF head
    <2> QED
      BY <2>1, <2>3, <2>4 DEF PioOK
  <1>5. IdleOK' /\ BuildOK' /\ FiledOK' /\ DeviceOK'
    BY <1>1 DEF IdleOK, BuildOK, FiledOK, DeviceOK, SamePlaceInFile
  <1> QED
    BY <1>3, <1>4, <1>5 DEF IInv

(* append_pio, *)
LEMMA AppendInv ==
  ASSUME IInv, append_pio
  PROVE  IInv'
  <1> DEFINE current == Last(pio)
             p == [current EXCEPT !.page_index = @ + 1, !.buffer = Len(pio)]
  <1>1. /\ pc = "build" /\ Len(pio) < head.pio_cnt
        /\ pio' = Append(pio, p)
        /\ UNCHANGED <<pc, block_size, cblock, moved, filed>>
    BY DEF append_pio
  <1>2. PioOK /\ pio # <<>> /\ moved = {} /\ filed = {}
    BY <1>1 DEF IInv, PioOK, BuildOK
  <1>3. p \in PioRecord /\ p.buffer = Len(pio)
    <2>1. current \in PioRecord /\ Len(pio) \in Nat
      BY <1>2 DEF Last, PioOK
    <2> HIDE DEF current
    <2>2. /\ current.page_index \in Nat /\ current.operation \in {"READ", "WRITE", "DISCARD"}
          /\ current.pio_cnt \in 1 .. PagesPerCblock
      BY <2>1 DEF PioRecord
    <2>3. p = [page_index |-> current.page_index + 1, operation |-> current.operation,
               buffer |-> Len(pio), pio_cnt |-> current.pio_cnt]
      <3>1. current = [page_index |-> current.page_index, operation |-> current.operation,
                       buffer |-> current.buffer, pio_cnt |-> current.pio_cnt]
        BY <2>1 DEF PioRecord
      <3> DEFINE d == [current EXCEPT !.page_index = @ + 1]
      <3>2. d = [page_index |-> current.page_index + 1, operation |-> current.operation,
                 buffer |-> current.buffer, pio_cnt |-> current.pio_cnt]
        BY <3>1
      <3>3. [d EXCEPT !.buffer = Len(pio)] =
              [page_index |-> current.page_index + 1, operation |-> current.operation,
               buffer |-> Len(pio), pio_cnt |-> current.pio_cnt]
        <4> HIDE DEF d
        <4> QED
          BY <3>2
      <3> QED
        BY <3>3
    <2>4. current.page_index + 1 \in Nat
      BY <2>2
    <2> HIDE DEF p
    <2> QED
      BY <2>1, <2>2, <2>3, <2>4 DEF PioRecord
  <1> HIDE DEF p
  <1>4. /\ pio' \in Seq(PioRecord) /\ Len(pio') = Len(pio) + 1 /\ pio' # <<>>
        /\ \A i \in 1 .. Len(pio) : pio'[i] = pio[i]
        /\ pio'[Len(pio) + 1] = p
        /\ head' = head /\ Len(pio) \in Nat \ {0}
    BY <1>1, <1>2, <1>3 DEF PioOK, head
  <1>5. PioOK'
    <2>1. ASSUME NEW i \in 1 .. Len(pio')
          PROVE  pio'[i].buffer = i - 1
      <3>1. CASE i \in 1 .. Len(pio)
        BY <1>2, <1>4, <3>1 DEF PioOK
      <3>2. CASE i = Len(pio) + 1
        BY <1>3, <1>4, <3>2
      <3> QED
        BY <1>4, <3>1, <3>2
    <2>2. Len(pio') <= head'.pio_cnt
      BY <1>1, <1>2, <1>4, HeadType
    <2> QED
      BY <1>4, <2>1, <2>2 DEF PioOK
  <1>6. StateOK'
    BY <1>1 DEF IInv, StateOK
  <1>7. IdleOK' /\ BuildOK' /\ FiledOK' /\ DeviceOK'
    BY <1>1, <1>2 DEF IdleOK, BuildOK, FiledOK, DeviceOK, SamePlaceInFile
  <1> QED
    BY <1>5, <1>6, <1>7 DEF IInv

(* a request that is refused or only discards, *)
LEMMA NoTransferInv ==
  ASSUME IInv, NoTransfer
  PROVE  IInv'
  <1>1. pc = "build" /\ pc' = "idle" /\ UNCHANGED <<block_size, pio, cblock, moved, filed>>
    BY DEF NoTransfer, Submitted
  <1>2. moved = {} /\ filed = {}
    BY <1>1 DEF IInv, BuildOK
  <1>3. StateOK'
    BY <1>1 DEF IInv, StateOK
  <1>4. PioOK'
    BY <1>1 DEF IInv, PioOK, head
  <1>5. IdleOK' /\ BuildOK' /\ FiledOK' /\ DeviceOK'
    BY <1>1, <1>2 DEF IdleOK, BuildOK, FiledOK, DeviceOK, SamePlaceInFile
  <1> QED
    BY <1>3, <1>4, <1>5 DEF IInv

(* the start of an I/O on a block, where the shifts matter, *)
LEMMA MapToCacheInv ==
  ASSUME IInv, NEW c \in 0 .. CACHE_BLOCK_NUMBER - 1, map_to_cache(c)
  PROVE  IInv'
  <1> DEFINE r == head.page_index % PagesPerCblock
             y == 2 ^ block_per_cblock_shift
             z == 2 ^ block_per_page_shift
  <1>1. /\ pc = "build" /\ Len(pio) = head.pio_cnt /\ check_pio(head)
        /\ cblock' = c /\ done' = 0 /\ left' = 0 /\ pc' = "device"
        /\ target_block' = c * y + r * z
        /\ req' = [iov_pos |-> 0, iov_offset |-> 0]
        /\ UNCHANGED <<block_size, pio, moved, filed>>
    BY DEF map_to_cache, Submitted
  <1>2. moved = {} /\ filed = {} /\ pio # <<>> /\ PioOK
    BY <1>1 DEF IInv, BuildOK, PioOK
  <1>3. StateOK'
    BY <1>1 DEF IInv, StateOK
  <1>4. PioOK' /\ head' = head
    BY <1>1 DEF IInv, PioOK, head
  <1>5. Whole' /\ Size' = Size
    BY <1>1, <1>2, <1>4 DEF Whole, Size
  <1>6. (target_block * block_size = Place(0, 0))'
    <2>1. /\ y \in Nat /\ z \in Nat /\ block_size \in Nat
          /\ y * block_size = CACHE_BLOCK_SIZE /\ z * block_size = PAGE_SIZE
      BY Shifts, IOPathAssumption DEF IInv, StateOK
    <2>2. r \in Nat /\ c \in Nat
      BY <1>2, HeadType, Sizes
    <2>3. Place(0, 0)' = c * CACHE_BLOCK_SIZE + r * PAGE_SIZE
      <3>1. pio' # <<>>
        BY <1>1, <1>2
      <3> QED
        BY <1>1, <1>2, <1>3, <1>4, <2>2, <3>1, PlaceSum, Sizes DEF Place
    <2> HIDE DEF r, y, z
    <2>4. (c * y + r * z) * block_size = c * (y * block_size) + r * (z * block_size)
      BY <2>1, <2>2
    <2> QED
      BY <1>1, <2>1, <2>3, <2>4
  <1>7. (moved = Sent(done))'
    <2>1. ASSUME NEW i \in 0 .. head.pio_cnt - 1, NEW o \in 0 .. PAGE_SIZE - 1
          PROVE  ~(i * PAGE_SIZE + o < 0)
      <3>1. i \in Nat /\ o \in Nat /\ PAGE_SIZE \in Nat
        BY <1>2, SizeType, Sizes
      <3>2. i * PAGE_SIZE \in Nat
        BY <3>1
      <3> QED
        BY <3>1, <3>2
    <2>2. Sent(done)' = {}
      BY <1>1, <1>4, <2>1 DEF Sent
    <2> QED
      BY <1>1, <1>2, <2>2
  <1>8. DeviceOK'
    <2>1. Size \in Nat /\ Len(pio) \in Nat /\ PAGE_SIZE \in Nat \ {0}
      BY <1>2, SizeType, HeadType, Sizes
    <2>2. (done \in 0 .. Size /\ left \in 0 .. Size - done)'
      BY <1>1, <1>5, <2>1
    <2>3. (req \in [iov_pos : 0 .. Len(pio), iov_offset : 0 .. PAGE_SIZE - 1])'
      BY <1>1, <2>1
    <2>4. ~(left > 0)'
      BY <1>1
    <2> QED
      BY <1>5, <1>6, <1>7, <2>2, <2>3, <2>4 DEF DeviceOK
  <1>9. IdleOK' /\ BuildOK' /\ FiledOK'
    BY <1>1, <1>2 DEF IdleOK, BuildOK, FiledOK, SamePlaceInFile
  <1> QED
    BY <1>3, <1>4, <1>8, <1>9 DEF IInv

(* an I/O on the file, where the wrap of the offset matters, *)
LEMMA MapToOriginInv ==
  ASSUME IInv, map_to_origin
  PROVE  IInv'
  <1>1. /\ pc = "build" /\ Len(pio) = head.pio_cnt /\ check_pio(head) /\ pc' = "idle"
        /\ filed' = {<<origin_offset(head) + i * PAGE_SIZE + o, <<pio[i + 1].buffer, o>>>> :
                       i \in 0 .. head.pio_cnt - 1, o \in 0 .. PAGE_SIZE - 1}
        /\ UNCHANGED <<block_size, pio, cblock, moved>>
    BY DEF map_to_origin, Submitted
  <1>2. moved = {} /\ pio # <<>> /\ PioOK
    BY <1>1 DEF IInv, BuildOK, PioOK
  <1>3. StateOK'
    BY <1>1 DEF IInv, StateOK
  <1>4. PioOK' /\ head' = head
    BY <1>1 DEF IInv, PioOK, head
  <1>5. Whole'
    BY <1>1, <1>2, <1>4 DEF Whole
  <1>6. ASSUME NEW f \in filed'
        PROVE  f[1] = mg_offset(head.page_index)
                 + ((head.page_index % PagesPerCblock) + f[2][1]) * PAGE_SIZE + f[2][2]
    <2> DEFINE r == head.page_index % PagesPerCblock
               g == mg_offset(head.page_index)
    <2>1. PICK i \in 0 .. head.pio_cnt - 1, o \in 0 .. PAGE_SIZE - 1 :
            f = <<origin_offset(head) + i * PAGE_SIZE + o, <<pio[i + 1].buffer, o>>>>
      BY <1>1
    <2>2. i \in Nat /\ i + 1 \in 1 .. Len(pio)
      BY <1>1, <1>2, SizeType
    <2>3. pio[i + 1].buffer = i
      BY <1>2, <2>2 DEF PioOK
    <2>4. head.page_index \in Nat /\ r \in Nat /\ PAGE_SIZE \in Nat \ {0}
      BY <1>2, HeadType, Sizes
    <2>5. origin_offset(head) = g + r * PAGE_SIZE
      BY <2>4, OffsetSplit DEF origin_offset
    <2>6. g \in Nat
      <3> DEFINE q == head.page_index \div PagesPerCblock
                 a == q * CACHE_BLOCK_SIZE
      <3>1. q \in Nat /\ CACHE_BLOCK_SIZE \in Nat
        BY <2>4, Sizes, DivMod
      <3>2. a \in Nat
        <4> HIDE DEF q
        <4> QED
          BY <3>1
      <3>3. OFFSET_MOD \in Nat \ {0} /\ g = a % OFFSET_MOD
        BY IOPathAssumption DEF mg_offset
      <3> HIDE DEF a, g
      <3>4. a % OFFSET_MOD \in 0 .. OFFSET_MOD - 1
        BY <3>2, <3>3, DivMod
      <3> QED
        BY <3>3, <3>4
    <2> HIDE DEF r, g
    <2>7. (r + i) * PAGE_SIZE = r * PAGE_SIZE + i * PAGE_SIZE /\ r * PAGE_SIZE \in Nat /\ i * PAGE_SIZE \in Nat
      BY <2>2, <2>4
    <2>8. f[1] = g + (r + i) * PAGE_SIZE + o
      BY <2>1, <2>4, <2>5, <2>6, <2>7
    <2> QED
      BY <2>1, <2>3, <2>8 DEF r, g
  <1>7. FiledOK'
    <2>1. SamePlaceInFile'
      BY <1>4, <1>6 DEF SamePlaceInFile
    <2> QED
      BY <1>1, <1>5, <2>1 DEF FiledOK
  <1>8. IdleOK' /\ BuildOK' /\ DeviceOK'
    BY <1>1, <1>2 DEF IdleOK, BuildOK, DeviceOK
  <1> QED
    BY <1>3, <1>4, <1>7, <1>8 DEF IInv

(* num_block sectors are as long as the list of pages. *)
LEMMA TotalIsSize ==
  ASSUME PioOK, pio # <<>>, block_size \in BlockSizes
  PROVE  Total = Size
  <1> DEFINE z == 2 ^ block_per_page_shift
             k == head.pio_cnt
  <1>1. z \in Nat /\ z * block_size = PAGE_SIZE /\ block_size \in Nat
    BY Shifts, IOPathAssumption
  <1>2. Total = k * z * block_size /\ Size = k * PAGE_SIZE /\ k \in Nat
    BY SizeType DEF Total, Size
  <1> HIDE DEF z, k
  <1>3. k * z * block_size = k * (z * block_size)
    BY <1>1, <1>2
  <1> QED
    BY <1>1, <1>2, <1>3

(* the start of a command, where the walk must find the byte that is due, *)
LEMMA ResetInv ==
  ASSUME IInv, reset_sgl_fn
  PROVE  IInv'
  <1> DEFINE q == done \div PAGE_SIZE
             o == done % PAGE_SIZE
  <1>1. /\ pc = "device" /\ left = 0 /\ done < Total
        /\ req' = skip(done)
        /\ UNCHANGED <<pc, block_size, pio, cblock, target_block, done, moved, filed>>
    BY DEF reset_sgl_fn
  <1>2. PioOK /\ StateOK /\ pio # <<>>
    BY <1>1 DEF IInv, PioOK
  <1>3. /\ Whole /\ target_block * block_size = Place(0, 0)
        /\ done \in 0 .. Size /\ moved = Sent(done) /\ filed = {}
    BY <1>1 DEF IInv, DeviceOK, FiledOK
  <1>4. /\ Size \in Nat /\ Len(pio) = head.pio_cnt /\ Len(pio) \in Nat \ {0}
        /\ PAGE_SIZE \in Nat \ {0} /\ block_size \in Nat
    BY <1>2, <1>3, SizeType, HeadType, Sizes, IOPathAssumption DEF Whole, StateOK
  <1>5. Total = Size
    BY <1>2, TotalIsSize DEF StateOK
  <1>6. left' \in 0 .. Size - done
    <2>1. PICK n \in 1 .. (Size - done) \div block_size : left' = n * block_size
      BY <1>5 DEF reset_sgl_fn
    <2>2. block_size # 0
      <3>1. PICK j \in 0 .. PAGE_SIZE : PAGE_SIZE = block_size * Two(j)
        BY <1>2, IOPathAssumption DEF StateOK, Two
      <3>2. Two(j) \in Nat
        BY <1>4, <3>1, PowType
      <3> QED
        BY <1>4, <3>1, <3>2
    <2> DEFINE d == Size - done
               m == d \div block_size
    <2>3. d \in Nat
      BY <1>3, <1>4
    <2>4. m \in Nat /\ d % block_size \in Nat /\ d = m * block_size + (d % block_size)
      <3>1. block_size \in Nat \ {0}
        BY <1>4, <2>2
      <3>2. d % block_size \in 0 .. block_size - 1 /\ m \in Nat /\ d = m * block_size + (d % block_size)
        <4> HIDE DEF d
        <4> QED
          BY <2>3, <3>1, DivMod
      <3> QED
        BY <3>1, <3>2
    <2>5. n \in Nat /\ n <= m
      BY <2>4
    <2> HIDE DEF d, m
    <2>6. n * block_size <= m * block_size /\ n * block_size \in Nat /\ m * block_size \in Nat
      BY <1>4, <2>4, <2>5
    <2>7. n * block_size <= d
      BY <2>3, <2>4, <2>6
    <2> QED
      BY <2>1, <2>3, <2>6, <2>7 DEF d
  <1>7. req' = [iov_pos |-> q, iov_offset |-> o]
    <2>1. done \in Nat
      BY <1>3, <1>4
    <2> QED
      BY <1>1, <2>1, SkipExact
  <1>8. q \in Nat /\ o \in 0 .. PAGE_SIZE - 1 /\ done = q * PAGE_SIZE + o
    <2>1. done \in Nat
      BY <1>3, <1>4
    <2> QED
      BY <1>4, <2>1, DivMod
  <1> HIDE DEF q, o
  <1>9. q <= Len(pio)
    <2>1. ASSUME q > Len(pio)
          PROVE  FALSE
      <3>1. Len(pio) * PAGE_SIZE + PAGE_SIZE <= q * PAGE_SIZE
        BY <1>4, <1>8, <2>1, TimesLess
      <3>2. Size = Len(pio) * PAGE_SIZE /\ q * PAGE_SIZE \in Nat
        BY <1>4, <1>8 DEF Size
      <3> QED
        BY <1>3, <1>4, <1>8, <3>1, <3>2
    <2> QED
      BY <1>4, <1>8, <2>1
  <1>10. head' = head /\ Whole' /\ Size' = Size /\ Place(0, 0)' = Place(0, 0) /\ Sent(done)' = Sent(done)
    BY <1>1, <1>3 DEF head, Whole, Size, Place, Sent
  <1>11. DeviceOK'
    <2>1. (req \in [iov_pos : 0 .. Len(pio), iov_offset : 0 .. PAGE_SIZE - 1])'
      BY <1>1, <1>4, <1>7, <1>8, <1>9
    <2>2. (req.iov_pos * PAGE_SIZE + req.iov_offset = done)'
      BY <1>1, <1>7, <1>8
    <2>3. (left \in 0 .. Size - done)' /\ (done \in 0 .. Size)'
      BY <1>1, <1>3, <1>6, <1>10
    <2>4. (target_block * block_size = Place(0, 0))' /\ (moved = Sent(done))'
      BY <1>1, <1>3, <1>10
    <2> QED
      BY <1>10, <2>1, <2>2, <2>3, <2>4 DEF DeviceOK
  <1>12. StateOK' /\ PioOK'
    BY <1>1, <1>2 DEF StateOK, PioOK, head
  <1>13. IdleOK' /\ BuildOK' /\ FiledOK'
    BY <1>1, <1>3 DEF IdleOK, BuildOK, FiledOK, SamePlaceInFile
  <1> QED
    BY <1>11, <1>12, <1>13 DEF IInv

(* a segment, where the bytes taken must be those that are due, *)
LEMMA NextSgeInv ==
  ASSUME IInv, next_sge_fn
  PROVE  IInv'
  <1> DEFINE p == req.iov_pos
             o == req.iov_offset
             length == PAGE_SIZE - o
             taken == IF length < left THEN length ELSE left
  <1>1. /\ pc = "device" /\ left > 0
        /\ moved' = moved \cup
             {<<target_block * block_size + done + j, <<pio[p + 1].buffer, o + j>>>> :
                j \in 0 .. taken - 1}
        /\ done' = done + taken /\ left' = left - taken
        /\ req' = advanced(req, length)
        /\ UNCHANGED <<pc, block_size, pio, cblock, target_block, filed>>
    BY DEF next_sge_fn
  <1>2. PioOK /\ StateOK /\ pio # <<>>
    BY <1>1 DEF IInv, PioOK
  <1>3. /\ Whole /\ target_block * block_size = Place(0, 0)
        /\ done \in 0 .. Size /\ left \in 0 .. Size - done
        /\ req \in [iov_pos : 0 .. Len(pio), iov_offset : 0 .. PAGE_SIZE - 1]
        /\ p * PAGE_SIZE + o = done
        /\ moved = Sent(done) /\ filed = {}
    BY <1>1 DEF IInv, DeviceOK, FiledOK
  <1>4. /\ Size \in Nat /\ Len(pio) = head.pio_cnt /\ Len(pio) \in Nat \ {0}
        /\ PAGE_SIZE \in Nat \ {0}
    BY <1>2, <1>3, SizeType, HeadType, Sizes DEF Whole
  <1>5. p \in 0 .. Len(pio) - 1 /\ o \in 0 .. PAGE_SIZE - 1
    <2>1. TypeOK
      BY InvType
    <2> QED
      BY <1>1, <1>3, <1>4, <2>1 DEF TypeOK
  <1>6. length \in 1 .. PAGE_SIZE /\ taken \in 1 .. left /\ taken <= length /\ o + length = PAGE_SIZE
    <2>1. left \in Nat /\ left > 0 /\ PAGE_SIZE \in Nat
      BY <1>1, <1>3, <1>4
    <2>2. length \in 1 .. PAGE_SIZE /\ o + length = PAGE_SIZE
      <3> HIDE DEF o
      <3> QED
        BY <1>5, <2>1
    <2> HIDE DEF length
    <2> QED
      BY <2>1, <2>2
  <1>7. req' = [iov_pos |-> p + 1, iov_offset |-> 0]
    BY <1>1, <1>6 DEF advanced
  <1>8. pio[p + 1].buffer = p
    <2>1. p + 1 \in 1 .. Len(pio)
      BY <1>4, <1>5
    <2> QED
      BY <1>2, <1>5, <2>1 DEF PioOK
  <1>9. head' = head /\ Whole' /\ Size' = Size /\ Place(0, 0)' = Place(0, 0)
    BY <1>1, <1>3 DEF head, Whole, Size, Place
  <1> DEFINE k == p * PAGE_SIZE
  <1>10. /\ k \in Nat /\ p \in Nat /\ o \in Nat /\ o < PAGE_SIZE /\ PAGE_SIZE \in Nat
         /\ done \in Nat /\ done = k + o
         /\ length \in Nat /\ taken \in Nat /\ taken <= length /\ o + length = PAGE_SIZE
    BY <1>3, <1>4, <1>5, <1>6
  <1>11. \A j \in 0 .. taken - 1 :
           /\ o + j \in 0 .. PAGE_SIZE - 1
           /\ target_block * block_size + done + j = Place(p, o + j)
    <2> SUFFICES ASSUME NEW j \in 0 .. taken - 1
                 PROVE  /\ o + j \in 0 .. PAGE_SIZE - 1
                        /\ target_block * block_size + done + j = Place(p, o + j)
      OBVIOUS
    <2> DEFINE x == o + j
    <2>1. x \in 0 .. PAGE_SIZE - 1 /\ x \in Nat
      <3> HIDE DEF o, length, taken
      <3> QED
        BY <1>10
    <2>2. Place(p, x) = Place(0, 0) + k + x /\ Place(0, 0) \in Nat
      <3> HIDE DEF x, p
      <3> QED
        BY <1>2, <1>10, <2>1, PlaceSum
    <2>3. Place(0, 0) + done + j = Place(0, 0) + k + x
      <3> HIDE DEF o, p, k, length, taken
      <3> QED
        BY <1>10, <2>2
    <2> QED
      BY <1>3, <2>1, <2>2, <2>3
  <1> HIDE DEF p, o, k, length, taken
  <1>12. moved' = moved \cup {<<Place(p, o + j), <<p, o + j>>>> : j \in 0 .. taken - 1}
    BY <1>1, <1>8, <1>11
  <1>13. Sent(done)' = Sent(done + taken)
    BY <1>1, <1>9 DEF Sent, Place
  <1>14. moved' \subseteq Sent(done + taken)
    <2>1. Sent(done) \subseteq Sent(done + taken)
      BY <1>2, <1>3, <1>4, <1>6, SentGrows
    <2>2. ASSUME NEW j \in 0 .. taken - 1
          PROVE  <<Place(p, o + j), <<p, o + j>>>> \in Sent(done + taken)
      <3>1. p \in 0 .. head.pio_cnt - 1 /\ o + j \in 0 .. PAGE_SIZE - 1
        BY <1>4, <1>5, <1>11
      <3>2. k + (o + j) < done + taken
        BY <1>10
      <3> QED
        BY <3>1, <3>2, SentMember DEF k
    <2> QED
      BY <1>3, <1>12, <2>1, <2>2
  <1>15. Sent(done + taken) \subseteq moved'
    <2> SUFFICES ASSUME NEW i \in 0 .. head.pio_cnt - 1, NEW x \in 0 .. PAGE_SIZE - 1,
                        i * PAGE_SIZE + x < done + taken
                 PROVE  <<Place(i, x), <<i, x>>>> \in moved'
      BY SentMember
    <2>1. CASE i * PAGE_SIZE + x < done
      BY <1>3, <1>12, <2>1, SentMember
    <2>2. CASE ~(i * PAGE_SIZE + x < done)
      <3>1. i \in Nat /\ x \in Nat /\ i * PAGE_SIZE \in Nat
        BY <1>4
      <3> DEFINE l == i * PAGE_SIZE
      <3>2. i < p => l + PAGE_SIZE <= k
        BY <1>4, <1>10, <3>1, TimesLess DEF k
      <3>3. p < i => k + PAGE_SIZE <= l
        BY <1>4, <1>10, <3>1, TimesLess DEF k
      <3>4. i = p /\ l = k
        <4>1. l \in Nat /\ l + x < done + taken /\ ~(l + x < done) /\ x < PAGE_SIZE
          BY <1>4, <2>2, <3>1
        <4> HIDE DEF l
        <4>2. ~(i < p) /\ ~(p < i)
          BY <1>10, <3>1, <3>2, <3>3, <4>1
        <4> QED
          BY <1>10, <3>1, <4>2 DEF l, k
      <3>5. x - o \in 0 .. taken - 1 /\ o + (x - o) = x
        <4>1. l \in Nat /\ l + x < done + taken /\ ~(l + x < done)
          BY <2>2, <3>1
        <4> HIDE DEF l
        <4> QED
          BY <1>10, <3>1, <3>4, <4>1
      <3> QED
        BY <1>12, <3>4, <3>5
    <2> QED
      BY <2>1, <2>2
  <1>16. DeviceOK'
    <2>1. (req \in [iov_pos : 0 .. Len(pio), iov_offset : 0 .. PAGE_SIZE - 1])'
      BY <1>1, <1>4, <1>5, <1>7
    <2>2. ASSUME left' > 0
          PROVE  (req.iov_pos * PAGE_SIZE + req.iov_offset = done)'
      <3>1. taken = length
        BY <1>1, <1>3, <1>4, <1>6, <2>2 DEF taken
      <3>2. (p + 1) * PAGE_SIZE = k + PAGE_SIZE
        BY <1>4, <1>10 DEF k
      <3>3. done' = k + PAGE_SIZE
        BY <1>1, <1>10, <3>1
      <3> QED
        BY <1>4, <1>7, <1>10, <3>2, <3>3
    <2>3. (left \in 0 .. Size - done)' /\ (done \in 0 .. Size)'
      BY <1>1, <1>3, <1>4, <1>6, <1>9
    <2>4. (target_block * block_size = Place(0, 0))' /\ (moved = Sent(done))'
      BY <1>1, <1>3, <1>9, <1>13, <1>14, <1>15
    <2> QED
      BY <1>9, <2>1, <2>2, <2>3, <2>4 DEF DeviceOK
  <1>17. StateOK' /\ PioOK'
    BY <1>1, <1>2 DEF StateOK, PioOK, head
  <1>18. IdleOK' /\ BuildOK' /\ FiledOK'
    BY <1>1, <1>3 DEF IdleOK, BuildOK, FiledOK, SamePlaceInFile
  <1> QED
    BY <1>16, <1>17, <1>18 DEF IInv

(* the completion, when all bytes were moved, *)
LEMMA CompleteInv ==
  ASSUME IInv, cb_fn
  PROVE  IInv'
  <1>1. /\ pc = "device" /\ done = Total /\ pc' = "idle"
        /\ UNCHANGED <<block_size, pio, cblock, moved, filed>>
    BY DEF cb_fn
  <1>2. PioOK /\ StateOK /\ Whole /\ moved = Sent(done) /\ filed = {}
    BY <1>1 DEF IInv, DeviceOK, FiledOK
  <1>3. Total = Size
    BY <1>2, TotalIsSize DEF StateOK, Whole
  <1>4. Whole' /\ Sent(Size)' = Sent(Size)
    BY <1>1, <1>2 DEF Whole, Sent, Size, Place, head
  <1>5. StateOK' /\ PioOK'
    BY <1>1, <1>2 DEF StateOK, PioOK, head
  <1>6. IdleOK' /\ BuildOK' /\ FiledOK' /\ DeviceOK'
    BY <1>1, <1>2, <1>3, <1>4 DEF IdleOK, BuildOK, FiledOK, DeviceOK, SamePlaceInFile
  <1> QED
    BY <1>5, <1>6 DEF IInv

(* and a step that changes nothing. *)
LEMMA StutterInv ==
  ASSUME IInv, UNCHANGED vars
  PROVE  IInv'
  <1>1. StateOK' /\ PioOK'
    BY DEF IInv, StateOK, PioOK, vars, head
  <1>2. Whole' = Whole /\ Size' = Size /\ Sent(Size)' = Sent(Size)
    BY DEF vars, Whole, Size, Sent, Place, head
  <1>3. Sent(done)' = Sent(done) /\ Place(0, 0)' = Place(0, 0) /\ SamePlaceInFile' = SamePlaceInFile
    BY DEF vars, Sent, Place, head, SamePlaceInFile
  <1>4. IdleOK' /\ BuildOK' /\ FiledOK'
    BY <1>2, <1>3 DEF IInv, IdleOK, BuildOK, FiledOK, vars
  <1>5. DeviceOK'
    BY <1>2, <1>3 DEF IInv, DeviceOK, vars
  <1> QED
    BY <1>1, <1>4, <1>5 DEF IInv

(* The inductive invariant holds in every reachable state. *)
THEOREM Invariance == Spec => []IInv
  <1>1. Init => IInv
    BY InitInv
  <1>2. IInv /\ [Next]_vars => IInv'
    <2> SUFFICES ASSUME IInv, [Next]_vars
                 PROVE  IInv'
      OBVIOUS
    <2>1. CASE \E x \in PageIndexes, op \in {"READ", "WRITE", "DISCARD"}, n \in 1 .. PagesPerCblock :
                 create_pio(x, op, n)
      BY <2>1, CreateInv
    <2>2. CASE append_pio
      BY <2>2, AppendInv
    <2>3. CASE NoTransfer
      BY <2>3, NoTransferInv
    <2>4. CASE map_to_origin
      BY <2>4, MapToOriginInv
    <2>5. CASE \E c \in 0 .. CACHE_BLOCK_NUMBER - 1 : map_to_cache(c)
      BY <2>5, MapToCacheInv
    <2>6. CASE reset_sgl_fn
      BY <2>6, ResetInv
    <2>7. CASE next_sge_fn
      BY <2>7, NextSgeInv
    <2>8. CASE cb_fn
      BY <2>8, CompleteInv
    <2>9. CASE UNCHANGED vars
      BY <2>9, StutterInv
    <2> QED
      BY <2>1, <2>2, <2>3, <2>4, <2>5, <2>6, <2>7, <2>8, <2>9 DEF Next
  <1> QED
    BY <1>1, <1>2, PTL DEF Spec

(* Every variable keeps its type; the walk over the iovecs stays inside them and
   never reports an empty segment, whatever the cuts of the driver (spdk.c:221-245). *)
THEOREM TypeCorrect == Spec => []TypeOK
  <1>1. IInv => TypeOK
    BY InvType
  <1> QED
    BY <1>1, Invariance, PTL

(* Each byte of the device meets its own byte of the buffers, and a request that
   is complete has moved all of them: for every sector size, and wherever the
   driver cuts the request into commands (spdk.c:221-245, ssd_cache_target.c:18). *)
THEOREM BytesInPlace == Spec => []EveryByteInPlace
  <1>1. IInv => EveryByteInPlace
    BY InvEveryByte
  <1> QED
    BY <1>1, Invariance, PTL

(* A request that passes check_pio touches no byte of another block
   (ssd_cache_target.c:124). *)
THEOREM RequestsStayInBlock == Spec => []StaysInBlock
  <1>1. IInv => StaysInBlock
    BY InvStaysInBlock
  <1> QED
    BY <1>1, Invariance, PTL

(* A request whose block becomes visible without being loaded, because it is
   overwritable, leaves no byte of the block as it was (ssd_cache_target.c:126-131). *)
THEOREM OverwritesFill == Spec => []OverwriteFillsBlock
  <1>1. IInv => OverwriteFillsBlock
    BY InvOverwrite
  <1> QED
    BY <1>1, Invariance, PTL

(* A user that goes to the file and the worker that moves the cache page agree on
   where a page is, also where the offset wraps (ssd_cache_target.c:69-97,
   ssd_cache_mapping.c:483, 513). *)
THEOREM PlacesAgree == Spec => []SamePlaceInFile
  <1>1. IInv => SamePlaceInFile
    BY DEF IInv, FiledOK
  <1> QED
    BY <1>1, Invariance, PTL
=============================================================================
