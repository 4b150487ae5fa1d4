------------------------- MODULE HugeBarrel_proofs -------------------------
(***************************************************************************)
(* Proofs about HugeBarrel, for any number of keys, any sizes of the cache,  *)
(* the ranges and the files, and any number of writes and opens: its types,  *)
(* where its entries lead, and, as long as its ranges are sound, that get     *)
(* finds what the last call made of a key, a close saves every key, and an   *)
(* open with recovery finds every key.  For these the operations are         *)
(* followed by what they do to the entries of each range, wherever these are *)
(* at the time: in the cache, or in barrel1.                                *)
(***************************************************************************)
EXTENDS HugeBarrel, TLAPS, FiniteSetTheorems, NaturalsInduction, WellFoundedInduction

-----------------------------------------------------------------------------
(* Folds.                                                                    *)

LEMMA Least ==
  ASSUME NEW T \in SUBSET Nat, T # {}
  PROVE  \E x \in T : \A y \in T : x <= y
<1> DEFINE R == OpToRel(<, Nat)
<1>1. PICK x \in T : \A y \in T : ~ (<<y, x>> \in R)
  <2>1. IsWellFoundedOn(R, Nat)
    BY NatLessThanWellFounded
  <2> HIDE DEF R
  <2> QED
    BY <2>1, WFMin
<1>2. \A y \in T : ~(y < x)
  BY <1>1 DEF OpToRel
<1> QED
  BY <1>2

LEMMA MaxOf ==
  ASSUME NEW b \in Nat, NEW S \in SUBSET (0 .. b), S # {}
  PROVE  Max(S) \in S /\ \A y \in S : y <= Max(S)
<1> DEFINE U == {u \in Nat : \A y \in S : y <= u}
<1>1. PICK u \in U : \A v \in U : u <= v
  <2>1. b \in U
    OBVIOUS
  <2> QED
    BY <2>1, Least
<1>2. u \in S
  <2> SUFFICES ASSUME u \notin S PROVE FALSE
    OBVIOUS
  <2>0. PICK y \in S : TRUE
    OBVIOUS
  <2>1. u # 0
    BY <1>1, <2>0
  <2>2. u - 1 \in U
    BY <1>1, <2>1
  <2> QED
    BY <1>1, <2>2
<1>3. \E x \in S : \A y \in S : x >= y
  BY <1>1, <1>2
<1> QED
  BY <1>3 DEF Max

LEMMA MinOf ==
  ASSUME NEW S \in SUBSET Nat, S # {}
  PROVE  Min(S) \in S /\ \A y \in S : Min(S) <= y
BY Least DEF Min

\* f folds the members of S with G, the greatest last.
Folds(f, S, base, G) ==
  \A s \in SUBSET S : f[s] = IF s = {} THEN base ELSE G[<<f[s \ {Max(s)}], Max(s)>>]

LEMMA FoldExists ==
  ASSUME NEW b \in Nat, NEW S \in SUBSET (0 .. b), NEW A, NEW base \in A,
         NEW G \in [A \X S -> A]
  PROVE  \E f \in [SUBSET S -> A] : Folds(f, S, base, G)
<1> DEFINE Good(f, m) == \A s \in SUBSET S :
             (\A x \in s : x < m) =>
               f[s] = IF s = {} THEN base ELSE G[<<f[s \ {Max(s)}], Max(s)>>]
           Fail(m) == \A f \in [SUBSET S -> A] : ~Good(f, m)
           Bad == {m \in Nat : Fail(m)}
<1>1. Bad = {}
  <2> SUFFICES ASSUME Bad # {} PROVE FALSE
    OBVIOUS
  <2>1. PICK m \in Bad : \A n \in Bad : m <= n
    BY Least
  <2>2. m # 0
    <3> DEFINE f == [s \in SUBSET S |-> base]
    <3>1. f \in [SUBSET S -> A] /\ Good(f, 0)
      OBVIOUS
    <3> HIDE DEF f, Good
    <3>2. ~Fail(0)
      BY <3>1
    <3> HIDE DEF Fail
    <3> QED
      BY <2>1, <3>2
  <2>3. m \in Nat /\ m - 1 \in Nat /\ m - 1 \notin Bad
    <3> HIDE DEF Fail
    <3>1. m \in Nat /\ m - 1 \in Nat
      BY <2>1, <2>2
    <3> QED
      BY <2>1, <3>1
  <2>4. PICK f \in [SUBSET S -> A] : Good(f, m - 1)
    <3> HIDE DEF Good
    <3> QED
      BY <2>3
  <2> DEFINE k == m - 1
             g == [s \in SUBSET S |->
                     IF k \in s /\ \A x \in s : x < m THEN G[<<f[s \ {k}], k>>] ELSE f[s]]
  <2>5. g \in [SUBSET S -> A]
    <3>1. \A s \in SUBSET S : k \in s => <<f[s \ {k}], k>> \in A \X S
      BY <2>4
    <3> QED
      BY <2>4, <3>1
  <2>6. Good(g, m)
    <3> SUFFICES ASSUME NEW s \in SUBSET S, \A x \in s : x < m
                 PROVE  g[s] = IF s = {} THEN base ELSE G[<<g[s \ {Max(s)}], Max(s)>>]
      OBVIOUS
    <3>1. CASE k \in s
      <4>1. Max(s) = k
        <5>1. Max(s) \in s /\ \A y \in s : y <= Max(s)
          BY <3>1, MaxOf
        <5>2. Max(s) \in 0 .. b
          BY <5>1
        <5>3. Max(s) < m /\ m - 1 <= Max(s)
          BY <3>1, <5>1
        <5> QED
          BY <5>2, <5>3, <2>3
      <4>2. g[s \ {k}] = f[s \ {k}]
        OBVIOUS
      <4> QED
        BY <3>1, <4>1, <4>2
    <3>2. CASE k \notin s
      <4>1. \A x \in s : x < m - 1
        BY <3>2, <2>3
      <4>2. f[s] = IF s = {} THEN base ELSE G[<<f[s \ {Max(s)}], Max(s)>>]
        BY <2>4, <4>1
      <4>3. g[s] = f[s] /\ g[s \ {Max(s)}] = f[s \ {Max(s)}]
        BY <3>2
      <4> QED
        BY <4>2, <4>3
    <3> QED
      BY <3>1, <3>2
  <2> HIDE DEF g, Good
  <2>7. ~Fail(m)
    BY <2>5, <2>6
  <2> HIDE DEF Fail
  <2> QED
    BY <2>1, <2>7
<1>2. PICK f \in [SUBSET S -> A] : Good(f, b + 1)
  <2>1. b + 1 \notin Bad /\ b + 1 \in Nat
    <3> HIDE DEF Bad
    <3> QED
      BY <1>1
  <2> HIDE DEF Good
  <2> QED
    BY <2>1
<1>3. \A s \in SUBSET S : \A x \in s : x < b + 1
  OBVIOUS
<1> QED
  BY <1>2, <1>3 DEF Folds

\* What every step of it preserves holds at its end.
LEMMA FoldHolds ==
  ASSUME NEW b \in Nat, NEW S \in SUBSET (0 .. b), NEW f, NEW A,
         f[{}] \in A[{}],
         \A s \in SUBSET S :
           s # {} /\ f[s \ {Max(s)}] \in A[s \ {Max(s)}] => f[s] \in A[s]
  PROVE  f[S] \in A[S]
<1> DEFINE Bad == {m \in Nat : \E s \in SUBSET S : (\A x \in s : x < m) /\ f[s] \notin A[s]}
<1>1. Bad = {}
  <2> SUFFICES ASSUME Bad # {} PROVE FALSE
    OBVIOUS
  <2>1. PICK m \in Bad : \A n \in Bad : m <= n
    BY Least
  <2>2. PICK s \in SUBSET S : (\A x \in s : x < m) /\ f[s] \notin A[s]
    BY <2>1
  <2>3. s # {}
    BY <2>2
  <2>4. Max(s) \in s /\ \A y \in s : y <= Max(s)
    BY <2>3, MaxOf
  <2>5. Max(s) \in Nat /\ Max(s) < m /\ \A x \in s \ {Max(s)} : x < Max(s)
    <3>1. Max(s) \in Nat /\ Max(s) < m
      <4>1. Max(s) \in 0 .. b
        BY <2>2, <2>4
      <4> QED
        BY <4>1, <2>2, <2>4
    <3> HIDE DEF Bad
    <3>2. \A x \in s \ {Max(s)} : x \in Nat /\ x <= Max(s) /\ x # Max(s)
      BY <2>2, <2>4
    <3> QED
      BY <3>1, <3>2
  <2>6. f[s \ {Max(s)}] \in A[s \ {Max(s)}]
    BY <2>1, <2>5
  <2> QED
    BY <2>2, <2>3, <2>6
<1>2. b + 1 \in Nat /\ \A x \in S : x < b + 1
  OBVIOUS
<1> QED
  BY <1>1, <1>2

\* The sequences of the members of s in order.
Sorted(s) ==
  {q \in Seq(s) : /\ \A i, j \in 1 .. Len(q) : i < j => q[i] < q[j]
                  /\ \A x \in s : \E i \in 1 .. Len(q) : q[i] = x}

LEMMA AscendingSorts ==
  ASSUME NEW b \in Nat, NEW S \in SUBSET (0 .. b)
  PROVE  Ascending(S) \in Sorted(S)
<1> DEFINE IsFold(f) == f = [s \in SUBSET S |-> IF s = {} THEN <<>>
                                                ELSE Append(f[s \ {Max(s)}], Max(s))]
           A == [s \in SUBSET S |-> Sorted(s)]
<1>1. \E f : IsFold(f)
  <2> DEFINE G == [p \in Seq(S) \X S |-> Append(p[1], p[2])]
  <2>1. G \in [Seq(S) \X S -> Seq(S)] /\ <<>> \in Seq(S)
    OBVIOUS
  <2> HIDE DEF G, A, IsFold
  <2>2. PICK f \in [SUBSET S -> Seq(S)] : Folds(f, S, <<>>, G)
    BY <2>1, FoldExists
  <2>3. ASSUME NEW s \in SUBSET S, s # {}
        PROVE  G[<<f[s \ {Max(s)}], Max(s)>>] = Append(f[s \ {Max(s)}], Max(s))
    <3>1. Max(s) \in S
      BY <2>3, MaxOf
    <3>2. <<f[s \ {Max(s)}], Max(s)>> \in Seq(S) \X S
      BY <3>1
    <3> QED
      BY <3>2 DEF G
  <2> QED
    BY <2>2, <2>3 DEF IsFold, Folds
<1>2. PICK f : IsFold(f) /\ Ascending(S) = f[S]
  BY <1>1 DEF Ascending, MapThenFoldSet
<1>3. f[{}] \in A[{}]
  BY <1>2 DEF Sorted
<1>4. ASSUME NEW s \in SUBSET S, s # {}, f[s \ {Max(s)}] \in A[s \ {Max(s)}]
      PROVE  f[s] \in A[s]
  <2> DEFINE m == Max(s)
             q == f[s \ {m}]
  <2>1. m \in s /\ \A y \in s : y <= m
    BY <1>4, MaxOf
  <2>2. q \in Sorted(s \ {m})
    BY <1>4
  <2>3. f[s] = Append(q, m)
    BY <1>2, <1>4
  <2> HIDE DEF m, q
  <2>4. q \in Seq(s) /\ Append(q, m) \in Seq(s) /\ Len(Append(q, m)) = Len(q) + 1
        /\ Len(q) \in Nat
    BY <2>1, <2>2 DEF Sorted
  <2>5. \A i \in 1 .. Len(q) : q[i] \in s /\ q[i] # m /\ Append(q, m)[i] = q[i]
    BY <2>2, <2>4 DEF Sorted
  <2>6. Append(q, m)[Len(q) + 1] = m
    BY <2>4
  <2>7. ASSUME NEW i \in 1 .. Len(q) + 1, NEW j \in 1 .. Len(q) + 1, i < j
        PROVE  Append(q, m)[i] < Append(q, m)[j]
    <3>1. i \in 1 .. Len(q)
      BY <2>4, <2>7
    <3>2. CASE j = Len(q) + 1
      <4>1. q[i] \in 0 .. b /\ m \in 0 .. b /\ q[i] <= m /\ q[i] # m
        BY <2>1, <2>5, <3>1
      <4> QED
        BY <2>5, <2>6, <3>1, <3>2, <4>1
    <3>3. CASE j \in 1 .. Len(q)
      BY <2>2, <2>5, <2>7, <3>1, <3>3 DEF Sorted
    <3> QED
      BY <2>4, <3>2, <3>3
  <2>8. ASSUME NEW x \in s
        PROVE  \E i \in 1 .. Len(q) + 1 : Append(q, m)[i] = x
    <3>1. CASE x = m
      BY <2>4, <2>6, <3>1
    <3>2. CASE x # m
      <4>1. PICK i \in 1 .. Len(q) : q[i] = x
        BY <2>2, <3>2 DEF Sorted
      <4> QED
        BY <2>4, <2>5, <4>1
    <3> QED
      BY <3>1, <3>2
  <2> QED
    BY <2>3, <2>4, <2>7, <2>8 DEF Sorted
<1> HIDE DEF A
<1>5. f[S] \in A[S]
  BY <1>3, <1>4, FoldHolds
<1> QED
  BY <1>2, <1>5 DEF A

\* p leads from the places of a to their origins I in s, in order.
Origins(p, a, s, I) ==
  /\ p \in [1 .. Len(a) -> I]
  /\ \A i, j \in 1 .. Len(a) : i < j => p[i] < p[j]
  /\ \A i \in 1 .. Len(a) : a[i] = s[p[i]]
  /\ \A x \in I : \E i \in 1 .. Len(a) : p[i] = x

LEMMA AtSelects ==
  ASSUME NEW R, NEW s \in Seq(R), NEW I \in SUBSET (1 .. Len(s))
  PROVE  /\ At(s, I) \in Seq(R)
         /\ Len(At(s, I)) <= Len(s)
         /\ I # 1 .. Len(s) => Len(At(s, I)) < Len(s)
         /\ \E p : Origins(p, At(s, I), s, I)
<1> DEFINE q == Ascending(I)
<1>0. Len(s) \in Nat /\ I \in SUBSET (0 .. Len(s))
  OBVIOUS
<1>1. q \in Sorted(I)
  BY <1>0, AscendingSorts
<1>2. At(s, I) = [j \in DOMAIN q |-> s[q[j]]]
  BY DEF At
<1> HIDE DEF q
<1>3. /\ Len(q) \in Nat /\ DOMAIN q = 1 .. Len(q) /\ q \in [1 .. Len(q) -> I]
      /\ \A i \in 1 .. Len(q) : q[i] \in 1 .. Len(s) /\ s[q[i]] \in R
  <2>1. q \in Seq(I)
    BY <1>1 DEF Sorted
  <2>2. Len(q) \in Nat /\ DOMAIN q = 1 .. Len(q) /\ q \in [1 .. Len(q) -> I]
    BY <2>1
  <2>3. \A i \in 1 .. Len(q) : q[i] \in 1 .. Len(s)
    BY <2>2
  <2> QED
    BY <2>2, <2>3
<1>4. At(s, I) \in Seq(R) /\ Len(At(s, I)) = Len(q)
  BY <1>2, <1>3
<1>5. Len(q) <= Cardinality(I) /\ Cardinality(I) \in Nat
  <2>1. q \in Injection(1 .. Len(q), I)
    BY <1>1, <1>3 DEF Sorted, Injection, IsInjective
  <2>2. IsFiniteSet(1 .. Len(s)) /\ IsFiniteSet(I)
    <3>1. IsFiniteSet(1 .. Len(s))
      BY <1>0, FS_Interval
    <3> QED
      BY <3>1, FS_Subset
  <2>3. Cardinality(1 .. Len(q)) = Len(q)
    <3>1. \A n \in Nat : Cardinality(1 .. n) = n
      BY FS_Interval
    <3> QED
      BY <1>3, <3>1
  <2> QED
    BY <2>1, <2>2, <2>3, FS_Injection, FS_CardinalityType
<1>6. Cardinality(I) <= Len(s) /\ (I # 1 .. Len(s) => Cardinality(I) < Len(s))
  <2>1. IsFiniteSet(1 .. Len(s)) /\ Cardinality(1 .. Len(s)) = Len(s)
    <3>1. 1 \in Int /\ Len(s) \in Int
      BY <1>0
    <3> QED
      BY <1>0, <3>1, FS_Interval
  <2>2. Cardinality(I) <= Len(s) /\ (Len(s) = Cardinality(I) => 1 .. Len(s) = I)
    BY <2>1, FS_Subset
  <2> QED
    BY <1>0, <1>5, <2>1, <2>2
<1>7. \A i \in 1 .. Len(q) : At(s, I)[i] = s[q[i]]
  BY <1>2, <1>3
<1>8. /\ \A i, j \in 1 .. Len(q) : i < j => q[i] < q[j]
      /\ \A x \in I : \E i \in 1 .. Len(q) : q[i] = x
  BY <1>1 DEF Sorted
<1>9. Len(q) <= Len(s) /\ (I # 1 .. Len(s) => Len(q) < Len(s))
  BY <1>0, <1>3, <1>5, <1>6
<1> DEFINE n == Len(At(s, I))
<1>10. /\ q \in [1 .. n -> I]
       /\ \A i, j \in 1 .. n : i < j => q[i] < q[j]
       /\ \A i \in 1 .. n : At(s, I)[i] = s[q[i]]
       /\ \A x \in I : \E i \in 1 .. n : q[i] = x
  BY <1>3, <1>4, <1>7, <1>8
<1>11. At(s, I) \in Seq(R) /\ n <= Len(s) /\ (I # 1 .. Len(s) => n < Len(s))
  BY <1>4, <1>9
<1> QED
  BY <1>10, <1>11 DEF Origins

-----------------------------------------------------------------------------
(* What the parts of a HugeBarrel are.                                       *)

RangeRec  == [min : Nat, max : Nat, name : Nat]
Ranges == {q \in Seq(RangeRec) : \A i, j \in 1 .. Len(q) : i <= j => q[i].min <= q[j].min}

LEMMA Halfway ==
  ASSUME NEW lo \in Nat, NEW hi \in Nat, lo <= hi
  PROVE  (lo + hi) \div 2 \in lo .. hi
OBVIOUS

\* The search of findRangeForKey, from every pair of ends.
Searches(f, ranges, k, n) ==
  f = [e \in (1 .. n + 1) \X (0 .. n) |->
         IF e[1] > e[2] THEN 0
         ELSE IF Covers(ranges[(e[1] + e[2]) \div 2], k) THEN ranges[(e[1] + e[2]) \div 2].name
         ELSE IF k >= ranges[(e[1] + e[2]) \div 2].min
              THEN f[<<((e[1] + e[2]) \div 2) + 1, e[2]>>]
         ELSE f[<<e[1], ((e[1] + e[2]) \div 2) - 1>>]]

LEMMA SearchExists ==
  ASSUME NEW n \in Nat, NEW ranges, NEW k
  PROVE  \E f : Searches(f, ranges, k, n)
<1> DEFINE D == (1 .. n + 1) \X (0 .. n)
           mid(lo, hi) == (lo + hi) \div 2
           Body(f, lo, hi) ==
             IF lo > hi THEN 0
             ELSE IF Covers(ranges[mid(lo, hi)], k) THEN ranges[mid(lo, hi)].name
             ELSE IF k >= ranges[mid(lo, hi)].min THEN f[<<mid(lo, hi) + 1, hi>>]
             ELSE f[<<lo, mid(lo, hi) - 1>>]
           Good(f, m) == \A lo \in 1 .. n + 1, hi \in 0 .. n :
                           hi + 1 - lo < m => f[<<lo, hi>>] = Body(f, lo, hi)
           Fail(m) == \A f : f = [p \in D |-> f[p]] => ~Good(f, m)
           Bad == {m \in Nat : Fail(m)}
<1>1. Bad = {}
  <2> SUFFICES ASSUME Bad # {} PROVE FALSE
    OBVIOUS
  <2>1. PICK m \in Bad : \A j \in Bad : m <= j
    BY Least
  <2>2. m \in Nat
    <3> HIDE DEF Fail
    <3> QED
      BY <2>1
  <2>3. m # 0
    <3> DEFINE f == [p \in D |-> 0]
    <3>1. \A lo \in 1 .. n + 1, hi \in 0 .. n : hi + 1 - lo < 0 => f[<<lo, hi>>] = Body(f, lo, hi)
      OBVIOUS
    <3>2. f = [p \in D |-> f[p]]
      OBVIOUS
    <3> HIDE DEF f, Body
    <3>3. ~Fail(0)
      BY <3>1, <3>2
    <3> HIDE DEF Fail
    <3> QED
      BY <2>1, <3>3
  <2>4. PICK f : f = [p \in D |-> f[p]] /\ Good(f, m - 1)
    <3> HIDE DEF Good
    <3>1. ~Fail(m - 1)
      <4> HIDE DEF Fail
      <4> QED
        BY <2>1, <2>2, <2>3
    <3> QED
      BY <3>1
  <2> DEFINE g == [p \in D |-> IF p[2] + 1 - p[1] < m - 1 THEN f[p] ELSE Body(f, p[1], p[2])]
  <2>5. ASSUME NEW lo \in 1 .. n + 1, NEW hi \in 0 .. n, hi + 1 - lo < m
        PROVE  g[<<lo, hi>>] = Body(g, lo, hi)
    <3>1. <<lo, hi>> \in D /\ (hi + 1 - lo < m - 1 \/ hi + 1 - lo = m - 1)
      BY <2>2, <2>3, <2>5
    <3>2. g[<<lo, hi>>] = Body(f, lo, hi)
      BY <2>4, <3>1
    <3>3. CASE lo > hi
      BY <3>2, <3>3
    <3>4. CASE lo <= hi
      <4> DEFINE c == mid(lo, hi)
      <4>1. c \in lo .. hi
        BY <3>4, Halfway
      <4> HIDE DEF c
      <4>2. <<c + 1, hi>> \in D /\ <<lo, c - 1>> \in D
        BY <4>1
      <4>3. hi + 1 - (c + 1) < m - 1 /\ (c - 1) + 1 - lo < m - 1
        BY <2>2, <2>5, <4>1
      <4>4. g[<<c + 1, hi>>] = f[<<c + 1, hi>>] /\ g[<<lo, c - 1>>] = f[<<lo, c - 1>>]
        BY <4>2, <4>3
      <4>5. Body(f, lo, hi) = Body(g, lo, hi)
        <5>1. ~(lo > hi)
          BY <3>4
        <5> HIDE DEF g
        <5> QED
          BY <4>4, <5>1, Zenon DEF c
      <4> HIDE DEF Body
      <4> QED
        BY <3>2, <4>5
    <3> QED
      <4>1. lo > hi \/ lo <= hi
        OBVIOUS
      <4> HIDE DEF Body
      <4> QED
        BY <3>3, <3>4, <4>1, Zenon
  <2>6. g = [p \in D |-> g[p]]
    OBVIOUS
  <2> HIDE DEF g, Body
  <2>7. ~Fail(m)
    BY <2>5, <2>6
  <2> HIDE DEF Fail
  <2> QED
    BY <2>1, <2>7
<1>2. PICK f : f = [p \in D |-> f[p]] /\ Good(f, n + 1)
  <2> HIDE DEF Good
  <2>1. ~Fail(n + 1)
    <3> HIDE DEF Fail
    <3> QED
      BY <1>1
  <2> QED
    BY <2>1
<1>3. \A lo \in 1 .. n + 1, hi \in 0 .. n : f[<<lo, hi>>] = Body(f, lo, hi)
  <2> SUFFICES ASSUME NEW lo \in 1 .. n + 1, NEW hi \in 0 .. n
               PROVE  f[<<lo, hi>>] = Body(f, lo, hi)
    OBVIOUS
  <2>1. hi + 1 - lo < n + 1
    OBVIOUS
  <2> HIDE DEF Body
  <2> QED
    BY <1>2, <2>1
<1>4. ASSUME NEW e \in D
      PROVE  f[e] = Body(f, e[1], e[2])
  <2>1. e = <<e[1], e[2]>> /\ e[1] \in 1 .. n + 1 /\ e[2] \in 0 .. n
    OBVIOUS
  <2> HIDE DEF Body
  <2> QED
    BY <1>3, <2>1
<1> QED
  BY <1>2, <1>4 DEF Searches

LEMMA FindRangeSearches ==
  ASSUME NEW ranges \in Seq(RangeRec), NEW k
  PROVE  \E f : Searches(f, ranges, k, Len(ranges)) /\ FindRange(ranges, k) = f[<<1, Len(ranges)>>]
<1>1. \E f : Searches(f, ranges, k, Len(ranges))
  BY SearchExists
<1> QED
  BY <1>1 DEF FindRange, Searches

\* What the search finds is a range that covers the key.
LEMMA FindRangeFinds ==
  ASSUME NEW ranges \in Seq(RangeRec), NEW k
  PROVE  \/ FindRange(ranges, k) = 0
         \/ \E i \in 1 .. Len(ranges) : /\ FindRange(ranges, k) = ranges[i].name
                                        /\ Covers(ranges[i], k)
<1> DEFINE n == Len(ranges)
           Right(x) == x = 0 \/ \E i \in 1 .. n : x = ranges[i].name /\ Covers(ranges[i], k)
<1>1. PICK f : Searches(f, ranges, k, n) /\ FindRange(ranges, k) = f[<<1, n>>]
  BY FindRangeSearches
<1>2. n \in Nat
  OBVIOUS
<1> HIDE DEF n
<1> DEFINE Bad == {m \in Nat : \E lo \in 1 .. n + 1, hi \in 0 .. n : hi + 1 - lo < m /\ ~Right(f[<<lo, hi>>])}
<1>3. Bad = {}
  <2> SUFFICES ASSUME Bad # {} PROVE FALSE
    OBVIOUS
  <2>1. PICK m \in Bad : \A j \in Bad : m <= j
    BY Least
  <2> HIDE DEF Right
  <2>2. PICK lo \in 1 .. n + 1, hi \in 0 .. n : hi + 1 - lo < m /\ ~Right(f[<<lo, hi>>])
    BY <2>1
  <2> DEFINE c == (lo + hi) \div 2
  <2>3. f[<<lo, hi>>] = IF lo > hi THEN 0
                    ELSE IF Covers(ranges[c], k) THEN ranges[c].name
                    ELSE IF k >= ranges[c].min THEN f[<<c + 1, hi>>] ELSE f[<<lo, c - 1>>]
    BY <1>1, <1>2 DEF Searches
  <2>4. lo <= hi
    BY <2>2, <2>3 DEF Right
  <2>5. c \in lo .. hi /\ c \in 1 .. n
    <3>1. lo \in Nat /\ hi \in Nat
      BY <1>2
    <3>2. c \in lo .. hi
      BY <2>4, <3>1, Halfway
    <3> QED
      BY <1>2, <3>2
  <2> HIDE DEF c
  <2>6. f[<<lo, hi>>] = f[<<c + 1, hi>>] \/ f[<<lo, hi>>] = f[<<lo, c - 1>>]
    BY <1>2, <2>2, <2>3, <2>4, <2>5 DEF Right
  <2>7. /\ c + 1 \in 1 .. n + 1 /\ c - 1 \in 0 .. n
        /\ hi + 1 - (c + 1) < m - 1 /\ (c - 1) + 1 - lo < m - 1
    BY <1>2, <2>1, <2>2, <2>5
  <2>8. m \in Nat /\ m - 1 \notin Bad
    <3>1. m \in Nat
      BY <2>1
    <3> HIDE DEF Bad
    <3> QED
      BY <2>1, <3>1
  <2>9. m - 1 \in Nat
    BY <2>2, <2>4, <2>8
  <2> QED
    BY <2>2, <2>6, <2>7, <2>8, <2>9
<1>4. Right(f[<<1, n>>])
  <2> HIDE DEF Right
  <2>1. n + 1 \in Nat /\ n + 1 \notin Bad /\ n \in 0 .. n /\ 1 \in 1 .. n + 1
    <3> HIDE DEF Bad
    <3> QED
      BY <1>2, <1>3
  <2> QED
    BY <1>2, <2>1
<1> QED
  BY <1>1, <1>4 DEF n

Record   == [key : Key, packed : BOOLEAN]
File     == {q \in Seq(Record) : Len(q) <= MaxWrites}
Bounded(N) == \E b \in Nat : N \in SUBSET (0 .. b)
Files    == {f \in UNION {[N -> File] : N \in SUBSET Nat} : Bounded(DOMAIN f)}
EntryRec == [file : Nat, pos : Nat, del : BOOLEAN]
Entries  == UNION {[K -> EntryRec] : K \in SUBSET Key}

\* Every entry is the place of a record of its key.
Points(entries, files) ==
  \A k \in DOMAIN entries :
    /\ entries[k].file \in DOMAIN files
    /\ entries[k].pos \in DOMAIN files[entries[k].file]
    /\ files[entries[k].file][entries[k].pos].key = k

\* RangeKeyDirs on disk and in memory whose entries point into files.
Blobs(files) ==
  [min : Nat, max : Nat, entries : {e \in Entries : Points(e, files)}, file : Nat]
Rkds(files) ==
  {r \in [min : Nat, max : Nat, file : Nat, entries : {e \in Entries : Points(e, files)},
          sorted : SUBSET Key, pending : SUBSET Key, dirty : BOOLEAN, data : BOOLEAN] :
     r.dirty => r.pending # {}}

Splits == {<<>>} \cup (Nat \X Nat \X Nat)

\* Disks with these files, and with one of those sets of files.
Disks(files) ==
  [rkds  : {t \in UNION {[N -> Blobs(files)] : N \in SUBSET Nat} : Bounded(DOMAIN t)},
   meta  : Ranges,
   split : Splits,
   files : {files}]
DisksOf(F) == UNION {Disks(files) : files \in F}

Caches(files) ==
  {c \in Seq([name : Nat, rkd : Rkds(files)]) :
     /\ Len(c) <= RangeCacheSize
     /\ \A i, j \in 1 .. Len(c) : c[i].name = c[j].name => i = j}
Memories(files) ==
  [isOpen : BOOLEAN, ranges : Ranges, cache : Caches(files),
   nextFileId : Nat, assignmentFile : Nat, assigned : Nat]

\* The work areas of an operation that has gone through disks with the files in F.
Work(F, files) ==
  [mem : Memories(files), disk : Disks(files), trace : Seq(DisksOf(F)), clash : BOOLEAN]

-----------------------------------------------------------------------------
(* What the parts of an operation keep.                                      *)

LEMMA BoundedFacts ==
  /\ Bounded({})
  /\ \A N, x : Bounded(N) /\ x \in Nat => Bounded(N \cup {x})
  /\ \A N, M : Bounded(N) /\ M \subseteq N => Bounded(M)
  /\ \A N : Bounded(N) => IsFiniteSet(N) /\ N \subseteq Nat
<1>1. Bounded({}) /\ \A N, M : Bounded(N) /\ M \subseteq N => Bounded(M)
  BY DEF Bounded
<1>2. ASSUME NEW N, NEW x, Bounded(N), x \in Nat
      PROVE  Bounded(N \cup {x})
  <2>1. PICK b \in Nat : N \in SUBSET (0 .. b)
    BY <1>2 DEF Bounded
  <2>2. b + x \in Nat /\ N \cup {x} \in SUBSET (0 .. b + x)
    BY <1>2, <2>1
  <2> QED
    BY <2>2 DEF Bounded
<1>3. ASSUME NEW N, Bounded(N)
      PROVE  IsFiniteSet(N) /\ N \subseteq Nat
  <2>1. PICK b \in Nat : N \in SUBSET (0 .. b)
    BY <1>3 DEF Bounded
  <2>2. N \in SUBSET Nat /\ \A x \in N : x <= b
    BY <2>1
  <2> QED
    BY <2>2, FS_BoundedSetOfNaturals
<1> QED
  BY <1>1, <1>2, <1>3

LEMMA BoundFacts ==
  /\ RangeCacheSize \in Nat /\ RangeCacheSize >= 1
  /\ MaxKey \in Nat /\ MaxWrites \in Nat /\ MaxOpens \in Nat
BY BoundAssumption

LEMMA PutFacts ==
  ASSUME NEW A, NEW D, NEW N \in SUBSET D, NEW f \in [N -> A], NEW x \in D, NEW v \in A
  PROVE  Put(f, x, v) \in [N \cup {x} -> A]
BY DEF Put

LEMMA WriteKeeps ==
  ASSUME NEW F, NEW files \in F, NEW h \in Work(F, files), NEW d \in Disks(files)
  PROVE  Write(h, d) \in Work(F, files)
<1>1. d \in DisksOf(F)
  BY DEF DisksOf
<1>2. Append(h.trace, d) \in Seq(DisksOf(F))
  BY <1>1 DEF Work
<1> QED
  BY <1>2 DEF Work, Write

LEMMA BlobOf ==
  ASSUME NEW files, NEW r \in Rkds(files)
  PROVE  Serialized(r) \in Blobs(files)
BY DEF Rkds, Blobs, Serialized

LEMMA RkdOf ==
  ASSUME NEW files, NEW b \in Blobs(files)
  PROVE  Deserialized(b) \in Rkds(files)
<1>1. DOMAIN b.entries \in SUBSET Key
  BY DEF Blobs, Entries
<1> QED
  BY <1>1 DEF Rkds, Blobs, Deserialized

LEMMA DiskTables ==
  ASSUME NEW files, NEW d \in Disks(files)
  PROVE  /\ d.rkds \in [DOMAIN d.rkds -> Blobs(files)] /\ DOMAIN d.rkds \in SUBSET Nat
         /\ Bounded(DOMAIN d.rkds)
         /\ d.meta \in Ranges /\ d.split \in Splits /\ d.files = files
BY DEF Disks

LEMMA WithRkds ==
  ASSUME NEW files, NEW d \in Disks(files), NEW N \in SUBSET Nat, Bounded(N),
         NEW t \in [N -> Blobs(files)]
  PROVE  [d EXCEPT !.rkds = t] \in Disks(files)
BY DEF Disks

LEMMA PutBlobKeeps ==
  ASSUME NEW F, NEW files \in F, NEW h \in Work(F, files),
         NEW name \in Nat, NEW r \in Rkds(files)
  PROVE  PutBlob(h, name, r) \in Work(F, files)
<1> DEFINE t == Put(h.disk.rkds, name, Serialized(r))
           N == DOMAIN h.disk.rkds
<1>1. h.disk \in Disks(files)
  BY DEF Work
<1>2. N \in SUBSET Nat /\ Bounded(N) /\ h.disk.rkds \in [N -> Blobs(files)]
  BY <1>1, DiskTables
<1> HIDE DEF N
<1>3. t \in [N \cup {name} -> Blobs(files)]
  BY <1>2, BlobOf, PutFacts
<1>4. Bounded(N \cup {name}) /\ N \cup {name} \in SUBSET Nat
  BY <1>2, BoundedFacts
<1> HIDE DEF t
<1>5. [h.disk EXCEPT !.rkds = t] \in Disks(files)
  BY <1>1, <1>3, <1>4, WithRkds
<1> QED
  BY <1>5, WriteKeeps DEF PutBlob, t

LEMMA RemoveBlobKeeps ==
  ASSUME NEW F, NEW files \in F, NEW h \in Work(F, files), NEW name
  PROVE  RemoveBlob(h, name) \in Work(F, files)
<1> DEFINE N == DOMAIN h.disk.rkds \ {name}
           t == [n \in N |-> h.disk.rkds[n]]
<1>1. h.disk \in Disks(files)
  BY DEF Work
<1>2. N \in SUBSET Nat /\ Bounded(N) /\ t \in [N -> Blobs(files)]
  BY <1>1, DiskTables, BoundedFacts
<1> HIDE DEF N
<1>3. [h.disk EXCEPT !.rkds = t] \in Disks(files)
  BY <1>1, <1>2, WithRkds
<1>4. RemoveBlob(h, name) = Write(h, [h.disk EXCEPT !.rkds = t])
  BY DEF RemoveBlob, N
<1> HIDE DEF t
<1> QED
  BY <1>3, <1>4, WriteKeeps

LEMMA MetaKeeps ==
  ASSUME NEW F, NEW files \in F, NEW h \in Work(F, files)
  PROVE  SaveRangeMetadata(h) \in Work(F, files)
<1>1. [h.disk EXCEPT !.meta = h.mem.ranges] \in Disks(files)
  BY DEF Work, Disks, Memories
<1> QED
  BY <1>1, WriteKeeps DEF SaveRangeMetadata

LEMMA SplitKeeps ==
  ASSUME NEW F, NEW files \in F, NEW h \in Work(F, files), NEW s \in Splits
  PROVE  Write(h, [h.disk EXCEPT !.split = s]) \in Work(F, files)
<1>1. [h.disk EXCEPT !.split = s] \in Disks(files)
  BY DEF Work, Disks
<1> QED
  BY <1>1, WriteKeeps

LEMMA FreshKeeps ==
  ASSUME NEW F, NEW files \in F, NEW h \in Work(F, files)
  PROVE  Fresh(h) \in Work(F, files) /\ Fresh(h).mem.nextFileId \in Nat
<1> DEFINE new == h.clash \/ h.mem.nextFileId \in DOMAIN h.disk.rkds
<1>1. new \in BOOLEAN
  OBVIOUS
<1>2. Fresh(h) = [h EXCEPT !.mem = [h.mem EXCEPT !.nextFileId = @ + 1], !.clash = new]
  BY DEF Work, Memories, Fresh
<1> HIDE DEF new
<1>3. [h.mem EXCEPT !.nextFileId = @ + 1] \in Memories(files)
  BY DEF Work, Memories
<1>4. Fresh(h) \in Work(F, files)
  BY <1>1, <1>2, <1>3 DEF Work
<1> QED
  BY <1>4 DEF Work, Memories

LEMMA RangesKeep ==
  ASSUME NEW F, NEW files \in F, NEW h \in Work(F, files), NEW q \in Ranges
  PROVE  [h EXCEPT !.mem.ranges = q] \in Work(F, files)
BY DEF Work, Memories

LEMMA CacheKeeps ==
  ASSUME NEW F, NEW files \in F, NEW h \in Work(F, files), NEW c \in Caches(files)
  PROVE  [h EXCEPT !.mem.cache = c] \in Work(F, files)
BY DEF Work, Memories

LEMMA CacheFacts ==
  ASSUME NEW files, NEW c \in Caches(files)
  PROVE  /\ c \in Seq([name : Nat, rkd : Rkds(files)]) /\ Len(c) \in Nat /\ DOMAIN c = 1 .. Len(c)
         /\ \A i \in 1 .. Len(c) : c[i].name \in Nat /\ c[i].rkd \in Rkds(files)
         /\ Len(c) <= RangeCacheSize
         /\ \A i, j \in 1 .. Len(c) : c[i].name = c[j].name => i = j
<1> DEFINE R == [name : Nat, rkd : Rkds(files)]
<1>1. c \in Seq(R)
  BY DEF Caches
<1> HIDE DEF R
<1>2. \A i \in 1 .. Len(c) : c[i] \in R
  BY <1>1
<1>3. Len(c) \in Nat /\ DOMAIN c = 1 .. Len(c)
  BY <1>1
<1>4. \A i \in 1 .. Len(c) : c[i].name \in Nat /\ c[i].rkd \in Rkds(files)
  BY <1>2 DEF R
<1> QED
  BY <1>1, <1>3, <1>4 DEF Caches, R

\* cacheDel: the name is gone, the rest stays.
LEMMA CacheDelKeeps ==
  ASSUME NEW F, NEW files \in F, NEW h \in Work(F, files), NEW name
  PROVE  /\ CacheDel(h, name) \in Work(F, files)
         /\ ~Cached(CacheDel(h, name), name)
         /\ Cached(h, name) => Len(CacheDel(h, name).mem.cache) < RangeCacheSize
<1> DEFINE c == h.mem.cache
           I == {i \in DOMAIN c : c[i].name # name}
           d == Without(c, name)
           R == [name : Nat, rkd : Rkds(files)]
<1>1. c \in Caches(files)
  BY DEF Work, Memories
<1>2. /\ c \in Seq(R) /\ Len(c) \in Nat /\ DOMAIN c = 1 .. Len(c) /\ Len(c) <= RangeCacheSize
      /\ \A i, j \in 1 .. Len(c) : c[i].name = c[j].name => i = j
  BY <1>1, CacheFacts
<1>3. d = At(c, I) /\ I \in SUBSET (1 .. Len(c)) /\ \A i \in I : c[i].name # name
  BY <1>2 DEF Without
<1>4. CacheDel(h, name) = [h EXCEPT !.mem.cache = d]
  BY DEF CacheDel, Work, Memories
<1>5. Cached(h, name) => I # 1 .. Len(c)
  BY <1>2 DEF Cached
<1> HIDE DEF c, I, d, R
<1>6. /\ d \in Seq(R) /\ Len(d) <= Len(c) /\ (I # 1 .. Len(c) => Len(d) < Len(c))
      /\ \E q : Origins(q, d, c, I)
  BY <1>2, <1>3, AtSelects
<1>7. PICK q \in [1 .. Len(d) -> I] :
           /\ \A i, j \in 1 .. Len(d) : i < j => q[i] < q[j]
           /\ \A i \in 1 .. Len(d) : d[i] = c[q[i]]
  BY <1>6 DEF Origins
<1>8. Len(d) \in Nat /\ DOMAIN d = 1 .. Len(d)
  BY <1>6
<1>9. ASSUME NEW i \in 1 .. Len(d), NEW j \in 1 .. Len(d), d[i].name = d[j].name
      PROVE  i = j
  <2>1. q[i] \in 1 .. Len(c) /\ q[j] \in 1 .. Len(c)
    BY <1>3, <1>7
  <2>2. q[i] = q[j]
    BY <1>2, <1>7, <1>9, <2>1
  <2>3. ~(q[i] < q[j]) /\ ~(q[j] < q[i])
    BY <1>2, <2>1, <2>2
  <2> QED
    BY <1>7, <1>8, <2>3
<1>10. Len(d) <= RangeCacheSize /\ (I # 1 .. Len(c) => Len(d) < RangeCacheSize)
  BY <1>2, <1>6, <1>8, BoundFacts
<1>11. d \in Caches(files)
  BY <1>6, <1>9, <1>10 DEF Caches, R
<1>12. CacheDel(h, name) \in Work(F, files)
  BY <1>4, <1>11, CacheKeeps
<1>13. CacheDel(h, name).mem.cache = d
  BY <1>4 DEF Work, Memories
<1>14. ~Cached(CacheDel(h, name), name)
  BY <1>3, <1>7, <1>8, <1>13 DEF Cached
<1> QED
  BY <1>5, <1>10, <1>12, <1>13, <1>14

LEMMA EvictedKeeps ==
  ASSUME NEW F, NEW files \in F, NEW h \in Work(F, files)
  PROVE  /\ Evicted(h) \in Work(F, files)
         /\ Len(Evicted(h).mem.cache) < RangeCacheSize
         /\ \A name : ~Cached(h, name) => ~Cached(Evicted(h), name)
<1> DEFINE c == h.mem.cache
           g == [h EXCEPT !.mem.cache = Tail(@)]
           old == Head(c)
           R == [name : Nat, rkd : Rkds(files)]
<1>1. c \in Caches(files)
  BY DEF Work, Memories
<1>2. /\ c \in Seq(R) /\ Len(c) \in Nat /\ DOMAIN c = 1 .. Len(c) /\ Len(c) <= RangeCacheSize
      /\ \A i, j \in 1 .. Len(c) : c[i].name = c[j].name => i = j
  BY <1>1, CacheFacts
<1>3. CASE Len(c) < RangeCacheSize
  BY <1>3 DEF Evicted
<1>4. CASE ~(Len(c) < RangeCacheSize)
  <2> HIDE DEF R
  <2>1. c # <<>>
    BY <1>2, <1>4, BoundFacts
  <2>2. /\ Tail(c) \in Seq(R) /\ Len(Tail(c)) = Len(c) - 1 /\ old \in R
        /\ \A i \in 1 .. Len(Tail(c)) : Tail(c)[i] = c[i + 1]
    BY <1>2, <2>1
  <2>3. \A i, j \in 1 .. Len(Tail(c)) : Tail(c)[i].name = Tail(c)[j].name => i = j
    <3> SUFFICES ASSUME NEW i \in 1 .. Len(Tail(c)), NEW j \in 1 .. Len(Tail(c)),
                        Tail(c)[i].name = Tail(c)[j].name
                 PROVE  i = j
      OBVIOUS
    <3>1. i + 1 \in 1 .. Len(c) /\ j + 1 \in 1 .. Len(c)
      BY <1>2, <2>2
    <3>2. c[i + 1].name = c[j + 1].name
      BY <2>2
    <3>3. i + 1 = j + 1
      BY <1>2, <3>1, <3>2
    <3> QED
      BY <1>2, <2>2, <3>3
  <2>4. Len(Tail(c)) < RangeCacheSize /\ Len(Tail(c)) <= RangeCacheSize
    BY <1>2, <2>2, BoundFacts
  <2>5. Tail(c) \in Caches(files)
    BY <2>2, <2>3, <2>4 DEF Caches, R
  <2>6. g = [h EXCEPT !.mem.cache = Tail(c)]
    BY DEF Work, Memories
  <2>7. g \in Work(F, files) /\ g.mem.cache = Tail(c)
    BY <2>5, <2>6, CacheKeeps DEF Work, Memories
  <2>8. \A name : ~Cached(h, name) => ~Cached(g, name)
    <3> SUFFICES ASSUME NEW name, NEW i \in DOMAIN g.mem.cache, g.mem.cache[i].name = name
                 PROVE  \E j \in DOMAIN c : c[j].name = name
      BY DEF Cached
    <3> HIDE DEF g
    <3>1. i \in 1 .. Len(Tail(c)) /\ Tail(c)[i].name = name
      BY <2>2, <2>7
    <3>2. i + 1 \in DOMAIN c /\ c[i + 1].name = name
      BY <1>2, <2>2, <3>1
    <3> QED
      BY <3>2
  <2> HIDE DEF g
  <2>9. Evicted(h) = IF old.rkd.dirty THEN PutBlob(g, old.name, old.rkd) ELSE g
    BY <1>4 DEF Evicted, g
  <2>10. PutBlob(g, old.name, old.rkd) \in Work(F, files)
    BY <2>2, <2>7, PutBlobKeeps DEF R
  <2>11. PutBlob(g, old.name, old.rkd).mem = g.mem
    BY <2>7 DEF PutBlob, Write, Work
  <2> QED
    BY <2>4, <2>7, <2>8, <2>9, <2>10, <2>11 DEF Cached
<1> QED
  BY <1>3, <1>4

LEMMA CachePutKeeps ==
  ASSUME NEW F, NEW files \in F, NEW h \in Work(F, files), NEW name \in Nat, NEW r \in Rkds(files)
  PROVE  CachePut(h, name, r) \in Work(F, files)
<1> DEFINE g == IF Cached(h, name) THEN CacheDel(h, name) ELSE Evicted(h)
           c == g.mem.cache
           e == [name |-> name, rkd |-> r]
           R == [name : Nat, rkd : Rkds(files)]
<1>1. g \in Work(F, files) /\ ~Cached(g, name) /\ Len(c) < RangeCacheSize
  BY CacheDelKeeps, EvictedKeeps
<1>2. CachePut(h, name, r) = [g EXCEPT !.mem.cache = Append(@, e)]
  BY DEF CachePut
<1> HIDE DEF g
<1>3. c \in Caches(files) /\ e \in R
  BY <1>1 DEF Work, Memories
<1>4. /\ c \in Seq(R) /\ Len(c) \in Nat /\ DOMAIN c = 1 .. Len(c)
      /\ \A i, j \in 1 .. Len(c) : c[i].name = c[j].name => i = j
  BY <1>3, CacheFacts
<1>5. \A i \in 1 .. Len(c) : c[i].name # name
  BY <1>1, <1>4 DEF Cached
<1>6. [g EXCEPT !.mem.cache = Append(@, e)] = [g EXCEPT !.mem.cache = Append(c, e)]
  BY <1>1 DEF Work, Memories
<1> HIDE DEF c, R
<1>7. /\ Append(c, e) \in Seq(R) /\ Len(Append(c, e)) = Len(c) + 1
      /\ \A i \in 1 .. Len(c) : Append(c, e)[i] = c[i]
      /\ Append(c, e)[Len(c) + 1] = e
  BY <1>3, <1>4
<1> DEFINE a == Append(c, e)
<1>8. e.name = name
  OBVIOUS
<1> HIDE DEF e, a
<1>9. ASSUME NEW i \in 1 .. Len(c) + 1, NEW j \in 1 .. Len(c) + 1, a[i].name = a[j].name
      PROVE  i = j
  <2>1. (i \in 1 .. Len(c) \/ i = Len(c) + 1) /\ (j \in 1 .. Len(c) \/ j = Len(c) + 1)
    BY <1>4
  <2> QED
    BY <1>4, <1>5, <1>7, <1>8, <1>9, <2>1 DEF a
<1>10. Len(a) <= RangeCacheSize
  BY <1>1, <1>4, <1>7, BoundFacts DEF a, c
<1>11. a \in Caches(files)
  BY <1>7, <1>9, <1>10 DEF Caches, R, a
<1>12. CachePut(h, name, r) = [g EXCEPT !.mem.cache = a]
  BY <1>2, <1>6 DEF a
<1> QED
  BY <1>1, <1>11, <1>12, CacheKeeps

-----------------------------------------------------------------------------
(* RangeKeyDirs and the list of ranges.                                      *)

LEMMA RkdFacts ==
  ASSUME NEW files, NEW r \in Rkds(files)
  PROVE  /\ r.entries \in [DOMAIN r.entries -> EntryRec] /\ DOMAIN r.entries \in SUBSET Key
         /\ r.entries \in Entries /\ Points(r.entries, files)
         /\ r.min \in Nat /\ r.max \in Nat /\ r.file \in Nat
BY DEF Rkds, Entries

LEMMA KeyFacts == Key \in SUBSET Nat /\ \A k \in Key : k # 0
BY BoundFacts DEF Key

LEMMA NewRkdOf ==
  ASSUME NEW files, NEW min \in Nat, NEW max \in Nat, NEW file \in Nat
  PROVE  NewRkd(min, max, file) \in Rkds(files)
<1>1. <<>> \in [{} -> EntryRec] /\ DOMAIN <<>> = {}
  OBVIOUS
<1>2. <<>> \in Entries /\ Points(<<>>, files)
  BY <1>1 DEF Entries, Points
<1> QED
  BY <1>2 DEF NewRkd, Rkds

LEMMA FlushedOf ==
  ASSUME NEW files, NEW r \in Rkds(files)
  PROVE  Flushed(r) \in Rkds(files)
BY DEF Rkds, Flushed

LEMMA CleanOf ==
  ASSUME NEW files, NEW r \in Rkds(files)
  PROVE  [r EXCEPT !.dirty = FALSE] \in Rkds(files)
BY DEF Rkds

LEMMA PutEntry ==
  ASSUME NEW files, NEW e \in Entries, Points(e, files), NEW k \in Key, NEW v \in EntryRec,
         v.file \in DOMAIN files, v.pos \in DOMAIN files[v.file], files[v.file][v.pos].key = k
  PROVE  Put(e, k, v) \in Entries /\ Points(Put(e, k, v), files)
<1>1. e \in [DOMAIN e -> EntryRec] /\ DOMAIN e \in SUBSET Key
  BY DEF Entries
<1>2. Put(e, k, v) \in [DOMAIN e \cup {k} -> EntryRec] /\ DOMAIN e \cup {k} \in SUBSET Key
  BY <1>1, PutFacts
<1> QED
  BY <1>2 DEF Entries, Points, Put

LEMMA InsertedOf ==
  ASSUME NEW files, NEW r \in Rkds(files), NEW k \in Key, NEW v \in EntryRec,
         v.file \in DOMAIN files, v.pos \in DOMAIN files[v.file], files[v.file][v.pos].key = k
  PROVE  Inserted(r, k, v) \in Rkds(files)
<1>1. Put(r.entries, k, v) \in {e \in Entries : Points(e, files)}
  BY PutEntry, RkdFacts
<1>2. k \in Nat
  BY KeyFacts
<1>3. r.pending \cup {k} \in SUBSET Key /\ r.pending \cup {k} # {}
  BY DEF Rkds
<1> QED
  BY <1>1, <1>2, <1>3 DEF Inserted, Rkds

LEMMA LoadedOf ==
  ASSUME NEW F, NEW files \in F, NEW h \in Work(F, files), NEW name
  PROVE  Loaded(h, name) \in Rkds(files)
<1> DEFINE c == h.mem.cache
<1>1. c \in Caches(files) /\ h.disk \in Disks(files)
  BY DEF Work, Memories
<1>2. CASE Cached(h, name)
  <2>1. DOMAIN c = 1 .. Len(c) /\ \A i \in 1 .. Len(c) : c[i].rkd \in Rkds(files)
    BY <1>1, CacheFacts
  <2>2. ToSet(c) = {c[i] : i \in 1 .. Len(c)}
    BY <2>1 DEF ToSet
  <2>3. \E e \in ToSet(c) : e.name = name
    BY <1>2, <2>1, <2>2 DEF Cached
  <2>4. CacheOf(h, name) \in Rkds(files)
    BY <2>1, <2>2, <2>3 DEF CacheOf
  <2> QED
    BY <1>2, <2>4 DEF Loaded
<1>3. CASE ~Cached(h, name) /\ name \in DOMAIN h.disk.rkds
  BY <1>1, <1>3, DiskTables, RkdOf DEF Loaded
<1>4. CASE ~Cached(h, name) /\ name \notin DOMAIN h.disk.rkds
  BY <1>4, NewRkdOf DEF Loaded, NoKey
<1> QED
  BY <1>2, <1>3, <1>4

LEMMA LoadKeeps ==
  ASSUME NEW F, NEW files \in F, NEW h \in Work(F, files), NEW name \in Nat
  PROVE  Load(h, name) \in Work(F, files)
BY LoadedOf, CachePutKeeps DEF Load

LEMMA SaveKeeps ==
  ASSUME NEW F, NEW files \in F, NEW h \in Work(F, files), NEW name \in Nat, NEW r \in Rkds(files)
  PROVE  SaveRangeKeyDir(h, name, r) \in Work(F, files)
BY PutBlobKeeps, CachePutKeeps, CleanOf DEF SaveRangeKeyDir

LEMMA AssignKeeps ==
  ASSUME NEW F, NEW files \in F, NEW h \in Work(F, files)
  PROVE  AssignRangeToFile(h) \in Work(F, files)
<1> DEFINE full == h.mem.assigned >= RangesPerFile
           m == [Fresh(h).mem EXCEPT !.assignmentFile = h.mem.nextFileId]
           g == [Fresh(h) EXCEPT !.clash = h.clash, !.mem.assignmentFile = h.mem.nextFileId]
<1>1. g \in Work(F, files)
  BY FreshKeeps DEF Work, Memories
<1> HIDE DEF g
<1>2. CASE full
  <2>1. AssignRangeToFile(h) = [g EXCEPT !.mem.assigned = 1]
    BY <1>2 DEF AssignRangeToFile, g
  <2>2. g.mem \in Memories(files)
    BY <1>1 DEF Work
  <2>3. [g.mem EXCEPT !.assigned = 1] \in Memories(files)
    BY <2>2 DEF Memories
  <2>4. [g EXCEPT !.mem.assigned = 1] = [g EXCEPT !.mem = [g.mem EXCEPT !.assigned = 1]]
    BY <1>1 DEF Work
  <2> QED
    BY <1>1, <2>1, <2>3, <2>4 DEF Work
<1>3. CASE ~full
  <2>1. AssignRangeToFile(h) = [h EXCEPT !.mem.assigned = @ + 1]
    BY <1>3 DEF AssignRangeToFile
  <2> QED
    BY <2>1 DEF Work, Memories
<1> QED
  BY <1>2, <1>3

\* A selection of a sorted list is one, from among the list.
LEMMA RangesAt ==
  ASSUME NEW q \in Ranges, NEW I \in SUBSET (DOMAIN q)
  PROVE  /\ At(q, I) \in Ranges
         /\ \A j \in 1 .. Len(At(q, I)) : \E i \in I : At(q, I)[j] = q[i]
         /\ \A i \in I : \E j \in 1 .. Len(At(q, I)) : At(q, I)[j] = q[i]
<1> DEFINE a == At(q, I)
<1>1. q \in Seq(RangeRec) /\ DOMAIN q = 1 .. Len(q) /\ I \in SUBSET (1 .. Len(q))
      /\ a = At(q, I)
  BY DEF Ranges
<1> HIDE DEF a
<1>2. a \in Seq(RangeRec) /\ \E p : Origins(p, a, q, I)
  BY <1>1, AtSelects
<1>3. PICK p \in [1 .. Len(a) -> I] :
           /\ \A i, j \in 1 .. Len(a) : i < j => p[i] < p[j]
           /\ \A i \in 1 .. Len(a) : a[i] = q[p[i]]
           /\ \A x \in I : \E i \in 1 .. Len(a) : p[i] = x
  BY <1>2 DEF Origins
<1>4. ASSUME NEW i \in 1 .. Len(a), NEW j \in 1 .. Len(a), i <= j
      PROVE  a[i].min <= a[j].min
  <2>1. p[i] \in 1 .. Len(q) /\ p[j] \in 1 .. Len(q)
    BY <1>1, <1>3
  <2>2. p[i] <= p[j]
    BY <1>2, <1>3, <1>4, <2>1
  <2> QED
    BY <1>3, <2>1, <2>2 DEF Ranges
<1>5. a \in Ranges
  BY <1>2, <1>4 DEF Ranges
<1>6. /\ \A j \in 1 .. Len(a) : \E i \in I : a[j] = q[i]
      /\ \A i \in I : \E j \in 1 .. Len(a) : a[j] = q[i]
  BY <1>3
<1> QED
  BY <1>5, <1>6 DEF a

LEMMA WithRangeSorts ==
  ASSUME NEW q \in Ranges, NEW r \in RangeRec
  PROVE  WithRange(q, r) \in Ranges
<1> DEFINE I == {i \in DOMAIN q : q[i].min <= r.min}
           J == {i \in DOMAIN q : q[i].min > r.min}
           a == At(q, I)
           b == At(q, J)
           w == (a \o <<r>>) \o b
<1>1. WithRange(q, r) = w
  BY DEF WithRange
<1>0. /\ I \in SUBSET (DOMAIN q) /\ \A i \in I : q[i].min <= r.min
      /\ J \in SUBSET (DOMAIN q) /\ \A i \in J : q[i].min > r.min
  OBVIOUS
<1> HIDE DEF I, J
<1>2. /\ a \in Ranges /\ \A j \in 1 .. Len(a) : \E i \in I : a[j] = q[i]
      /\ b \in Ranges /\ \A j \in 1 .. Len(b) : \E i \in J : b[j] = q[i]
  BY <1>0, RangesAt
<1>3. \A j \in 1 .. Len(a) : a[j].min <= r.min
  BY <1>0, <1>2
<1>4. \A j \in 1 .. Len(b) : b[j].min > r.min
  BY <1>0, <1>2
<1> HIDE DEF a, b
<1>5. /\ a \in Seq(RangeRec) /\ b \in Seq(RangeRec) /\ <<r>> \in Seq(RangeRec)
      /\ Len(a) \in Nat /\ Len(b) \in Nat /\ Len(<<r>>) = 1 /\ <<r>>[1] = r
      /\ \A i \in 1 .. Len(a) : a[i].min \in Nat
      /\ \A i \in 1 .. Len(b) : b[i].min \in Nat
      /\ r.min \in Nat
  <2>1. a \in Seq(RangeRec) /\ b \in Seq(RangeRec)
    BY <1>2 DEF Ranges
  <2>2. \A i \in 1 .. Len(a) : a[i] \in RangeRec
    BY <2>1
  <2>3. \A i \in 1 .. Len(b) : b[i] \in RangeRec
    BY <2>1
  <2> QED
    <3>1. \A x \in RangeRec : x.min \in Nat
      BY DEF RangeRec
    <3>2. <<r>> \in Seq(RangeRec) /\ Len(<<r>>) = 1 /\ <<r>>[1] = r
      OBVIOUS
    <3>3. Len(a) \in Nat /\ Len(b) \in Nat
      BY <2>1
    <3> QED
      BY <2>1, <2>2, <2>3, <3>1, <3>2, <3>3
<1>6. /\ w \in Seq(RangeRec) /\ Len(w) = Len(a) + 1 + Len(b)
      /\ \A i \in 1 .. Len(w) : w[i] = IF i <= Len(a) THEN a[i]
                                       ELSE IF i = Len(a) + 1 THEN r ELSE b[i - Len(a) - 1]
  BY <1>5
<1> HIDE DEF w
<1>7. ASSUME NEW i \in 1 .. Len(w), NEW j \in 1 .. Len(w), i <= j
      PROVE  w[i].min <= w[j].min
  <2>1. CASE j <= Len(a)
    <3>1. i \in 1 .. Len(a) /\ j \in 1 .. Len(a)
      BY <1>5, <1>6, <1>7, <2>1
    <3>2. w[i] = a[i] /\ w[j] = a[j]
      BY <1>6, <2>1, <3>1
    <3>3. a[i].min <= a[j].min
      BY <1>2, <1>7, <3>1 DEF Ranges
    <3> QED
      BY <3>2, <3>3
  <2>2. CASE j = Len(a) + 1
    <3>1. i \in 1 .. Len(a) \/ i = Len(a) + 1
      BY <1>5, <1>6, <1>7, <2>2
    <3> QED
      BY <1>3, <1>5, <1>6, <2>2, <3>1
  <2>3. CASE j > Len(a) + 1
    <3> DEFINE y == j - Len(a) - 1
               x == i - Len(a) - 1
    <3>1. y \in 1 .. Len(b) /\ w[j] = b[y]
      BY <1>5, <1>6, <2>3
    <3>2. CASE i <= Len(a)
      <4>1. i \in 1 .. Len(a) /\ w[i] = a[i]
        BY <1>5, <1>6, <3>2
      <4>2. a[i].min <= r.min /\ b[y].min > r.min
        BY <1>3, <1>4, <3>1, <4>1
      <4> QED
        BY <1>5, <3>1, <4>1, <4>2
    <3>3. CASE i = Len(a) + 1
      <4>1. w[i] = r /\ b[y].min > r.min
        BY <1>4, <1>5, <1>6, <3>1, <3>3
      <4> QED
        BY <1>5, <3>1, <4>1
    <3>4. CASE i > Len(a) + 1
      <4>1. x \in 1 .. Len(b) /\ w[i] = b[x] /\ x <= y
        BY <1>5, <1>6, <1>7, <2>3, <3>4
      <4> QED
        BY <1>2, <3>1, <4>1 DEF Ranges
    <3> QED
      BY <1>5, <3>2, <3>3, <3>4
  <2> QED
    BY <1>5, <2>1, <2>2, <2>3
<1> QED
  BY <1>1, <1>6, <1>7 DEF Ranges

LEMMA WithoutSorts ==
  ASSUME NEW q \in Ranges, NEW name
  PROVE  Without(q, name) \in Ranges
BY RangesAt DEF Without

LEMMA BoundsOf ==
  ASSUME NEW min \in Nat, NEW max \in Nat, NEW name \in Nat
  PROVE  Bounds(min, max, name) \in RangeRec
BY DEF Bounds, RangeRec

LEMMA NewRangeKeeps ==
  ASSUME NEW F, NEW files \in F, NEW h \in Work(F, files), NEW k \in Key
  PROVE  NewRange(h, k) \in Work(F, files)
<1> DEFINE name == h.mem.nextFileId
           g == AssignRangeToFile(Fresh(h))
           s == SaveRangeKeyDir(g, name, NewRkd(k, NoKey, g.mem.assignmentFile))
           q == WithRange(s.mem.ranges, Bounds(k, NoKey, name))
<1>1. name \in Nat /\ k \in Nat /\ NoKey \in Nat
  BY KeyFacts DEF Work, Memories, NoKey
<1>2. g \in Work(F, files)
  BY FreshKeeps, AssignKeeps
<1> HIDE DEF g
<1>3. g.mem.assignmentFile \in Nat
  BY <1>2 DEF Work, Memories
<1>4. s \in Work(F, files)
  BY <1>1, <1>2, <1>3, NewRkdOf, SaveKeeps
<1> HIDE DEF s
<1>5. s.mem.ranges \in Ranges
  BY <1>4 DEF Work, Memories
<1> HIDE DEF name
<1>6. q \in Ranges
  BY <1>1, <1>5, BoundsOf, WithRangeSorts
<1>7. [s EXCEPT !.mem.ranges = WithRange(@, Bounds(k, NoKey, name))] = [s EXCEPT !.mem.ranges = q]
  BY <1>4 DEF Work, Memories
<1> HIDE DEF q
<1>8. [s EXCEPT !.mem.ranges = q] \in Work(F, files)
  BY <1>4, <1>6, RangesKeep
<1>9. NewRange(h, k) = SaveRangeMetadata([s EXCEPT !.mem.ranges = q])
  BY <1>7 DEF NewRange, name, g, s
<1> QED
  BY <1>8, <1>9, MetaKeeps

-----------------------------------------------------------------------------
(* The split of a range.                                                     *)

LEMMA SortedCounts ==
  ASSUME NEW K \in SUBSET Key, NEW q \in Sorted(K)
  PROVE  Len(q) = Cardinality(K) /\ q \in [1 .. Len(q) -> K] /\ Len(q) \in Nat
<1>1. q \in Seq(K)
  BY DEF Sorted
<1>2. Len(q) \in Nat /\ q \in [1 .. Len(q) -> K]
  BY <1>1
<1>3. ASSUME NEW i \in 1 .. Len(q), NEW j \in 1 .. Len(q), q[i] = q[j]
      PROVE  i = j
  <2>1. q[i] \in Nat /\ q[j] \in Nat
    BY <1>2, KeyFacts
  <2>2. ~(q[i] < q[j]) /\ ~(q[j] < q[i])
    BY <1>3, <2>1
  <2> QED
    BY <1>2, <2>2 DEF Sorted
<1>4. q \in Bijection(1 .. Len(q), K)
  BY <1>2, <1>3 DEF Sorted, Bijection, Injection, Surjection, IsInjective
<1>5. ExistsBijection(1 .. Len(q), K)
  BY <1>4 DEF ExistsBijection
<1>6. Cardinality(K) = Len(q)
  BY <1>2, <1>5, FS_CountingElements
<1> QED
  BY <1>2, <1>6

LEMMA KeysBounded ==
  ASSUME NEW K \in SUBSET Key
  PROVE  K \in SUBSET (0 .. MaxKey) /\ IsFiniteSet(K) /\ Cardinality(K) \in Nat
<1>1. K \in SUBSET (0 .. MaxKey)
  BY BoundFacts DEF Key
<1>2. K \in SUBSET Nat /\ \A k \in K : k <= MaxKey
  BY <1>1, BoundFacts
<1>3. IsFiniteSet(K)
  BY <1>2, BoundFacts, FS_BoundedSetOfNaturals
<1> QED
  BY <1>1, <1>3, FS_CardinalityType

\* There is a lower half.
LEMMA LowerHalfOf ==
  ASSUME NEW K \in SUBSET Key
  PROVE  /\ LowerHalf(K) \in SUBSET K
         /\ Cardinality(LowerHalf(K)) = Cardinality(K) \div 2
         /\ \A a \in LowerHalf(K), b \in K \ LowerHalf(K) : a < b
<1> DEFINE q == Ascending(K)
           n == Cardinality(K)
           m == n \div 2
           L == {q[i] : i \in 1 .. m}
           p == [i \in 1 .. m |-> q[i]]
<1>1. q \in Sorted(K)
  BY KeysBounded, BoundFacts, AscendingSorts
<1> HIDE DEF q
<1>2. Len(q) = n /\ q \in [1 .. n -> K] /\ n \in Nat
  BY <1>1, SortedCounts
<1> HIDE DEF n
<1>3. m \in Nat /\ m <= n
  BY <1>2
<1> HIDE DEF m
<1>4. \A i, j \in 1 .. n : i < j => q[i] < q[j]
  BY <1>1, <1>2 DEF Sorted
<1>5. \A i \in 1 .. m : i \in 1 .. n /\ q[i] \in K /\ q[i] \in L
  BY <1>2, <1>3
<1>6. L \in SUBSET K
  BY <1>5
<1>7. p \in Bijection(1 .. m, L)
  <2>1. p \in [1 .. m -> L]
    BY <1>5
  <2>2. ASSUME NEW i \in 1 .. m, NEW j \in 1 .. m, p[i] = p[j]
        PROVE  i = j
    <3>1. q[i] \in Nat /\ q[j] \in Nat /\ q[i] = q[j]
      BY <1>5, <2>2, KeyFacts
    <3>2. ~(q[i] < q[j]) /\ ~(q[j] < q[i])
      BY <3>1
    <3> QED
      BY <1>3, <1>4, <1>5, <3>2
  <2>3. \A x \in L : \E i \in 1 .. m : p[i] = x
    OBVIOUS
  <2> HIDE DEF p, L
  <2> QED
    BY <2>1, <2>2, <2>3 DEF Bijection, Injection, Surjection, IsInjective
<1>8. Cardinality(L) = m
  <2> HIDE DEF L, p
  <2>1. ExistsBijection(1 .. m, L)
    BY <1>7 DEF ExistsBijection
  <2> QED
    BY <1>3, <2>1, FS_CountingElements
<1>9. ASSUME NEW a \in L, NEW b \in K \ L
      PROVE  a < b
  <2>1. PICK i \in 1 .. m : a = q[i]
    OBVIOUS
  <2>2. PICK j \in 1 .. n : b = q[j]
    BY <1>1, <1>2 DEF Sorted
  <2>3. j \notin 1 .. m
    BY <2>2
  <2>4. i \in 1 .. n /\ i < j
    BY <1>3, <1>5, <2>3
  <2> QED
    BY <1>4, <2>1, <2>2, <2>4
<1> HIDE DEF L
<1>10. L \in SUBSET K /\ Cardinality(L) = Cardinality(K) \div 2
       /\ \A a \in L, b \in K \ L : a < b
  BY <1>6, <1>8, <1>9 DEF m, n
<1> QED
  BY <1>10 DEF LowerHalf

LEMMA HalvesFacts ==
  ASSUME NEW K \in SUBSET Key, ~(Cardinality(K) < 2)
  PROVE  LowerHalf(K) # {} /\ K \ LowerHalf(K) # {}
<1>1. IsFiniteSet(K) /\ Cardinality(K) \in Nat
  BY KeysBounded
<1>2. Cardinality(LowerHalf(K)) = Cardinality(K) \div 2 /\ LowerHalf(K) \in SUBSET K
  BY LowerHalfOf
<1>3. Cardinality(K) \div 2 # 0 /\ Cardinality(K) \div 2 # Cardinality(K)
  BY <1>1
<1> QED
  BY <1>2, <1>3, FS_EmptySet

LEMMA PartOf ==
  ASSUME NEW files, NEW r \in Rkds(files), NEW K \in SUBSET (DOMAIN r.entries), K # {}
  PROVE  /\ Part(r, K) \in Rkds(files)
         /\ Min(K) \in Nat /\ Max(K) \in Nat
<1>1. K \in SUBSET Key
  BY RkdFacts
<1>2. Min(K) \in Nat /\ Max(K) \in Nat
  <2>1. K \in SUBSET Nat
    BY <1>1, KeyFacts
  <2>2. Max(K) \in K /\ Min(K) \in K
    BY <1>1, <2>1, KeysBounded, BoundFacts, MaxOf, MinOf
  <2> QED
    BY <2>1, <2>2
<1> DEFINE e == [k \in K |-> r.entries[k]]
<1>3. e \in Entries /\ Points(e, files)
  <2>1. e \in [K -> EntryRec]
    BY RkdFacts
  <2> QED
    BY <1>1, <2>1, RkdFacts DEF Entries, Points
<1>0. Part(r, K) = [NewRkd(Min(K), Max(K), r.file) EXCEPT !.entries = e, !.pending = K]
  BY DEF Part
<1> HIDE DEF e
<1>4. Part(r, K) = [min |-> Min(K), max |-> Max(K), file |-> r.file, entries |-> e,
                    sorted |-> {}, pending |-> K, dirty |-> FALSE, data |-> FALSE]
  BY <1>0 DEF NewRkd
<1> QED
  BY <1>1, <1>2, <1>3, <1>4, RkdFacts DEF Rkds

LEMMA SplitKeepsWork ==
  ASSUME NEW F, NEW files \in F, NEW h \in Work(F, files), NEW name \in Nat
  PROVE  SplitRangeAtomic(h, name) \in Work(F, files)
<1> DEFINE g     == Load(h, name)
           rkd   == Loaded(h, name)
           K     == DOMAIN rkd.entries
           low   == LowerHalf(K)
           left  == h.mem.nextFileId
           right == left + 1
           g1 == Fresh(Fresh(g))
           g2 == Write(g1, [g1.disk EXCEPT !.split = <<name, left, right>>])
           g3 == SaveRangeKeyDir(g2, left, Part(rkd, low))
           g4 == SaveRangeKeyDir(g3, right, Part(rkd, K \ low))
           q1 == Without(g4.mem.ranges, name)
           q2 == WithRange(q1, Bounds(Min(low), Max(low), left))
           rs == WithRange(q2, Bounds(Min(K \ low), NoKey, right))
           g5 == SaveRangeMetadata([g4 EXCEPT !.mem.ranges = rs])
           g6 == RemoveBlob(g5, name)
           g7 == CacheDel(Write(g6, [g6.disk EXCEPT !.split = <<>>]), name)
<1>1. /\ g \in Work(F, files) /\ rkd \in Rkds(files) /\ K \in SUBSET Key
      /\ left \in Nat /\ right \in Nat /\ NoKey \in Nat
  <2>1. left \in Nat /\ NoKey \in Nat
    BY DEF Work, Memories, NoKey
  <2>2. g \in Work(F, files) /\ rkd \in Rkds(files)
    BY LoadKeeps, LoadedOf
  <2>3. K \in SUBSET Key
    BY <2>2, RkdFacts
  <2> QED
    BY <2>1, <2>2, <2>3
<1>2. CASE Cardinality(K) < 2
  BY <1>1, <1>2 DEF SplitRangeAtomic
<1>3. CASE ~(Cardinality(K) < 2)
  <2>1. low \in SUBSET K /\ low # {} /\ K \ low # {} /\ K \ low \in SUBSET K
    BY <1>1, <1>3, LowerHalfOf, HalvesFacts
  <2>2. SplitRangeAtomic(h, name) =
          CachePut(CachePut(g7, left, Part(rkd, low)), right, Part(rkd, K \ low))
    BY <1>3 DEF SplitRangeAtomic
  <2> HIDE DEF g, rkd, left, low
  <2>3. Part(rkd, low) \in Rkds(files) /\ Min(low) \in Nat /\ Max(low) \in Nat
    BY <1>1, <2>1, PartOf
  <2>4. Part(rkd, K \ low) \in Rkds(files) /\ Min(K \ low) \in Nat
    BY <1>1, <2>1, PartOf
  <2> HIDE DEF K, right
  <2>5. g1 \in Work(F, files)
    BY <1>1, FreshKeeps
  <2>6. <<name, left, right>> \in Splits /\ <<>> \in Splits
    BY <1>1 DEF Splits
  <2> HIDE DEF g1
  <2>7. g2 \in Work(F, files)
    BY <2>5, <2>6, SplitKeeps
  <2> HIDE DEF g2
  <2>8. g3 \in Work(F, files)
    BY <1>1, <2>3, <2>7, SaveKeeps
  <2> HIDE DEF g3
  <2>9. g4 \in Work(F, files)
    BY <1>1, <2>4, <2>8, SaveKeeps
  <2> HIDE DEF g4
  <2>10. g4.mem.ranges \in Ranges
    BY <2>9 DEF Work, Memories
  <2>11. q1 \in Ranges
    BY <2>10, WithoutSorts
  <2> HIDE DEF q1
  <2>12. q2 \in Ranges
    BY <1>1, <2>3, <2>11, BoundsOf, WithRangeSorts
  <2> HIDE DEF q2
  <2>13. rs \in Ranges
    BY <1>1, <2>4, <2>12, BoundsOf, WithRangeSorts
  <2> HIDE DEF rs
  <2>14. [g4 EXCEPT !.mem.ranges = rs] \in Work(F, files)
    BY <2>9, <2>13, RangesKeep
  <2>15. g5 \in Work(F, files)
    BY <2>14, MetaKeeps
  <2> HIDE DEF g5
  <2>16. g6 \in Work(F, files)
    BY <2>15, RemoveBlobKeeps
  <2> HIDE DEF g6
  <2>17. Write(g6, [g6.disk EXCEPT !.split = <<>>]) \in Work(F, files)
    BY <2>6, <2>16, SplitKeeps
  <2>18. g7 \in Work(F, files)
    BY <2>17, CacheDelKeeps
  <2> HIDE DEF g7
  <2>19. CachePut(g7, left, Part(rkd, low)) \in Work(F, files)
    BY <1>1, <2>3, <2>18, CachePutKeeps
  <2> QED
    BY <1>1, <2>2, <2>4, <2>19, CachePutKeeps
<1> QED
  BY <1>2, <1>3

-----------------------------------------------------------------------------
(* A record is appended.                                                     *)

\* No record of the files is lost or moved.
Grown(files, more) ==
  \A f \in DOMAIN files :
    /\ f \in DOMAIN more
    /\ \A p \in DOMAIN files[f] : p \in DOMAIN more[f] /\ more[f][p] = files[f][p]

LEMMA GrownKeeps ==
  ASSUME NEW files, NEW more, Grown(files, more)
  PROVE  /\ Rkds(files) \subseteq Rkds(more) /\ Blobs(files) \subseteq Blobs(more)
         /\ Caches(files) \subseteq Caches(more) /\ Memories(files) \subseteq Memories(more)
<1>1. \A e \in Entries : Points(e, files) => Points(e, more)
  BY DEF Points, Grown
<1>2. Rkds(files) \subseteq Rkds(more) /\ Blobs(files) \subseteq Blobs(more)
  BY <1>1 DEF Rkds, Blobs
<1>3. ASSUME NEW c \in Caches(files)
      PROVE  c \in Caches(more)
  <2> DEFINE R == [name : Nat, rkd : Rkds(files)]
             S == [name : Nat, rkd : Rkds(more)]
  <2>1. R \subseteq S
    BY <1>2
  <2>2. c \in Seq(R) /\ DOMAIN c = 1 .. Len(c)
    BY CacheFacts
  <2> HIDE DEF R, S
  <2>3. c \in Seq(S)
    BY <2>1, <2>2
  <2> QED
    BY <2>3, CacheFacts DEF Caches, S
<1>4. Memories(files) \subseteq Memories(more)
  BY <1>3 DEF Memories
<1> QED
  BY <1>2, <1>3, <1>4

FilesWith(files, f, rec) ==
  Put(files, f, Append(IF f \in DOMAIN files THEN files[f] ELSE <<>>, rec))

LEMMA FilesGrow ==
  ASSUME NEW files \in Files, NEW f \in Nat, NEW rec \in Record, 0 < MaxWrites,
         \A x \in DOMAIN files : Len(files[x]) < MaxWrites
  PROVE  LET more == FilesWith(files, f, rec) IN
         /\ more \in Files /\ Grown(files, more) /\ f \in DOMAIN more
         /\ Len(more[f]) \in DOMAIN more[f] /\ more[f][Len(more[f])] = rec
         /\ Len(more[f]) \in 1 .. MaxWrites
         /\ more[f] # (IF f \in DOMAIN files THEN files[f] ELSE <<>>)
         /\ \A x \in DOMAIN more : x # f => x \in DOMAIN files /\ more[x] = files[x]
<1> DEFINE old  == IF f \in DOMAIN files THEN files[f] ELSE <<>>
           new  == Append(old, rec)
           more == FilesWith(files, f, rec)
<1>1. /\ files \in [DOMAIN files -> File] /\ DOMAIN files \in SUBSET Nat
      /\ Bounded(DOMAIN files)
  BY DEF Files
<1>2. old \in Seq(Record) /\ Len(old) \in Nat /\ Len(old) < MaxWrites
  BY <1>1 DEF File
<1> HIDE DEF old
<1>3. /\ new \in Seq(Record) /\ Len(new) = Len(old) + 1 /\ DOMAIN new = 1 .. Len(new)
      /\ \A p \in 1 .. Len(old) : new[p] = old[p]
      /\ new[Len(old) + 1] = rec /\ DOMAIN old = 1 .. Len(old)
  BY <1>2
<1>4. new \in File /\ Len(new) \in 1 .. MaxWrites /\ Len(new) \in DOMAIN new
      /\ new[Len(new)] = rec
  BY <1>2, <1>3, BoundFacts DEF File
<1>5. more = Put(files, f, new)
  BY DEF FilesWith, old
<1> HIDE DEF new, more
<1>6. new # old
  BY <1>2, <1>3
<1>7. more \in [DOMAIN files \cup {f} -> File] /\ DOMAIN files \cup {f} \in SUBSET Nat
      /\ Bounded(DOMAIN files \cup {f})
  BY <1>1, <1>4, <1>5, PutFacts, BoundedFacts
<1>8. more \in Files
  BY <1>7 DEF Files
<1>9. /\ f \in DOMAIN more /\ more[f] = new
      /\ \A x \in DOMAIN more : x # f => x \in DOMAIN files /\ more[x] = files[x]
      /\ DOMAIN files \subseteq DOMAIN more
  BY <1>5 DEF Put
<1>10. Grown(files, more)
  <2> SUFFICES ASSUME NEW x \in DOMAIN files, NEW p \in DOMAIN files[x]
               PROVE  p \in DOMAIN more[x] /\ more[x][p] = files[x][p]
    BY <1>9 DEF Grown
  <2>1. CASE x # f
    BY <1>9, <2>1
  <2>2. CASE x = f
    <3>1. old = files[f] /\ p \in 1 .. Len(old)
      BY <1>3, <2>2 DEF old
    <3> QED
      BY <1>2, <1>3, <1>9, <2>2, <3>1
  <2> QED
    BY <2>1, <2>2
<1> QED
  BY <1>4, <1>6, <1>8, <1>9, <1>10 DEF more, old

LEMMA AppendedKeeps ==
  ASSUME NEW files \in Files, NEW h \in Work({files}, files),
         NEW f, NEW rec, NEW more,
         more = FilesWith(files, f, rec), more \in Files, Grown(files, more)
  PROVE  /\ Appended(h, f, rec) \in Work({files, more}, more)
         /\ Appended(h, f, rec).disk.files = more
         /\ Appended(h, f, rec).mem = h.mem
<1> DEFINE d == [h.disk EXCEPT !.files = more]
<1>1. h.disk \in Disks(files) /\ h.disk.files = files
  BY DEF Work, Disks
<1>2. Appended(h, f, rec) = Write(h, d)
  BY <1>1 DEF Appended, FilesWith
<1>3. Blobs(files) \subseteq Blobs(more) /\ Memories(files) \subseteq Memories(more)
  BY GrownKeeps
<1>4. d \in Disks(more)
  <2>1. h.disk.rkds \in [DOMAIN h.disk.rkds -> Blobs(more)]
    BY <1>1, <1>3, DiskTables
  <2> QED
    BY <1>1, <2>1, DiskTables DEF Disks
<1> HIDE DEF d
<1>5. d \in DisksOf({files, more}) /\ DisksOf({files}) \subseteq DisksOf({files, more})
  BY <1>4 DEF DisksOf
<1>6. Append(h.trace, d) \in Seq(DisksOf({files, more}))
  <2> DEFINE A == DisksOf({files})
             B == DisksOf({files, more})
  <2>1. h.trace \in Seq(A)
    BY DEF Work
  <2>2. A \subseteq B /\ d \in B
    BY <1>5
  <2> HIDE DEF A, B
  <2>3. h.trace \in Seq(B)
    BY <2>1, <2>2
  <2>4. Append(h.trace, d) \in Seq(B)
    BY <2>2, <2>3
  <2> QED
    BY <2>4 DEF B
<1>7. h.mem \in Memories(more) /\ h.clash \in BOOLEAN
  BY <1>3 DEF Work
<1>8. Write(h, d) = [mem |-> h.mem, disk |-> d, trace |-> Append(h.trace, d), clash |-> h.clash]
  <2> DEFINE A == DisksOf({files})
  <2>1. h \in [mem : Memories(files), disk : Disks(files), trace : Seq(A), clash : BOOLEAN]
    BY DEF Work
  <2> HIDE DEF A
  <2>2. h = [mem |-> h.mem, disk |-> h.disk, trace |-> h.trace, clash |-> h.clash]
    BY <2>1
  <2>3. Write(h, d) = [h EXCEPT !.disk = d, !.trace = Append(h.trace, d)]
    BY <2>1 DEF Write
  <2> QED
    BY <2>2, <2>3
<1>9. d.files = more
  BY <1>4 DEF Disks
<1> QED
  BY <1>2, <1>4, <1>6, <1>7, <1>8, <1>9 DEF Work

-----------------------------------------------------------------------------
(* The operations.                                                           *)

\* Where a key is, or may be.
LEMMA FindRangeType ==
  ASSUME NEW ranges \in Ranges, NEW k
  PROVE  FindRange(ranges, k) \in Nat
<1>1. ranges \in Seq(RangeRec)
  BY DEF Ranges
<1>2. \A i \in 1 .. Len(ranges) : ranges[i] \in RangeRec
  BY <1>1
<1>3. \A i \in 1 .. Len(ranges) : ranges[i].name \in Nat
  BY <1>2 DEF RangeRec
<1> QED
  BY <1>1, <1>3, FindRangeFinds

LEMMA SetKeeps ==
  ASSUME NEW files \in Files, NEW h \in Work({files}, files),
         NEW k \in Key, NEW packed \in BOOLEAN, NEW flush \in BOOLEAN,
         0 < MaxWrites, \A x \in DOMAIN files : Len(files[x]) < MaxWrites
  PROVE  \E f \in Nat :
           LET more == FilesWith(files, f, [key |-> k, packed |-> packed]) IN
           /\ more \in Files
           /\ SetOp(h, k, packed, flush) \in Work({files, more}, more)
<1> DEFINE found == FindRange(h.mem.ranges, k)
           name  == IF found = 0 THEN h.mem.nextFileId ELSE found
           g0    == IF found = 0 THEN NewRange(h, k) ELSE h
           g     == Load(g0, name)
           old   == Loaded(g0, name)
           f     == old.file
           rec   == [key |-> k, packed |-> packed]
           more  == FilesWith(files, f, rec)
           w     == Appended(g, f, rec)
           e     == EntryOf(f, Len(w.disk.files[f]))
           rkd   == Inserted(old, k, e)
           split == TotalLen(rkd) > MaxEntriesPerRange
           saved == SaveRangeKeyDir(w, name, Flushed(rkd))
<1>1. SetOp(h, k, packed, flush) =
        IF split THEN SplitRangeAtomic(CacheDel(saved, name), name)
        ELSE IF flush THEN saved ELSE CachePut(w, name, rkd)
  BY DEF SetOp
<1>2. found \in Nat /\ name \in Nat
  <2>1. h.mem.ranges \in Ranges /\ h.mem.nextFileId \in Nat
    BY DEF Work, Memories
  <2> QED
    BY <2>1, FindRangeType
<1> HIDE DEF found
<1>3. g0 \in Work({files}, files)
  BY NewRangeKeeps
<1> HIDE DEF g0, name
<1>4. g \in Work({files}, files) /\ old \in Rkds(files) /\ f \in Nat
  BY <1>2, <1>3, LoadKeeps, LoadedOf, RkdFacts
<1>5. rec \in Record /\ rec.key = k
  BY DEF Record
<1> HIDE DEF g, f, rec
<1>6. /\ more \in Files /\ Grown(files, more) /\ f \in DOMAIN more
      /\ Len(more[f]) \in DOMAIN more[f] /\ more[f][Len(more[f])] = rec
      /\ Len(more[f]) \in 1 .. MaxWrites
  BY <1>4, <1>5, FilesGrow
<1> HIDE DEF more
<1>7. w \in Work({files, more}, more) /\ w.disk.files = more
  BY <1>4, <1>6, AppendedKeeps DEF more
<1> HIDE DEF w
<1>8. e \in EntryRec /\ e.file = f /\ e.pos = Len(more[f])
  BY <1>4, <1>6, <1>7, BoundFacts DEF EntryOf, EntryRec
<1> HIDE DEF e, old
<1>9. old \in Rkds(more)
  BY <1>4, <1>6, GrownKeeps
<1>10. rkd \in Rkds(more)
  BY <1>5, <1>6, <1>8, <1>9, InsertedOf
<1> HIDE DEF rkd
<1>11. saved \in Work({files, more}, more)
  BY <1>2, <1>7, <1>10, FlushedOf, SaveKeeps
<1> HIDE DEF saved
<1>12. CacheDel(saved, name) \in Work({files, more}, more)
  BY <1>11, CacheDelKeeps
<1>13. SplitRangeAtomic(CacheDel(saved, name), name) \in Work({files, more}, more)
  BY <1>2, <1>12, SplitKeepsWork
<1>14. CachePut(w, name, rkd) \in Work({files, more}, more)
  BY <1>2, <1>7, <1>10, CachePutKeeps
<1> HIDE DEF split
<1>15. SetOp(h, k, packed, flush) \in Work({files, more}, more)
  BY <1>1, <1>11, <1>13, <1>14
<1> QED
  BY <1>4, <1>6, <1>15 DEF more, rec

LEMMA GetKeeps ==
  ASSUME NEW F, NEW files \in F, NEW h \in Work(F, files), NEW k \in Key
  PROVE  GetOp(h, k) \in Work(F, files)
<1>1. h.mem.ranges \in Ranges
  BY DEF Work, Memories
<1>2. FindRange(h.mem.ranges, k) \in Nat
  BY <1>1, FindRangeType
<1> QED
  BY <1>2, LoadKeeps DEF GetOp

LEMMA DeleteKeeps ==
  ASSUME NEW F, NEW files \in F, NEW h \in Work(F, files), NEW k \in Key
  PROVE  DeleteOp(h, k) \in Work(F, files)
<1> DEFINE name == FindRange(h.mem.ranges, k)
           g    == Load(h, name)
           rkd  == Loaded(h, name)
           e    == [rkd.entries[k] EXCEPT !.del = TRUE]
<1>1. h.mem.ranges \in Ranges
  BY DEF Work, Memories
<1>2. name \in Nat
  BY <1>1, FindRangeType
<1> HIDE DEF name
<1>3. g \in Work(F, files) /\ rkd \in Rkds(files)
  BY <1>2, LoadKeeps, LoadedOf
<1>4. DeleteOp(h, k) =
        IF name = 0 THEN h
        ELSE IF k \notin DOMAIN rkd.entries THEN g
        ELSE SaveRangeKeyDir(g, name, Flushed(Inserted(rkd, k, e)))
  BY DEF DeleteOp, name
<1> HIDE DEF g, rkd
<1>5. CASE k \in DOMAIN rkd.entries
  <2>1. rkd.entries[k] \in EntryRec /\ Points(rkd.entries, files)
    BY <1>3, <1>5, RkdFacts
  <2>2. e \in EntryRec /\ e.file = rkd.entries[k].file /\ e.pos = rkd.entries[k].pos
    BY <2>1 DEF EntryRec
  <2> HIDE DEF e
  <2>3. /\ e.file \in DOMAIN files /\ e.pos \in DOMAIN files[e.file]
        /\ files[e.file][e.pos].key = k
    BY <1>5, <2>1, <2>2 DEF Points
  <2>4. Flushed(Inserted(rkd, k, e)) \in Rkds(files)
    BY <1>3, <2>2, <2>3, InsertedOf, FlushedOf
  <2>5. SaveRangeKeyDir(g, name, Flushed(Inserted(rkd, k, e))) \in Work(F, files)
    BY <1>2, <1>3, <2>4, SaveKeeps
  <2> QED
    BY <1>3, <1>4, <2>5
<1> QED
  BY <1>3, <1>4, <1>5

-----------------------------------------------------------------------------
(* The operations that go through a list.                                    *)

\* What every step over a list preserves holds at its end.
LEMMA FoldIn ==
  ASSUME NEW n \in Nat, NEW A, NEW f, f[{}] \in A,
         \A s \in SUBSET (1 .. n) : s # {} /\ f[s \ {Max(s)}] \in A => f[s] \in A
  PROVE  f[1 .. n] \in A
<1> DEFINE B == [s \in SUBSET (1 .. n) |-> A]
<1>1. 1 .. n \in SUBSET (0 .. n)
  OBVIOUS
<1>2. f[{}] \in B[{}] /\ \A s \in SUBSET (1 .. n) :
                           s # {} /\ f[s \ {Max(s)}] \in B[s \ {Max(s)}] => f[s] \in B[s]
  OBVIOUS
<1> HIDE DEF B
<1>3. f[1 .. n] \in B[1 .. n]
  BY <1>1, <1>2, FoldHolds
<1> QED
  BY <1>3 DEF B

LEMMA FoldOver ==
  ASSUME NEW n \in Nat, NEW A, NEW base \in A, NEW G \in [A \X (1 .. n) -> A]
  PROVE  \E f \in [SUBSET (1 .. n) -> A] : Folds(f, 1 .. n, base, G)
<1>1. 1 .. n \in SUBSET (0 .. n)
  OBVIOUS
<1> QED
  BY <1>1, FoldExists

LEMMA MaxIn ==
  ASSUME NEW n \in Nat, NEW s \in SUBSET (1 .. n), s # {}
  PROVE  Max(s) \in 1 .. n
<1>1. s \in SUBSET (0 .. n)
  OBVIOUS
<1> QED
  BY <1>1, MaxOf

FlushStep(h, r) ==
  LET rkd == Loaded(h, r.name) IN
  IF rkd.dirty THEN SaveRangeKeyDir(Load(h, r.name), r.name, Flushed(rkd)) ELSE Load(h, r.name)

LEMMA FlushKeeps ==
  ASSUME NEW F, NEW files \in F, NEW h \in Work(F, files)
  PROVE  FlushOp(h) \in Work(F, files)
<1> DEFINE W == Work(F, files)
           q == h.mem.ranges
           n == Len(q)
           IsFold(f) == f = [s \in SUBSET (1 .. n) |-> IF s = {} THEN h
                               ELSE FlushStep(f[s \ {Max(s)}], q[Max(s)])]
           G == [x \in W \X (1 .. n) |-> FlushStep(x[1], q[x[2]])]
<1>1. q \in Seq(RangeRec) /\ n \in Nat /\ DOMAIN q = 1 .. n
  BY DEF Work, Memories, Ranges
<1>2. ASSUME NEW g \in W, NEW i \in 1 .. n
      PROVE  FlushStep(g, q[i]) \in W
  <2>1. q[i].name \in Nat
    <3>1. q[i] \in RangeRec
      BY <1>1
    <3> QED
      BY <3>1 DEF RangeRec
  <2> QED
    BY <2>1, LoadKeeps, LoadedOf, SaveKeeps, FlushedOf DEF FlushStep
<1> HIDE DEF n, W
<1>3. h \in W /\ G \in [W \X (1 .. n) -> W]
  BY <1>2 DEF W
<1> HIDE DEF G
<1>4. PICK f \in [SUBSET (1 .. n) -> W] : Folds(f, 1 .. n, h, G)
  BY <1>1, <1>3, FoldOver
<1>5. IsFold(f)
  <2> SUFFICES ASSUME NEW s \in SUBSET (1 .. n), s # {}
               PROVE  f[s] = FlushStep(f[s \ {Max(s)}], q[Max(s)])
    BY <1>4 DEF Folds
  <2>1. <<f[s \ {Max(s)}], Max(s)>> \in W \X (1 .. n)
    BY <1>1, <1>4, MaxIn
  <2> QED
    BY <1>4, <2>1 DEF Folds, G
<1>6. PICK g : IsFold(g) /\ FlushOp(h) = g[1 .. n]
  BY <1>1, <1>5 DEF FlushOp, FoldLeft, MapThenFoldSet, FlushStep
<1>7. g[{}] \in W
  BY <1>3, <1>6
<1>8. ASSUME NEW s \in SUBSET (1 .. n), s # {}, g[s \ {Max(s)}] \in W
      PROVE  g[s] \in W
  <2>1. Max(s) \in 1 .. n
    BY <1>1, <1>8, MaxIn
  <2>2. g[s] = FlushStep(g[s \ {Max(s)}], q[Max(s)])
    BY <1>6, <1>8
  <2> QED
    BY <1>2, <1>8, <2>1, <2>2
<1>9. g[1 .. n] \in W
  BY <1>1, <1>7, <1>8, FoldIn
<1> QED
  BY <1>6, <1>9 DEF W

LEMMA CloseKeeps ==
  ASSUME NEW F, NEW files \in F, NEW h \in Work(F, files)
  PROVE  CloseOp(h) \in Work(F, files)
<1> DEFINE W == Work(F, files)
           e == FlushOp(h)
           q == e.mem.cache
           n == Len(q)
           IsFold(f) == f = [s \in SUBSET (1 .. n) |-> IF s = {} THEN e
                               ELSE PutBlob(f[s \ {Max(s)}], q[Max(s)].name, q[Max(s)].rkd)]
           G == [x \in W \X (1 .. n) |-> PutBlob(x[1], q[x[2]].name, q[x[2]].rkd)]
<1>1. e \in W
  BY FlushKeeps
<1> HIDE DEF e
<1>2. q \in Caches(files)
  BY <1>1 DEF Work, Memories
<1>3. /\ n \in Nat /\ DOMAIN q = 1 .. n
      /\ \A i \in 1 .. n : q[i].name \in Nat /\ q[i].rkd \in Rkds(files)
  BY <1>2, CacheFacts
<1>4. ASSUME NEW g \in W, NEW i \in 1 .. n
      PROVE  PutBlob(g, q[i].name, q[i].rkd) \in W
  BY <1>3, PutBlobKeeps
<1> HIDE DEF n, W
<1>5. G \in [W \X (1 .. n) -> W]
  BY <1>4
<1> HIDE DEF G
<1>6. PICK f \in [SUBSET (1 .. n) -> W] : Folds(f, 1 .. n, e, G)
  BY <1>1, <1>3, <1>5, FoldOver
<1>7. IsFold(f)
  <2> SUFFICES ASSUME NEW s \in SUBSET (1 .. n), s # {}
               PROVE  f[s] = PutBlob(f[s \ {Max(s)}], q[Max(s)].name, q[Max(s)].rkd)
    BY <1>6 DEF Folds
  <2>1. <<f[s \ {Max(s)}], Max(s)>> \in W \X (1 .. n)
    BY <1>3, <1>6, MaxIn
  <2> QED
    BY <1>6, <2>1 DEF Folds, G
<1>8. PICK g : IsFold(g) /\ CloseOp(h) = SaveRangeMetadata(g[1 .. n])
  BY <1>3, <1>7 DEF CloseOp, FoldLeft, MapThenFoldSet, e
<1>9. g[{}] \in W
  BY <1>1, <1>8
<1>10. ASSUME NEW s \in SUBSET (1 .. n), s # {}, g[s \ {Max(s)}] \in W
       PROVE  g[s] \in W
  <2>1. Max(s) \in 1 .. n
    BY <1>3, <1>10, MaxIn
  <2>2. g[s] = PutBlob(g[s \ {Max(s)}], q[Max(s)].name, q[Max(s)].rkd)
    BY <1>8, <1>10
  <2> QED
    BY <1>4, <1>10, <2>1, <2>2
<1>11. g[1 .. n] \in W
  BY <1>3, <1>9, <1>10, FoldIn
<1> QED
  BY <1>8, <1>11, MetaKeeps DEF W

\* A record found by the scan is where the scan says.
FoundRecord(files) ==
  {r \in [key : Key, file : Nat, pos : Nat] :
     /\ r.file \in DOMAIN files /\ r.pos \in DOMAIN files[r.file]
     /\ files[r.file][r.pos].key = r.key}

LEMMA RecordsInFound ==
  ASSUME NEW files \in Files, NEW f \in DOMAIN files
  PROVE  RecordsIn(files, f) \in Seq(FoundRecord(files))
<1> DEFINE q == files[f]
           a == [p \in DOMAIN q |-> [key |-> q[p].key, file |-> f, pos |-> p]]
           I == {p \in DOMAIN q : ~q[p].packed}
           R == FoundRecord(files)
<1>1. files \in [DOMAIN files -> File] /\ DOMAIN files \in SUBSET Nat
  BY DEF Files
<1>2. q \in Seq(Record) /\ f \in Nat
  BY <1>1 DEF File
<1>3. Len(q) \in Nat /\ DOMAIN q = 1 .. Len(q) /\ \A p \in 1 .. Len(q) : q[p] \in Record
  BY <1>2
<1>4. ASSUME NEW p \in DOMAIN q
      PROVE  [key |-> q[p].key, file |-> f, pos |-> p] \in R
  <2>1. q[p].key \in Key /\ p \in Nat
    BY <1>3 DEF Record
  <2> QED
    BY <1>2, <2>1 DEF FoundRecord
<1> HIDE DEF q, R
<1>5. a \in [1 .. Len(q) -> R]
  BY <1>3, <1>4
<1>6. a \in Seq(R) /\ Len(a) = Len(q)
  BY <1>3, <1>5
<1>7. I \in SUBSET (1 .. Len(a))
  BY <1>3, <1>6
<1>8. RecordsIn(files, f) = At(a, I)
  BY DEF RecordsIn, q
<1> HIDE DEF a, I
<1> QED
  BY <1>6, <1>7, <1>8, AtSelects DEF R

LEMMA ScannedFound ==
  ASSUME NEW files \in Files
  PROVE  Scanned(files) \in Seq(FoundRecord(files))
<1> DEFINE W == Seq(FoundRecord(files))
           q == Ascending(DOMAIN files)
           n == Len(q)
           IsFold(f) == f = [s \in SUBSET (1 .. n) |-> IF s = {} THEN <<>>
                               ELSE f[s \ {Max(s)}] \o RecordsIn(files, q[Max(s)])]
           G == [x \in W \X (1 .. n) |-> x[1] \o RecordsIn(files, q[x[2]])]
<1>1. PICK b \in Nat : DOMAIN files \in SUBSET (0 .. b)
  BY DEF Files, Bounded
<1>2. q \in Seq(DOMAIN files)
  BY <1>1, AscendingSorts DEF Sorted
<1> HIDE DEF q
<1>3. n \in Nat /\ DOMAIN q = 1 .. n /\ \A i \in 1 .. n : q[i] \in DOMAIN files
  BY <1>2
<1>4. ASSUME NEW x \in W, NEW i \in 1 .. n
      PROVE  x \o RecordsIn(files, q[i]) \in W
  <2>1. RecordsIn(files, q[i]) \in W
    BY <1>3, RecordsInFound
  <2> QED
    BY <2>1
<1>5. <<>> \in W
  OBVIOUS
<1> HIDE DEF n, W
<1>6. G \in [W \X (1 .. n) -> W]
  BY <1>4
<1> HIDE DEF G
<1>7. PICK f \in [SUBSET (1 .. n) -> W] : Folds(f, 1 .. n, <<>>, G)
  BY <1>3, <1>5, <1>6, FoldOver
<1>8. IsFold(f)
  <2> SUFFICES ASSUME NEW s \in SUBSET (1 .. n), s # {}
               PROVE  f[s] = f[s \ {Max(s)}] \o RecordsIn(files, q[Max(s)])
    BY <1>7 DEF Folds
  <2>1. <<f[s \ {Max(s)}], Max(s)>> \in W \X (1 .. n)
    BY <1>3, <1>7, MaxIn
  <2> QED
    BY <1>7, <2>1 DEF Folds, G
<1>9. PICK g : IsFold(g) /\ Scanned(files) = g[1 .. n]
  BY <1>3, <1>8 DEF Scanned, Records, FoldLeft, MapThenFoldSet, q
<1>10. g[{}] \in W
  BY <1>5, <1>9
<1>11. ASSUME NEW s \in SUBSET (1 .. n), s # {}, g[s \ {Max(s)}] \in W
       PROVE  g[s] \in W
  <2>1. Max(s) \in 1 .. n
    BY <1>3, <1>11, MaxIn
  <2>2. g[s] = g[s \ {Max(s)}] \o RecordsIn(files, q[Max(s)])
    BY <1>9, <1>11
  <2> QED
    BY <1>4, <1>11, <2>1, <2>2
<1>12. g[1 .. n] \in W
  BY <1>3, <1>10, <1>11, FoldIn
<1> QED
  BY <1>9, <1>12 DEF W

\* rebuildRangesFromBarrel1.
LEMMA RebuildRangesKeeps ==
  ASSUME NEW F, NEW files \in F, NEW h \in Work(F, files)
  PROVE  RebuildRanges(h) \in Work(F, files)
<1> DEFINE t == h.disk.rkds
           q == Ascending(DOMAIN t)
           n == Len(q)
           Of(i) == Bounds(t[q[i]].min, t[q[i]].max, q[i])
           IsFold(f) == f = [s \in SUBSET (1 .. n) |-> IF s = {} THEN <<>>
                               ELSE WithRange(f[s \ {Max(s)}], Of(Max(s)))]
           G == [x \in Ranges \X (1 .. n) |-> WithRange(x[1], Of(x[2]))]
<1>0. h.disk \in Disks(files)
  BY DEF Work
<1>1. t \in [DOMAIN t -> Blobs(files)] /\ DOMAIN t \in SUBSET Nat /\ Bounded(DOMAIN t)
  BY <1>0, DiskTables
<1>2. q \in Seq(DOMAIN t)
  <2>1. PICK b \in Nat : DOMAIN t \in SUBSET (0 .. b)
    BY <1>1 DEF Bounded
  <2> QED
    BY <2>1, AscendingSorts DEF Sorted
<1> HIDE DEF q
<1>3. n \in Nat /\ DOMAIN q = 1 .. n /\ \A i \in 1 .. n : q[i] \in DOMAIN t
  BY <1>2
<1> HIDE DEF t
<1>4. ASSUME NEW x \in Ranges, NEW i \in 1 .. n
      PROVE  WithRange(x, Of(i)) \in Ranges
  <2>1. q[i] \in Nat /\ t[q[i]] \in Blobs(files)
    BY <1>1, <1>3
  <2>2. t[q[i]].min \in Nat /\ t[q[i]].max \in Nat
    BY <2>1 DEF Blobs
  <2> QED
    BY <2>1, <2>2, BoundsOf, WithRangeSorts
<1>5. <<>> \in Ranges
  BY DEF Ranges
<1> HIDE DEF n, Of
<1>6. G \in [Ranges \X (1 .. n) -> Ranges]
  BY <1>4
<1> HIDE DEF G
<1>7. PICK f \in [SUBSET (1 .. n) -> Ranges] : Folds(f, 1 .. n, <<>>, G)
  BY <1>3, <1>5, <1>6, FoldOver
<1>8. IsFold(f)
  <2> SUFFICES ASSUME NEW s \in SUBSET (1 .. n), s # {}
               PROVE  f[s] = WithRange(f[s \ {Max(s)}], Of(Max(s)))
    BY <1>7 DEF Folds
  <2>1. <<f[s \ {Max(s)}], Max(s)>> \in Ranges \X (1 .. n)
    BY <1>3, <1>7, MaxIn
  <2> QED
    BY <1>7, <2>1 DEF Folds, G
<1>9. PICK g : /\ IsFold(g)
               /\ RebuildRanges(h) = SaveRangeMetadata([h EXCEPT !.mem.ranges = g[1 .. n]])
  BY <1>3, <1>8 DEF RebuildRanges, FoldLeft, MapThenFoldSet, q, t, Of
<1>10. g[{}] \in Ranges
  BY <1>5, <1>9
<1>11. ASSUME NEW s \in SUBSET (1 .. n), s # {}, g[s \ {Max(s)}] \in Ranges
       PROVE  g[s] \in Ranges
  <2>1. Max(s) \in 1 .. n
    BY <1>3, <1>11, MaxIn
  <2>2. g[s] = WithRange(g[s \ {Max(s)}], Of(Max(s)))
    BY <1>9, <1>11
  <2> QED
    BY <1>4, <1>11, <2>1, <2>2
<1>12. g[1 .. n] \in Ranges
  BY <1>3, <1>10, <1>11, FoldIn
<1>13. [h EXCEPT !.mem.ranges = g[1 .. n]] \in Work(F, files)
  BY <1>12, RangesKeep
<1> QED
  BY <1>9, <1>13, MetaKeeps


-----------------------------------------------------------------------------
(* The open.                                                                 *)

\* Tables of entries that point into files, as the scan of barrel2 fills them.
Founds(files) == {e \in Entries : Points(e, files)}
Maps(files)   == {m \in UNION {[N -> Founds(files)] : N \in SUBSET Nat} : Bounded(DOMAIN m)}

LEMMA MapsFacts ==
  ASSUME NEW files, NEW m \in Maps(files)
  PROVE  /\ m \in [DOMAIN m -> Founds(files)] /\ DOMAIN m \in SUBSET Nat /\ Bounded(DOMAIN m)
         /\ \A n \in DOMAIN m : m[n] \in Founds(files)
BY DEF Maps

LEMMA FoundFacts ==
  ASSUME NEW files, NEW e \in Founds(files), NEW k \in DOMAIN e
  PROVE  /\ DOMAIN e \in SUBSET Key /\ k \in Key /\ e[k] \in EntryRec
         /\ e[k].file \in DOMAIN files /\ e[k].pos \in DOMAIN files[e[k].file]
         /\ files[e[k].file][e[k].pos].key = k
BY DEF Founds, Entries, Points

\* What the scan found goes over what the range has.
LEMMA MergedOf ==
  ASSUME NEW F, NEW files \in F, NEW h \in Work(F, files), NEW e \in Founds(files), NEW name
  PROVE  Merged(h, e, name) \in Rkds(files)
<1> DEFINE W == Rkds(files)
           base == Loaded(h, name)
           q == Ascending(DOMAIN e)
           n == Len(q)
           IsFold(f) == f = [s \in SUBSET (1 .. n) |-> IF s = {} THEN base
                               ELSE Inserted(f[s \ {Max(s)}], q[Max(s)], e[q[Max(s)]])]
           G == [x \in W \X (1 .. n) |-> Inserted(x[1], q[x[2]], e[q[x[2]]])]
<1>1. base \in W
  BY LoadedOf
<1> HIDE DEF base
<1>2. q \in Seq(DOMAIN e)
  <2>1. DOMAIN e \in SUBSET Key
    BY DEF Founds, Entries
  <2>2. DOMAIN e \in SUBSET (0 .. MaxKey) /\ MaxKey \in Nat
    BY <2>1, KeysBounded, BoundFacts
  <2> QED
    BY <2>2, AscendingSorts DEF Sorted
<1> HIDE DEF q
<1>3. n \in Nat /\ DOMAIN q = 1 .. n /\ \A i \in 1 .. n : q[i] \in DOMAIN e
  BY <1>2
<1>4. ASSUME NEW r \in W, NEW i \in 1 .. n
      PROVE  Inserted(r, q[i], e[q[i]]) \in W
  BY <1>3, FoundFacts, InsertedOf
<1> HIDE DEF n, W
<1>5. G \in [W \X (1 .. n) -> W]
  BY <1>4
<1> HIDE DEF G
<1>6. PICK f \in [SUBSET (1 .. n) -> W] : Folds(f, 1 .. n, base, G)
  BY <1>1, <1>3, <1>5, FoldOver
<1>7. IsFold(f)
  <2> SUFFICES ASSUME NEW s \in SUBSET (1 .. n), s # {}
               PROVE  f[s] = Inserted(f[s \ {Max(s)}], q[Max(s)], e[q[Max(s)]])
    BY <1>6 DEF Folds
  <2>1. <<f[s \ {Max(s)}], Max(s)>> \in W \X (1 .. n)
    BY <1>3, <1>6, MaxIn
  <2> QED
    BY <1>6, <2>1 DEF Folds, G
<1>8. PICK g : IsFold(g) /\ Merged(h, e, name) = g[1 .. n]
  BY <1>3, <1>7 DEF Merged, FoldLeft, MapThenFoldSet, q, base
<1>9. g[{}] \in W
  BY <1>1, <1>8
<1>10. ASSUME NEW s \in SUBSET (1 .. n), s # {}, g[s \ {Max(s)}] \in W
       PROVE  g[s] \in W
  <2>1. Max(s) \in 1 .. n
    BY <1>3, <1>10, MaxIn
  <2>2. g[s] = Inserted(g[s \ {Max(s)}], q[Max(s)], e[q[Max(s)]])
    BY <1>8, <1>10
  <2> QED
    BY <1>4, <1>10, <2>1, <2>2
<1>11. g[1 .. n] \in W
  BY <1>3, <1>9, <1>10, FoldIn
<1> QED
  BY <1>8, <1>11 DEF W

\* The step of the scan.
LEMMA ScanStepKeeps ==
  ASSUME NEW F, NEW files \in F, NEW a \in Work(F, files), NEW m \in Maps(files),
         NEW r \in FoundRecord(files)
  PROVE  /\ ScanStep([area |-> a, map |-> m], r).area \in Work(F, files)
         /\ ScanStep([area |-> a, map |-> m], r).map \in Maps(files)
         /\ ScanStep([area |-> a, map |-> m], r) \in [area : Work(F, files), map : Maps(files)]
<1> DEFINE found == FindRange(a.mem.ranges, r.key)
           name  == IF found = 0 THEN a.mem.nextFileId ELSE found
           b     == Fresh(a)
           c     == [b EXCEPT !.mem.ranges = WithRange(b.mem.ranges, Bounds(r.key, r.key, name))]
           g     == IF found # 0 THEN a ELSE c
           old   == IF name \in DOMAIN m THEN m[name] ELSE <<>>
           v     == EntryOf(r.file, r.pos)
           new   == Put(old, r.key, v)
<1>1. ScanStep([area |-> a, map |-> m], r) = [area |-> Load(g, name), map |-> Put(m, name, new)]
  BY DEF ScanStep
<1>2. /\ r.key \in Key /\ v \in EntryRec /\ v.file \in DOMAIN files
      /\ v.pos \in DOMAIN files[v.file] /\ files[v.file][v.pos].key = r.key
  BY DEF FoundRecord, EntryOf, EntryRec
<1>3. found \in Nat /\ name \in Nat
  <2>1. a.mem.ranges \in Ranges /\ a.mem.nextFileId \in Nat
    BY DEF Work, Memories
  <2> QED
    BY <2>1, FindRangeType
<1> HIDE DEF found
<1>4. b \in Work(F, files)
  BY FreshKeeps
<1> HIDE DEF b
<1>5. c \in Work(F, files)
  <2>1. b.mem.ranges \in Ranges
    BY <1>4 DEF Work, Memories
  <2>2. r.key \in Nat
    BY <1>2, KeyFacts
  <2>3. WithRange(b.mem.ranges, Bounds(r.key, r.key, name)) \in Ranges
    BY <1>3, <2>1, <2>2, BoundsOf, WithRangeSorts
  <2> QED
    BY <1>4, <2>3, RangesKeep
<1>6. Load(g, name) \in Work(F, files)
  BY <1>3, <1>5, LoadKeeps
<1> HIDE DEF c, name, v
<1>7. old \in Entries /\ Points(old, files)
  <2>1. CASE name \in DOMAIN m
    BY <2>1, MapsFacts DEF Founds
  <2>2. CASE name \notin DOMAIN m
    <3>1. <<>> \in [{} -> EntryRec]
      OBVIOUS
    <3> QED
      BY <2>2, <3>1 DEF Entries, Points
  <2> QED
    BY <2>1, <2>2
<1> HIDE DEF old
<1>8. new \in Founds(files)
  BY <1>2, <1>7, PutEntry DEF Founds
<1> HIDE DEF new
<1>9. Put(m, name, new) \in Maps(files)
  <2>1. Put(m, name, new) \in [DOMAIN m \cup {name} -> Founds(files)]
    BY <1>3, <1>8, MapsFacts, PutFacts
  <2>2. DOMAIN m \cup {name} \in SUBSET Nat /\ Bounded(DOMAIN m \cup {name})
    BY <1>3, MapsFacts, BoundedFacts
  <2> QED
    BY <2>1, <2>2 DEF Maps
<1> QED
  BY <1>1, <1>6, <1>9

\* RecoveryMap.
LEMMA RecoveryMapKeeps ==
  ASSUME NEW F, NEW files \in F, files \in Files, NEW h \in Work(F, files)
  PROVE  /\ RecoveryMap(h).area \in Work(F, files)
         /\ RecoveryMap(h).map \in Maps(files)
<1> DEFINE W == [area : Work(F, files), map : Maps(files)]
           base == [area |-> h, map |-> <<>>]
           q == Scanned(files)
           n == Len(q)
           IsFold(f) == f = [s \in SUBSET (1 .. n) |-> IF s = {} THEN base
                               ELSE ScanStep(f[s \ {Max(s)}], q[Max(s)])]
           G == [x \in W \X (1 .. n) |-> ScanStep(x[1], q[x[2]])]
<1>1. base \in W
  <2>1. <<>> \in [{} -> Founds(files)] /\ Bounded({}) /\ DOMAIN <<>> = {}
    BY BoundedFacts
  <2>2. <<>> \in Maps(files)
    BY <2>1 DEF Maps
  <2> QED
    BY <2>2
<1>2. q \in Seq(FoundRecord(files))
  BY ScannedFound
<1>3. h.disk.files = files
  BY DEF Work, Disks
<1> HIDE DEF q, base
<1>4. n \in Nat /\ DOMAIN q = 1 .. n /\ \A i \in 1 .. n : q[i] \in FoundRecord(files)
  BY <1>2
<1>5. ASSUME NEW st \in W, NEW i \in 1 .. n
      PROVE  ScanStep(st, q[i]) \in W
  <2>1. st = [area |-> st.area, map |-> st.map] /\ st.area \in Work(F, files) /\ st.map \in Maps(files)
    OBVIOUS
  <2>2. ScanStep([area |-> st.area, map |-> st.map], q[i]) \in W
    BY <1>4, <2>1, ScanStepKeeps
  <2> QED
    BY <2>1, <2>2
<1> HIDE DEF n, W
<1>6. G \in [W \X (1 .. n) -> W]
  BY <1>5
<1> HIDE DEF G
<1>7. PICK f \in [SUBSET (1 .. n) -> W] : Folds(f, 1 .. n, base, G)
  BY <1>1, <1>4, <1>6, FoldOver
<1>8. IsFold(f)
  <2> SUFFICES ASSUME NEW s \in SUBSET (1 .. n), s # {}
               PROVE  f[s] = ScanStep(f[s \ {Max(s)}], q[Max(s)])
    BY <1>7 DEF Folds
  <2>1. <<f[s \ {Max(s)}], Max(s)>> \in W \X (1 .. n)
    BY <1>4, <1>7, MaxIn
  <2> QED
    BY <1>7, <2>1 DEF Folds, G
<1>9. PICK g : IsFold(g) /\ RecoveryMap(h) = g[1 .. n]
  <2>1. RecoveryMap(h) = (CHOOSE g : IsFold(g))[1 .. n]
    BY <1>3, <1>4 DEF RecoveryMap, FoldLeft, MapThenFoldSet, q, base
  <2> HIDE DEF IsFold
  <2> QED
    BY <1>8, <2>1
<1>10. g[{}] \in W
  BY <1>1, <1>9
<1>11. ASSUME NEW s \in SUBSET (1 .. n), s # {}, g[s \ {Max(s)}] \in W
       PROVE  g[s] \in W
  <2>1. Max(s) \in 1 .. n
    BY <1>4, <1>11, MaxIn
  <2>2. g[s] = ScanStep(g[s \ {Max(s)}], q[Max(s)])
    BY <1>9, <1>11
  <2> QED
    BY <1>5, <1>11, <2>1, <2>2
<1>12. g[1 .. n] \in W
  BY <1>4, <1>10, <1>11, FoldIn
<1> QED
  BY <1>9, <1>12 DEF W

\* rebuildFromBarrel2, whatever the order of the hash table.
LEMMA RecoverKeeps ==
  ASSUME NEW F, NEW files \in F, NEW h \in Work(F, files), NEW m \in Maps(files),
         NEW order \in SetToSeqs(DOMAIN m)
  PROVE  RebuildFromBarrel2(h, m, order) \in Work(F, files)
<1> DEFINE W == Work(F, files)
           n == Len(order)
           R == FoldLeft(LAMBDA g, name : RecoverRange(g, m[name], name), h, order)
           IsFold(f) == f = [s \in SUBSET (1 .. n) |-> IF s = {} THEN h
                               ELSE RecoverRange(f[s \ {Max(s)}], m[order[Max(s)]], order[Max(s)])]
           G == [x \in W \X (1 .. n) |-> RecoverRange(x[1], m[order[x[2]]], order[x[2]])]
<1>1. order \in Seq(DOMAIN m)
  <2> DEFINE c == Cardinality(DOMAIN m)
  <2>1. c \in Nat
    BY MapsFacts, BoundedFacts, FS_CardinalityType
  <2>2. order \in [1 .. c -> DOMAIN m]
    BY DEF SetToSeqs
  <2> HIDE DEF c
  <2> QED
    BY <2>1, <2>2
<1>2. n \in Nat /\ DOMAIN order = 1 .. n
      /\ \A i \in 1 .. n : order[i] \in DOMAIN m
  BY <1>1
<1>3. ASSUME NEW g \in W, NEW i \in 1 .. n
      PROVE  RecoverRange(g, m[order[i]], order[i]) \in W
  <2>1. order[i] \in Nat /\ m[order[i]] \in Founds(files)
    BY <1>2, MapsFacts
  <2>2. Flushed(Merged(g, m[order[i]], order[i])) \in Rkds(files)
    BY <2>1, MergedOf, FlushedOf
  <2>3. Load(g, order[i]) \in W
    BY <2>1, LoadKeeps
  <2> QED
    BY <2>1, <2>2, <2>3, SaveKeeps DEF RecoverRange
<1> HIDE DEF n, W
<1>4. h \in W /\ G \in [W \X (1 .. n) -> W]
  BY <1>3 DEF W
<1> HIDE DEF G
<1>5. PICK f \in [SUBSET (1 .. n) -> W] : Folds(f, 1 .. n, h, G)
  BY <1>2, <1>4, FoldOver
<1>6. IsFold(f)
  <2> SUFFICES ASSUME NEW s \in SUBSET (1 .. n), s # {}
               PROVE  f[s] = RecoverRange(f[s \ {Max(s)}], m[order[Max(s)]], order[Max(s)])
    BY <1>5 DEF Folds
  <2>1. <<f[s \ {Max(s)}], Max(s)>> \in W \X (1 .. n)
    BY <1>2, <1>5, MaxIn
  <2> QED
    BY <1>5, <2>1 DEF Folds, G
<1>7. PICK g : IsFold(g) /\ R = g[1 .. n]
  BY <1>2, <1>6 DEF FoldLeft, MapThenFoldSet
<1> HIDE DEF R
<1>8. g[{}] \in W
  BY <1>4, <1>7
<1>9. ASSUME NEW s \in SUBSET (1 .. n), s # {}, g[s \ {Max(s)}] \in W
      PROVE  g[s] \in W
  <2>1. Max(s) \in 1 .. n
    BY <1>2, <1>9, MaxIn
  <2>2. g[s] = RecoverRange(g[s \ {Max(s)}], m[order[Max(s)]], order[Max(s)])
    BY <1>7, <1>9
  <2> QED
    BY <1>3, <1>9, <2>1, <2>2
<1>10. g[1 .. n] \in W
  BY <1>2, <1>8, <1>9, FoldIn
<1>11. RebuildFromBarrel2(h, m, order) = IF order = <<>> THEN h ELSE SaveRangeMetadata(R)
  BY DEF RebuildFromBarrel2, R
<1> QED
  BY <1>4, <1>7, <1>10, <1>11, MetaKeeps DEF W

\* A process that has opened nothing yet, and one that has only its configuration.
LEMMA Blank ==
  ASSUME NEW files
  PROVE  /\ Closed \in Memories(files)
         /\ [Closed EXCEPT !.isOpen = TRUE, !.nextFileId = 2, !.assignmentFile = 1]
              \in Memories(files)
<1>1. <<>> \in Ranges
  BY DEF Ranges
<1>2. <<>> \in Caches(files)
  BY BoundFacts DEF Caches
<1> QED
  BY <1>1, <1>2 DEF Closed, Memories

LEMMA OpeningOf ==
  ASSUME NEW files, NEW d \in Disks(files)
  PROVE  Opening(d) \in Work({files}, files)
<1>1. <<>> \in Seq(DisksOf({files}))
  OBVIOUS
<1> QED
  BY <1>1, Blank DEF Opening, Work

LEMMA ReopenedOf ==
  ASSUME NEW files, NEW d \in Disks(files)
  PROVE  Reopened(d) \in Work({files}, files)
<1> DEFINE W == Work({files}, files)
           h == Opening(d)
           g == [h EXCEPT !.mem.ranges = d.meta]
<1>1. h \in W /\ files \in {files}
  BY OpeningOf
<1> HIDE DEF h
<1>2. g \in W
  BY <1>1, DiskTables, RangesKeep
<1>3. RebuildRanges(h) \in W
  BY <1>1, RebuildRangesKeeps
<1>4. ASSUME NEW a \in W
      PROVE  RecoverPendingSplit(a) \in W
  <2> DEFINE old == a.disk.split[1]
             b == IF SplitComplete(a.disk) /\ old \in DOMAIN a.disk.rkds
                  THEN RemoveBlob(a, old) ELSE a
             r == RebuildRanges(b)
  <2>1. b \in W
    BY RemoveBlobKeeps
  <2> HIDE DEF b
  <2>2. r \in W
    BY <2>1, RebuildRangesKeeps
  <2> HIDE DEF r
  <2>3. Write(r, [r.disk EXCEPT !.split = <<>>]) \in W
    BY <2>2, SplitKeeps DEF Splits
  <2>4. RecoverPendingSplit(a) =
          IF a.disk.split = <<>> THEN a ELSE Write(r, [r.disk EXCEPT !.split = <<>>])
    BY DEF RecoverPendingSplit, b, r
  <2> QED
    BY <2>3, <2>4
<1>5. CreateInitialRange(h) \in W
  <2> DEFINE a == SaveRangeKeyDir(h, 1, NewRkd(NoKey, NoKey, 0))
             q == <<Bounds(NoKey, NoKey, 1)>>
  <2>1. a \in W
    BY <1>1, NewRkdOf, SaveKeeps DEF NoKey
  <2>2. q \in Ranges
    <3>1. Bounds(NoKey, NoKey, 1) \in RangeRec
      BY BoundsOf DEF NoKey
    <3>2. Bounds(NoKey, NoKey, 1).min \in Nat
      BY <3>1 DEF RangeRec
    <3> QED
      BY <3>1, <3>2 DEF Ranges
  <2>3. CreateInitialRange(h) = SaveRangeMetadata([a EXCEPT !.mem.ranges = q])
    BY DEF CreateInitialRange
  <2> HIDE DEF a, q
  <2> QED
    BY <2>1, <2>2, <2>3, RangesKeep, MetaKeeps
<1>6. Reopened(d) = IF d.meta = <<>> /\ d.split = <<>> /\ DOMAIN d.rkds = {}
                    THEN CreateInitialRange(h)
                    ELSE RecoverPendingSplit(IF d.meta = <<>> THEN RebuildRanges(h) ELSE g)
  BY DEF Reopened, h
<1> HIDE DEF g, W
<1>7. (IF d.meta = <<>> THEN RebuildRanges(h) ELSE g) \in W
  BY <1>2, <1>3
<1>8. RecoverPendingSplit(IF d.meta = <<>> THEN RebuildRanges(h) ELSE g) \in W
  BY <1>4, <1>7
<1> QED
  BY <1>5, <1>6, <1>8 DEF W

\* What get answers.
LEMMA ReadOf ==
  ASSUME NEW F, NEW files \in F, files \in Files, NEW h \in Work(F, files), NEW k \in Key
  PROVE  Read(h, k) \in {NoRecord} \cup (Nat \X (1 .. MaxWrites))
<1> DEFINE name == FindRange(h.mem.ranges, k)
           rkd  == Loaded(h, name)
<1>1. rkd \in Rkds(files)
  BY LoadedOf
<1>2. Entry(h, k) = IF name # 0 /\ k \in DOMAIN rkd.entries THEN rkd.entries[k]
                    ELSE [EntryOf(0, 0) EXCEPT !.del = TRUE]
  BY DEF Entry
<1> HIDE DEF rkd, name
<1>3. CASE name # 0 /\ k \in DOMAIN rkd.entries
  <2> DEFINE e == rkd.entries[k]
  <2>1. e.file \in DOMAIN files /\ e.pos \in DOMAIN files[e.file]
    BY <1>1, <1>3, RkdFacts DEF Points
  <2>2. files[e.file] \in File /\ e.file \in Nat
    BY <2>1 DEF Files
  <2>3. Len(files[e.file]) \in Nat /\ Len(files[e.file]) <= MaxWrites
        /\ e.pos \in 1 .. Len(files[e.file])
    BY <2>1, <2>2 DEF File
  <2>4. e.pos \in 1 .. MaxWrites
    BY <2>3, BoundFacts
  <2> QED
    BY <1>2, <1>3, <2>2, <2>4 DEF Read
<1>4. CASE ~(name # 0 /\ k \in DOMAIN rkd.entries)
  BY <1>2, <1>4 DEF Read, EntryOf
<1> QED
  BY <1>3, <1>4

-----------------------------------------------------------------------------
(* The steps.                                                                *)

\* The bound on the records of all files bounds those of each.
LEMMA CountCovers ==
  ASSUME disk.files \in Files
  PROVE  LET c == Count(LAMBDA rec : TRUE) IN
         c \in Nat /\ \A x \in DOMAIN disk.files : Len(disk.files[x]) <= c
<1> DEFINE D == DOMAIN disk.files
           N(x) == Cardinality({p \in DOMAIN disk.files[x] : TRUE})
           c == Count(LAMBDA rec : TRUE)
           A == [s \in SUBSET D |-> {n \in Nat : \A x \in s : Len(disk.files[x]) <= n}]
           IsFold(f) == f = [s \in SUBSET D |-> IF s = {} THEN 0
                                                ELSE N(Max(s)) + f[s \ {Max(s)}]]
           G == [x \in Nat \X D |-> N(x[2]) + x[1]]
<1>1. PICK b \in Nat : D \in SUBSET (0 .. b)
  BY DEF Files, Bounded
<1>2. ASSUME NEW x \in D
      PROVE  N(x) = Len(disk.files[x]) /\ N(x) \in Nat
  <2> DEFINE n == Len(disk.files[x])
  <2>1. disk.files[x] \in File
    BY DEF Files
  <2>2. n \in Nat /\ DOMAIN disk.files[x] = 1 .. n
    BY <2>1 DEF File
  <2> HIDE DEF n
  <2>3. 1 \in Int /\ n \in Int
    BY <2>2
  <2>4. Cardinality(1 .. n) = IF 1 > n THEN 0 ELSE n - 1 + 1
    BY <2>3, FS_Interval
  <2>5. {p \in DOMAIN disk.files[x] : TRUE} = 1 .. n
    BY <2>2
  <2>6. N(x) = Cardinality(1 .. n)
    BY <2>5
  <2> HIDE DEF N
  <2>7. N(x) = n /\ N(x) \in Nat
    BY <2>2, <2>4, <2>6
  <2> QED
    BY <2>7 DEF n
<1> HIDE DEF N
<1>3. G \in [Nat \X D -> Nat]
  BY <1>2
<1> HIDE DEF G
<1>4. PICK f \in [SUBSET D -> Nat] : Folds(f, D, 0, G)
  BY <1>1, <1>3, FoldExists
<1>5. ASSUME NEW s \in SUBSET D, s # {}
      PROVE  Max(s) \in s
  BY <1>1, <1>5, MaxOf
<1>6. IsFold(f)
  <2> SUFFICES ASSUME NEW s \in SUBSET D, s # {}
               PROVE  f[s] = N(Max(s)) + f[s \ {Max(s)}]
    BY <1>4 DEF Folds
  <2>1. <<f[s \ {Max(s)}], Max(s)>> \in Nat \X D
    BY <1>4, <1>5
  <2> QED
    BY <1>4, <2>1 DEF Folds, G
<1>7. PICK g : IsFold(g) /\ c = g[D]
  BY <1>6 DEF Count, MapThenFoldSet, N
<1>8. g[{}] \in A[{}]
  BY <1>7
<1>9. ASSUME NEW s \in SUBSET D, s # {}, g[s \ {Max(s)}] \in A[s \ {Max(s)}]
      PROVE  g[s] \in A[s]
  <2> DEFINE m == Max(s)
  <2>1. m \in s /\ g[s] = N(m) + g[s \ {m}]
    BY <1>5, <1>7, <1>9
  <2> HIDE DEF m
  <2>2. N(m) = Len(disk.files[m]) /\ N(m) \in Nat
    BY <1>2, <2>1
  <2>3. /\ g[s \ {m}] \in Nat
        /\ \A x \in s \ {m} : Len(disk.files[x]) <= g[s \ {m}] /\ Len(disk.files[x]) \in Nat
    BY <1>2, <1>9 DEF m
  <2>4. g[s] \in Nat
    BY <2>1, <2>2, <2>3
  <2>5. ASSUME NEW x \in s
        PROVE  Len(disk.files[x]) <= g[s]
    <3>1. CASE x = m
      BY <2>1, <2>2, <2>3, <3>1
    <3>2. CASE x # m
      <4>1. Len(disk.files[x]) <= g[s \ {m}] /\ Len(disk.files[x]) \in Nat
        BY <2>3, <3>2
      <4> QED
        BY <2>1, <2>2, <2>3, <4>1
    <3> QED
      BY <3>1, <3>2
  <2> QED
    BY <2>4, <2>5
<1> HIDE DEF A
<1>10. g[D] \in A[D]
  BY <1>1, <1>8, <1>9, FoldHolds
<1> HIDE DEF c
<1>11. c \in A[D]
  BY <1>7, <1>10
<1>12. c \in Nat /\ \A x \in D : Len(disk.files[x]) <= c
  BY <1>11 DEF A
<1> QED
  BY <1>12 DEF c

\* The inductive invariant: the pieces have their types, the lists of ranges are sorted, the
\* cache is within its bounds, and every entry on disk and in memory leads to a record.
IInv ==
  /\ opens \in 0 .. MaxOpens
  /\ want \in [Key -> {NoRecord} \cup (Nat \X (1 .. MaxWrites))]
  /\ disk.files \in Files
  /\ disk \in Disks(disk.files)
  /\ mem \in Memories(disk.files)

LEMMA AreaOf ==
  ASSUME IInv
  PROVE  Area \in Work({disk.files}, disk.files)
<1>1. <<>> \in Seq(DisksOf({disk.files}))
  OBVIOUS
<1> QED
  BY <1>1 DEF IInv, Area, Work

\* A finished operation, and one that dies at any of its writes, leave a disk whose entries lead
\* to records, with one of the sets of files the operation went through.
LEMMA FinishKeeps ==
  ASSUME NEW F \in SUBSET Files, NEW files \in F, NEW h \in Work(F, files), Finish(h)
  PROVE  disk'.files \in F /\ disk' \in Disks(disk'.files) /\ mem' \in Memories(disk'.files)
<1>1. CASE disk' = h.disk /\ mem' = h.mem
  BY <1>1 DEF Work, Disks
<1>2. ASSUME NEW i \in DOMAIN h.trace, disk' = h.trace[i], mem' = Closed
      PROVE  disk'.files \in F /\ disk' \in Disks(disk'.files) /\ mem' \in Memories(disk'.files)
  <2> DEFINE A == DisksOf(F)
  <2>1. h.trace \in Seq(A)
    BY DEF Work
  <2> HIDE DEF A
  <2>2. h.trace[i] \in A
    BY <2>1
  <2>3. PICK g \in F : disk' \in Disks(g)
    BY <1>2, <2>2 DEF A, DisksOf
  <2>4. disk'.files = g
    BY <2>3 DEF Disks
  <2> QED
    BY <1>2, <2>3, <2>4, Blank
<1> QED
  BY <1>1, <1>2 DEF Finish

\* What a call appended is what its key has.
LEMMA NoteKeeps ==
  ASSUME IInv, NEW k \in Key, NEW f \in Nat, NEW rec \in Record, NotesRecord(k),
         0 < MaxWrites, \A x \in DOMAIN disk.files : Len(disk.files[x]) < MaxWrites,
         disk'.files \in {disk.files, FilesWith(disk.files, f, rec)}
  PROVE  want' \in [Key -> {NoRecord} \cup (Nat \X (1 .. MaxWrites))]
<1> DEFINE old == disk.files
           new == disk'.files
           more == FilesWith(old, f, rec)
           grown == {x \in DOMAIN new : x \notin DOMAIN old \/ new[x] # old[x]}
           c == CHOOSE x \in grown : TRUE
<1>1. want' = IF grown = {} THEN want ELSE [want EXCEPT ![k] = <<c, Len(new[c])>>]
  BY DEF NotesRecord
<1>2. old \in Files /\ want \in [Key -> {NoRecord} \cup (Nat \X (1 .. MaxWrites))]
  BY DEF IInv
<1>3. /\ Len(more[f]) \in 1 .. MaxWrites
      /\ \A x \in DOMAIN more : x # f => x \in DOMAIN old /\ more[x] = old[x]
  BY <1>2, FilesGrow
<1> HIDE DEF more
<1>4. ASSUME grown # {}
      PROVE  c = f /\ new = more
  <2>1. c \in grown
    BY <1>4
  <2> HIDE DEF c
  <2>2. new = more
    BY <2>1 DEF more
  <2> QED
    BY <1>3, <2>1, <2>2
<1> HIDE DEF c, grown, new
<1>5. CASE grown = {}
  BY <1>1, <1>2, <1>5
<1>6. CASE grown # {}
  <2>1. <<c, Len(new[c])>> \in Nat \X (1 .. MaxWrites)
    BY <1>3, <1>4, <1>6
  <2> QED
    BY <1>1, <1>2, <1>6, <2>1
<1> QED
  BY <1>5, <1>6

LEMMA OneOf ==
  ASSUME IInv
  PROVE  {disk.files} \in SUBSET Files /\ disk.files \in {disk.files}
BY DEF IInv

\* An operation that appends nothing.
LEMMA QuietStep ==
  ASSUME IInv, NEW h \in Work({disk.files}, disk.files), Finish(h)
  PROVE  disk'.files \in Files /\ disk' \in Disks(disk'.files) /\ mem' \in Memories(disk'.files)
BY OneOf, FinishKeeps

LEMMA InitKeeps == Init => IInv
<1> SUFFICES ASSUME Init
             PROVE  IInv
  OBVIOUS
<1>1. <<>> \in [{} -> File] /\ <<>> \in [{} -> Blobs(<<>>)] /\ {} \in SUBSET Nat /\ Bounded({})
      /\ DOMAIN <<>> = {}
  BY BoundedFacts
<1>2. <<>> \in Files
  BY <1>1 DEF Files
<1>3. <<>> \in Ranges
  BY DEF Ranges
<1>4. EmptyDisk \in Disks(<<>>) /\ EmptyDisk.files = <<>>
  BY <1>1, <1>3 DEF EmptyDisk, Disks, Splits
<1>5. opens \in 0 .. MaxOpens
  BY BoundFacts DEF Init
<1> QED
  BY <1>2, <1>4, <1>5, Blank DEF Init, IInv

LEMMA SetStep ==
  ASSUME IInv, NEW k \in Key, NEW packed \in BOOLEAN, NEW flush \in BOOLEAN, Set(k, packed, flush)
  PROVE  IInv'
<1> DEFINE c == Count(LAMBDA rec : TRUE)
           rec == [key |-> k, packed |-> packed]
<1>1. c \in Nat /\ (\A x \in DOMAIN disk.files : Len(disk.files[x]) <= c) /\ c < MaxWrites
  BY CountCovers DEF IInv, Set
<1> HIDE DEF c
<1>2. disk.files \in Files
  BY DEF IInv
<1>3. 0 < MaxWrites /\ \A x \in DOMAIN disk.files : Len(disk.files[x]) < MaxWrites
  <2>1. \A x \in DOMAIN disk.files : disk.files[x] \in File
    BY <1>2 DEF Files
  <2>2. \A x \in DOMAIN disk.files : Len(disk.files[x]) \in Nat
    BY <2>1 DEF File
  <2> QED
    BY <1>1, <2>2, BoundFacts
<1>4. PICK f \in Nat : /\ FilesWith(disk.files, f, rec) \in Files
                       /\ SetOp(Area, k, packed, flush) \in
                            Work({disk.files, FilesWith(disk.files, f, rec)},
                                 FilesWith(disk.files, f, rec))
  BY <1>2, <1>3, AreaOf, SetKeeps
<1>5. rec \in Record
  BY DEF Record
<1> HIDE DEF rec
<1> DEFINE more == FilesWith(disk.files, f, rec)
<1>6. /\ disk'.files \in {disk.files, more}
      /\ disk' \in Disks(disk'.files) /\ mem' \in Memories(disk'.files)
  <2>1. Finish(SetOp(Area, k, packed, flush))
    BY DEF Set
  <2>2. {disk.files, more} \in SUBSET Files /\ more \in {disk.files, more}
    BY <1>2, <1>4
  <2> HIDE DEF more
  <2>3. SetOp(Area, k, packed, flush) \in Work({disk.files, more}, more)
    BY <1>4 DEF more
  <2> QED
    BY <2>1, <2>2, <2>3, FinishKeeps
<1>7. want' \in [Key -> {NoRecord} \cup (Nat \X (1 .. MaxWrites))]
  BY <1>3, <1>5, <1>6, NoteKeeps DEF Set
<1>8. opens' \in 0 .. MaxOpens
  BY DEF Set, IInv
<1> QED
  BY <1>2, <1>4, <1>6, <1>7, <1>8 DEF IInv

LEMMA DeleteStep ==
  ASSUME IInv, NEW k \in Key, Delete(k)
  PROVE  IInv'
<1>1. DeleteOp(Area, k) \in Work({disk.files}, disk.files)
  BY AreaOf, OneOf, DeleteKeeps
<1>2. disk'.files \in Files /\ disk' \in Disks(disk'.files) /\ mem' \in Memories(disk'.files)
  BY <1>1, QuietStep DEF Delete
<1>3. opens' \in 0 .. MaxOpens /\ want' \in [Key -> {NoRecord} \cup (Nat \X (1 .. MaxWrites))]
  BY DEF Delete, IInv
<1> QED
  BY <1>2, <1>3 DEF IInv

LEMMA GetStep ==
  ASSUME IInv, NEW k \in Key, Get(k)
  PROVE  IInv'
<1>1. GetOp(Area, k) \in Work({disk.files}, disk.files)
  BY AreaOf, OneOf, GetKeeps
<1>2. disk'.files \in Files /\ disk' \in Disks(disk'.files) /\ mem' \in Memories(disk'.files)
  BY <1>1, QuietStep DEF Get
<1>3. opens' \in 0 .. MaxOpens /\ want' \in [Key -> {NoRecord} \cup (Nat \X (1 .. MaxWrites))]
  BY DEF Get, IInv
<1> QED
  BY <1>2, <1>3 DEF IInv

LEMMA FlushDirtyRangesStep ==
  ASSUME IInv, FlushDirtyRanges
  PROVE  IInv'
<1>1. FlushOp(Area) \in Work({disk.files}, disk.files)
  BY AreaOf, OneOf, FlushKeeps
<1>2. disk'.files \in Files /\ disk' \in Disks(disk'.files) /\ mem' \in Memories(disk'.files)
  BY <1>1, QuietStep DEF FlushDirtyRanges
<1>3. opens' \in 0 .. MaxOpens /\ want' \in [Key -> {NoRecord} \cup (Nat \X (1 .. MaxWrites))]
  BY DEF FlushDirtyRanges, IInv
<1> QED
  BY <1>2, <1>3 DEF IInv

LEMMA CloseStep ==
  ASSUME IInv, Close
  PROVE  IInv'
<1>1. CloseOp(Area) \in Work({disk.files}, disk.files)
  BY AreaOf, OneOf, CloseKeeps
<1>2. [CloseOp(Area) EXCEPT !.mem = Closed] \in Work({disk.files}, disk.files)
  BY <1>1, Blank DEF Work
<1>3. disk'.files \in Files /\ disk' \in Disks(disk'.files) /\ mem' \in Memories(disk'.files)
  BY <1>2, QuietStep DEF Close
<1>4. opens' \in 0 .. MaxOpens /\ want' \in [Key -> {NoRecord} \cup (Nat \X (1 .. MaxWrites))]
  BY DEF Close, IInv
<1> QED
  BY <1>3, <1>4 DEF IInv

LEMMA CrashStep ==
  ASSUME IInv, Crash
  PROVE  IInv'
BY Blank DEF Crash, IInv

\* An open, with what it makes of the keys.
LEMMA OpenAsStep ==
  ASSUME IInv, NEW h \in Work({disk.files}, disk.files), OpenAs(h),
         opens < MaxOpens, opens' = opens + 1
  PROVE  IInv'
<1>1. disk'.files \in Files /\ disk' \in Disks(disk'.files) /\ mem' \in Memories(disk'.files)
  BY QuietStep DEF OpenAs
<1>2. \A k \in Key : Read(h, k) \in {NoRecord} \cup (Nat \X (1 .. MaxWrites))
  BY OneOf, ReadOf DEF IInv
<1>3. want' \in [Key -> {NoRecord} \cup (Nat \X (1 .. MaxWrites))]
  BY <1>2 DEF OpenAs
<1>4. opens' \in 0 .. MaxOpens
  BY BoundFacts DEF IInv
<1> QED
  BY <1>1, <1>3, <1>4 DEF IInv

LEMMA OpenStep ==
  ASSUME IInv, Open
  PROVE  IInv'
<1>1. Reopened(disk) \in Work({disk.files}, disk.files)
  BY ReopenedOf DEF IInv
<1> QED
  BY <1>1, OpenAsStep DEF Open

LEMMA OpenAndRecoverStep ==
  ASSUME IInv, OpenAndRecover
  PROVE  IInv'
<1> DEFINE m == RecoveryMap(Reopened(disk))
<1>1. Reopened(disk) \in Work({disk.files}, disk.files)
  BY ReopenedOf DEF IInv
<1>2. m.area \in Work({disk.files}, disk.files) /\ m.map \in Maps(disk.files)
  BY <1>1, OneOf, RecoveryMapKeeps DEF IInv
<1>3. PICK order \in SetToSeqs(DOMAIN m.map) : OpenAs(RebuildFromBarrel2(m.area, m.map, order))
  BY DEF OpenAndRecover
<1> HIDE DEF m
<1>4. RebuildFromBarrel2(m.area, m.map, order) \in Work({disk.files}, disk.files)
  BY <1>2, <1>3, OneOf, RecoverKeeps
<1>5. opens < MaxOpens /\ opens' = opens + 1
  BY DEF OpenAndRecover
<1> QED
  BY <1>3, <1>4, <1>5, OpenAsStep

LEMMA StepKeeps == IInv /\ [Next]_vars => IInv'
<1> SUFFICES ASSUME IInv, [Next]_vars
             PROVE  IInv'
  OBVIOUS
<1>1. ASSUME NEW k \in Key, NEW packed \in BOOLEAN, NEW flush \in BOOLEAN, Set(k, packed, flush)
      PROVE  IInv'
  BY <1>1, SetStep
<1>2. ASSUME NEW k \in Key, Delete(k)
      PROVE  IInv'
  BY <1>2, DeleteStep
<1>3. ASSUME NEW k \in Key, Get(k)
      PROVE  IInv'
  BY <1>3, GetStep
<1>4. CASE FlushDirtyRanges
  BY <1>4, FlushDirtyRangesStep
<1>5. CASE Close
  BY <1>5, CloseStep
<1>6. CASE Crash
  BY <1>6, CrashStep
<1>7. CASE Open
  BY <1>7, OpenStep
<1>8. CASE OpenAndRecover
  BY <1>8, OpenAndRecoverStep
<1>9. CASE UNCHANGED vars
  BY <1>9 DEF vars, IInv
<1> QED
  BY <1>1, <1>2, <1>3, <1>4, <1>5, <1>6, <1>7, <1>8, <1>9 DEF Next

LEMMA Typed == IInv => TypeOK
<1> SUFFICES ASSUME IInv
             PROVE  TypeOK
  OBVIOUS
<1>1. mem.cache \in Caches(disk.files) /\ mem.ranges \in Ranges
  BY DEF IInv, Memories
<1>2. \A f \in DOMAIN disk.files : disk.files[f] \in Seq([key : Key, packed : BOOLEAN])
  BY DEF IInv, Files, File, Record
<1>3. Len(mem.cache) <= RangeCacheSize
  BY <1>1, CacheFacts
<1>4. IsInjective([i \in DOMAIN mem.cache |-> mem.cache[i].name])
  <2>1. DOMAIN mem.cache = 1 .. Len(mem.cache)
    BY <1>1, CacheFacts
  <2>2. \A i, j \in 1 .. Len(mem.cache) : mem.cache[i].name = mem.cache[j].name => i = j
    BY <1>1, CacheFacts
  <2> QED
    BY <2>1, <2>2 DEF IsInjective
<1>5. \A c \in ToSet(mem.cache) : c.rkd.dirty => c.rkd.pending # {}
  <2>1. \A i \in DOMAIN mem.cache : mem.cache[i].rkd \in Rkds(disk.files)
    BY <1>1, CacheFacts
  <2> QED
    BY <2>1 DEF ToSet, Rkds
<1>6. \A i, j \in DOMAIN mem.ranges : i <= j => mem.ranges[i].min <= mem.ranges[j].min
  <2>1. DOMAIN mem.ranges = 1 .. Len(mem.ranges)
    BY <1>1 DEF Ranges
  <2> QED
    BY <1>1, <2>1 DEF Ranges
<1>7. opens \in 0 .. MaxOpens /\ want \in [Key -> {NoRecord} \cup (Nat \X (1 .. MaxWrites))]
  BY DEF IInv
<1> QED
  BY <1>2, <1>3, <1>4, <1>5, <1>6, <1>7 DEF TypeOK

LEMMA Pointing == IInv => EntriesPointAtRecords
<1> SUFFICES ASSUME IInv,
                    NEW r \in {disk.rkds[n] : n \in DOMAIN disk.rkds} \cup
                              {c.rkd : c \in ToSet(mem.cache)}
             PROVE  Points(r.entries, disk.files)
  BY DEF EntriesPointAtRecords, Points
<1>1. CASE r \in {disk.rkds[n] : n \in DOMAIN disk.rkds}
  <2>1. r \in Blobs(disk.files)
    BY <1>1, DiskTables DEF IInv
  <2> QED
    BY <2>1 DEF Blobs
<1>2. CASE r \in {c.rkd : c \in ToSet(mem.cache)}
  <2>1. mem.cache \in Caches(disk.files)
    BY DEF IInv, Memories
  <2>2. PICK i \in DOMAIN mem.cache : r = mem.cache[i].rkd
    BY <1>2 DEF ToSet
  <2>3. r \in Rkds(disk.files)
    BY <2>1, <2>2, CacheFacts
  <2> QED
    BY <2>3, RkdFacts
<1> QED
  BY <1>1, <1>2

-----------------------------------------------------------------------------
(* The theorems.                                                             *)

\* The cache of ranges never holds more than it may and none twice, a range
\* in it is dirty only while inserts wait in it, and the list of ranges that
\* findRangeForKey searches stays sorted, through every eviction, split,
\* crash, recovery and open.
THEOREM TypeCorrect == Spec => []TypeOK
<1>1. Spec => []IInv
  BY InitKeeps, StepKeeps, PTL DEF Spec
<1> QED
  BY <1>1, Typed, PTL

\* Whatever splits, evictions, reloads and recoveries did, and at whichever
\* of its writes an operation died: an entry of barrel1 or of the cache leads
\* to a record of its key in barrel2, where get reads the value without
\* looking at the key.
THEOREM EntriesLeadToTheirRecords == Spec => []EntriesPointAtRecords
<1>1. Spec => []IInv
  BY InitKeeps, StepKeeps, PTL DEF Spec
<1> QED
  BY <1>1, Pointing, PTL

-----------------------------------------------------------------------------
(* What a sound HugeBarrel is.                                               *)

\* The bounds of a RangeKeyDir are those of its entries.
Hull(r) ==
  /\ \A k \in DOMAIN r.entries : r.min # 0 /\ r.min <= k /\ k <= r.max
  /\ r.max = 0 \/ r.min <= r.max

\* A range that has a name and holds its own lower bound; one that covers these entries.
Straight(b) == b.name # 0 /\ (b.min = NoKey \/ b.max = NoKey \/ b.min <= b.max)
Fits(b, e)  == \A k \in DOMAIN e : Covers(b, k)
Names(q)    == \A i, j \in DOMAIN q : q[i].name = q[j].name => i = j

\* What the cache holds, in any order.
Slots(h) == {h.mem.cache[i] : i \in DOMAIN h.mem.cache}

\* A range of barrel1 has its blob, and covers it; and whatever the cache has of it.
Kept(b, d)    == b.name \in DOMAIN d.rkds /\ Fits(b, d.rkds[b.name].entries)
Fitting(b, h) == Kept(b, h.disk) /\ \A c \in Slots(h) : c.name = b.name => Fits(b, c.rkd.entries)

\* A disk that an open can go on from: the list of ranges counts when no split is under way.
DiskOK(d) ==
  /\ 0 \notin DOMAIN d.rkds
  /\ \A n \in DOMAIN d.rkds : Hull(d.rkds[n])
  /\ d.split = <<>> => /\ Names(d.meta)
                       /\ \A i \in DOMAIN d.meta : Straight(d.meta[i]) /\ Kept(d.meta[i], d)

\* A cache over such a disk: what is not dirty is what the disk has, with the exception of x.
Coherent(h, x) ==
  \A c \in Slots(h) : /\ c.name \in DOMAIN h.disk.rkds
                      /\ Hull(c.rkd)
                      /\ c.name # x /\ ~c.rkd.dirty =>
                           c.rkd.entries = h.disk.rkds[c.name].entries

GoodBut(h, x) ==
  /\ DiskOK(h.disk)
  /\ \A i \in DOMAIN h.trace : DiskOK(h.trace[i])
  /\ h.mem.nextFileId # 0
  /\ Coherent(h, x)
  /\ h.disk.split = <<>> => \A i \in DOMAIN h.disk.meta : Fitting(h.disk.meta[i], h)
Good(h) == GoodBut(h, 0)

\* The entries of a range, wherever they are.
Entr(h, n) == Loaded(h, n).entries

\* g differs from h in the ranges X only.
Frame(h, g, X) ==
  /\ g.mem.ranges = h.mem.ranges /\ g.mem.nextFileId = h.mem.nextFileId /\ g.clash = h.clash
  /\ g.disk.meta = h.disk.meta /\ g.disk.split = h.disk.split
  /\ \A n : n \notin X => /\ n \in DOMAIN g.disk.rkds <=> n \in DOMAIN h.disk.rkds
                          /\ Entr(g, n) = Entr(h, n)
  /\ \A b : b.name \notin X /\ Fitting(b, h) => Fitting(b, g)

-----------------------------------------------------------------------------
(* The cache as a set.                                                       *)

LEMMA SlotFacts ==
  ASSUME NEW F, NEW files \in F, NEW h \in Work(F, files)
  PROVE  /\ h.mem.cache \in Caches(files)
         /\ \A c \in Slots(h) : c.name \in Nat /\ c.rkd \in Rkds(files)
         /\ \A c, d \in Slots(h) : c.name = d.name => c = d
         /\ \A n : Cached(h, n) <=> \E c \in Slots(h) : c.name = n
         /\ \A c \in Slots(h) : Cached(h, c.name) /\ CacheOf(h, c.name) = c.rkd
<1>1. h.mem.cache \in Caches(files)
  BY DEF Work, Memories
<1> DEFINE q == h.mem.cache
<1>2. /\ DOMAIN q = 1 .. Len(q)
      /\ \A i \in DOMAIN q : q[i].name \in Nat /\ q[i].rkd \in Rkds(files)
      /\ \A i, j \in DOMAIN q : q[i].name = q[j].name => i = j
  BY <1>1, CacheFacts
<1>3. \A n : Cached(h, n) <=> \E i \in DOMAIN q : q[i].name = n
  BY DEF Cached
<1>4. \A n : CacheOf(h, n) = (CHOOSE c \in ToSet(q) : c.name = n).rkd
  BY DEF CacheOf
<1>5. Slots(h) = {q[i] : i \in DOMAIN q} /\ ToSet(q) = Slots(h)
  BY DEF Slots, ToSet
<1> HIDE DEF q
<1>6. \A c, d \in Slots(h) : c.name = d.name => c = d
  BY <1>2, <1>5
<1>7. \A c \in Slots(h) : CacheOf(h, c.name) = c.rkd
  <2> SUFFICES ASSUME NEW c \in Slots(h)
               PROVE  (CHOOSE d \in Slots(h) : d.name = c.name).rkd = c.rkd
    BY <1>4, <1>5
  <2>1. (CHOOSE d \in Slots(h) : d.name = c.name) \in Slots(h)
        /\ (CHOOSE d \in Slots(h) : d.name = c.name).name = c.name
    OBVIOUS
  <2> QED
    BY <1>6, <2>1
<1> QED
  BY <1>1, <1>2, <1>3, <1>5, <1>6, <1>7

\* Where the entries of a range are.
LEMMA EntrIs ==
  ASSUME NEW F, NEW files \in F, NEW h \in Work(F, files), NEW n
  PROVE  /\ \A c \in Slots(h) : c.name = n => Loaded(h, n) = c.rkd
         /\ (\A c \in Slots(h) : c.name # n) /\ n \in DOMAIN h.disk.rkds =>
              Loaded(h, n) = Deserialized(h.disk.rkds[n])
         /\ (\A c \in Slots(h) : c.name # n) /\ n \notin DOMAIN h.disk.rkds =>
              Loaded(h, n) = NewRkd(NoKey, NoKey, 0)
BY SlotFacts DEF Loaded

LEMMA EntrWhere ==
  ASSUME NEW F, NEW files \in F, NEW h \in Work(F, files), NEW n
  PROVE  /\ \A c \in Slots(h) : c.name = n => Entr(h, n) = c.rkd.entries
         /\ (\A c \in Slots(h) : c.name # n) /\ n \in DOMAIN h.disk.rkds =>
              Entr(h, n) = h.disk.rkds[n].entries
         /\ (\A c \in Slots(h) : c.name # n) /\ n \notin DOMAIN h.disk.rkds => Entr(h, n) = <<>>
BY EntrIs DEF Entr, Deserialized, NewRkd

\* What an eviction takes out of the cache.
LEMMA EvictedIs ==
  ASSUME NEW F, NEW files \in F, NEW h \in Work(F, files)
  PROVE  LET g == Evicted(h) IN
         \/ g = h
         \/ \E c \in Slots(h) :
              /\ Slots(g) = Slots(h) \ {c}
              /\ g.mem.ranges = h.mem.ranges /\ g.mem.nextFileId = h.mem.nextFileId
              /\ g.clash = h.clash
              /\ \/ /\ c.rkd.dirty
                    /\ g.disk = [h.disk EXCEPT !.rkds = Put(h.disk.rkds, c.name, Serialized(c.rkd))]
                    /\ g.trace = Append(h.trace, g.disk)
                 \/ ~c.rkd.dirty /\ g.disk = h.disk /\ g.trace = h.trace
<1> DEFINE q == h.mem.cache
           t == [h EXCEPT !.mem.cache = Tail(q)]
           c == Head(q)
           A == [name : Nat, rkd : Rkds(files)]
<1>1. q \in Caches(files)
  BY SlotFacts
<1>2. Len(q) \in Nat /\ DOMAIN q = 1 .. Len(q) /\ q \in Seq(A)
      /\ \A i, j \in 1 .. Len(q) : q[i].name = q[j].name => i = j
  BY <1>1, CacheFacts
<1>3. Evicted(h) = IF Len(q) < RangeCacheSize THEN h
                   ELSE IF c.rkd.dirty THEN PutBlob(t, c.name, c.rkd) ELSE t
  BY DEF Evicted
<1>4. SUFFICES ASSUME ~(Len(q) < RangeCacheSize)
               PROVE  \E d \in Slots(h) :
                 LET g == Evicted(h) IN
                 /\ Slots(g) = Slots(h) \ {d}
                 /\ g.mem.ranges = h.mem.ranges /\ g.mem.nextFileId = h.mem.nextFileId
                 /\ g.clash = h.clash
                 /\ \/ /\ d.rkd.dirty
                       /\ g.disk = [h.disk EXCEPT !.rkds = Put(h.disk.rkds, d.name, Serialized(d.rkd))]
                       /\ g.trace = Append(h.trace, g.disk)
                    \/ ~d.rkd.dirty /\ g.disk = h.disk /\ g.trace = h.trace
  BY <1>3
<1>5. Len(q) >= 1
  <2>1. Len(q) \in Nat /\ ~(Len(q) < RangeCacheSize)
    BY <1>2, <1>4
  <2> HIDE DEF q
  <2> QED
    BY <2>1, BoundFacts
<1>6. Slots(h) = {q[i] : i \in 1 .. Len(q)}
  BY <1>2 DEF Slots
<1>7. t \in [mem : [isOpen : BOOLEAN, ranges : Ranges, cache : {Tail(q)}, nextFileId : Nat,
                    assignmentFile : Nat, assigned : Nat],
             disk : Disks(files), trace : Seq(DisksOf(F)), clash : BOOLEAN]
      /\ t.mem.ranges = h.mem.ranges /\ t.mem.nextFileId = h.mem.nextFileId /\ t.clash = h.clash
      /\ t.disk = h.disk /\ t.trace = h.trace
  BY DEF Work, Memories
<1> HIDE DEF q
<1>8. /\ c = q[1] /\ DOMAIN Tail(q) = 1 .. Len(q) - 1
      /\ \A i \in 1 .. Len(q) - 1 : Tail(q)[i] = q[i + 1]
  BY <1>2, <1>5
<1>9. {Tail(q)[i] : i \in DOMAIN Tail(q)} = {q[i] : i \in 1 .. Len(q)} \ {c}
  <2>1. ASSUME NEW i \in 1 .. Len(q) - 1
        PROVE  i + 1 \in 1 .. Len(q) /\ Tail(q)[i] = q[i + 1] /\ q[i + 1] # q[1]
    BY <1>2, <1>5, <1>8
  <2>2. ASSUME NEW i \in 1 .. Len(q), q[i] # q[1]
        PROVE  i - 1 \in 1 .. Len(q) - 1 /\ Tail(q)[i - 1] = q[i]
    <3>1. i # 1
      BY <2>2
    <3>2. i - 1 \in 1 .. Len(q) - 1 /\ (i - 1) + 1 = i
      BY <1>2, <3>1
    <3>3. Tail(q)[i - 1] = q[(i - 1) + 1]
      BY <1>8, <3>2
    <3> QED
      BY <3>2, <3>3
  <2>3. DOMAIN Tail(q) = 1 .. Len(q) - 1 /\ c = q[1]
    BY <1>8
  <2> HIDE DEF c
  <2>4. ASSUME NEW x \in {Tail(q)[i] : i \in 1 .. Len(q) - 1}
        PROVE  x \in {q[i] : i \in 1 .. Len(q)} /\ x # c
    BY <2>1, <2>3
  <2>5. ASSUME NEW x \in {q[i] : i \in 1 .. Len(q)}, x # c
        PROVE  x \in {Tail(q)[i] : i \in 1 .. Len(q) - 1}
    <3>1. PICK i \in 1 .. Len(q) : x = q[i]
      OBVIOUS
    <3>2. i - 1 \in 1 .. Len(q) - 1 /\ Tail(q)[i - 1] = x
      BY <2>2, <2>3, <2>5, <3>1
    <3> QED
      BY <3>2
  <2> QED
    BY <2>3, <2>4, <2>5
<1>10. c \in Slots(h)
  BY <1>2, <1>5, <1>6, <1>8
<1> HIDE DEF t, c
<1>11. t.mem.cache = Tail(q)
  BY <1>7
<1>12. CASE c.rkd.dirty
  <2>1. Evicted(h) = PutBlob(t, c.name, c.rkd)
    BY <1>3, <1>4, <1>12
  <2> DEFINE d == [t.disk EXCEPT !.rkds = Put(t.disk.rkds, c.name, Serialized(c.rkd))]
  <2>2. PutBlob(t, c.name, c.rkd) = [t EXCEPT !.disk = d, !.trace = Append(t.trace, d)]
    BY <1>7 DEF PutBlob, Write
  <2> HIDE DEF d
  <2>3. /\ Evicted(h).mem = t.mem /\ Evicted(h).disk = d /\ Evicted(h).clash = t.clash
        /\ Evicted(h).trace = Append(t.trace, d)
    BY <1>7, <2>1, <2>2
  <2>4. Slots(Evicted(h)) = Slots(h) \ {c}
    <3>1. Evicted(h).mem.cache = Tail(q)
      BY <1>11, <2>3
    <3>2. Slots(Evicted(h)) = {Tail(q)[i] : i \in DOMAIN Tail(q)}
      BY <3>1 DEF Slots
    <3> QED
      BY <1>6, <1>9, <3>2
  <2>5. d = [h.disk EXCEPT !.rkds = Put(h.disk.rkds, c.name, Serialized(c.rkd))]
    <3>1. t.disk = h.disk
      BY <1>7
    <3> QED
      BY <3>1 DEF d
  <2> QED
    BY <1>7, <1>10, <1>12, <2>3, <2>4, <2>5
<1>13. CASE ~c.rkd.dirty
  <2>1. Evicted(h) = t
    BY <1>3, <1>4, <1>13
  <2>2. Slots(Evicted(h)) = Slots(h) \ {c}
    BY <1>6, <1>9, <1>11, <2>1 DEF Slots
  <2> QED
    BY <1>7, <1>10, <1>13, <2>1, <2>2
<1> QED
  BY <1>12, <1>13

LEMMA CacheDelIs ==
  ASSUME NEW F, NEW files \in F, NEW h \in Work(F, files), NEW n
  PROVE  LET g == CacheDel(h, n) IN
         /\ Slots(g) = {c \in Slots(h) : c.name # n}
         /\ g.mem.ranges = h.mem.ranges /\ g.mem.nextFileId = h.mem.nextFileId
         /\ g.clash = h.clash /\ g.disk = h.disk /\ g.trace = h.trace
<1> DEFINE q == h.mem.cache
           I == {i \in DOMAIN q : q[i].name # n}
           a == At(q, I)
           g == CacheDel(h, n)
           A == [name : Nat, rkd : Rkds(files)]
<1>1. q \in Caches(files)
  BY SlotFacts
<1>2. Len(q) \in Nat /\ DOMAIN q = 1 .. Len(q) /\ q \in Seq(A)
  BY <1>1, CacheFacts
<1>3. /\ g.mem.cache = a /\ g.mem.ranges = h.mem.ranges
      /\ g.mem.nextFileId = h.mem.nextFileId
      /\ g.clash = h.clash /\ g.disk = h.disk /\ g.trace = h.trace
  BY DEF CacheDel, Without, Work, Memories
<1>4. Slots(h) = {q[i] : i \in DOMAIN q}
  BY DEF Slots
<1> HIDE DEF q, A, g
<1>5. I \in SUBSET (1 .. Len(q))
  BY <1>2
<1>6. a \in Seq(A) /\ \E p : Origins(p, a, q, I)
  BY <1>2, <1>5, AtSelects
<1> HIDE DEF a, I
<1>7. PICK p : Origins(p, a, q, I)
  BY <1>6
<1>8. DOMAIN a = 1 .. Len(a)
  BY <1>6
<1>9. {a[i] : i \in DOMAIN a} = {q[i] : i \in I}
  BY <1>7, <1>8 DEF Origins
<1>10. Slots(g) = {a[i] : i \in DOMAIN a}
  BY <1>3 DEF Slots
<1>11. {q[i] : i \in I} = {c \in {q[i] : i \in DOMAIN q} : c.name # n}
  BY DEF I
<1> QED
  BY <1>3, <1>4, <1>9, <1>10, <1>11 DEF g

-----------------------------------------------------------------------------
(* What the cache and its writes do to the entries.                          *)

DiskPut(d, n, b) == [d EXCEPT !.rkds = Put(d.rkds, n, b)]

LEMMA DiskPutOK ==
  ASSUME NEW files, NEW d \in Disks(files), DiskOK(d), NEW n \in Nat, n # 0,
         NEW b \in Blobs(files), Hull(b),
         d.split = <<>> =>
           \A i \in DOMAIN d.meta : d.meta[i].name = n => Fits(d.meta[i], b.entries)
  PROVE  LET e == DiskPut(d, n, b) IN
         /\ DiskOK(e)
         /\ e.meta = d.meta /\ e.split = d.split /\ e.files = d.files
         /\ DOMAIN e.rkds = DOMAIN d.rkds \cup {n} /\ e.rkds[n] = b
         /\ \A m \in DOMAIN d.rkds : m # n => e.rkds[m] = d.rkds[m]
<1> DEFINE e == DiskPut(d, n, b)
<1>1. /\ e.meta = d.meta /\ e.split = d.split /\ e.files = d.files
      /\ e.rkds = Put(d.rkds, n, b)
  BY DEF Disks, DiskPut
<1> HIDE DEF e
<1>2. /\ DOMAIN e.rkds = DOMAIN d.rkds \cup {n} /\ e.rkds[n] = b
      /\ \A m \in DOMAIN d.rkds : m # n => e.rkds[m] = d.rkds[m]
  BY <1>1 DEF Put
<1>3. 0 \notin DOMAIN e.rkds /\ \A m \in DOMAIN e.rkds : Hull(e.rkds[m])
  BY <1>2 DEF DiskOK
<1>4. ASSUME e.split = <<>>, NEW i \in DOMAIN e.meta
      PROVE  Straight(e.meta[i]) /\ Kept(e.meta[i], e)
  <2>1. Straight(d.meta[i]) /\ Kept(d.meta[i], d) /\ e.meta[i] = d.meta[i]
    BY <1>1, <1>4 DEF DiskOK
  <2>2. CASE e.meta[i].name = n
    BY <1>1, <1>2, <1>4, <2>1, <2>2 DEF Kept
  <2>3. CASE e.meta[i].name # n
    BY <1>2, <2>1, <2>3 DEF Kept
  <2> QED
    BY <2>1, <2>2, <2>3
<1> QED
  BY <1>1, <1>2, <1>3, <1>4 DEF DiskOK, e

LEMMA TraceOK ==
  ASSUME NEW A, NEW t \in Seq(A), \A i \in DOMAIN t : DiskOK(t[i]), NEW d, DiskOK(d)
  PROVE  \A i \in DOMAIN Append(t, d) : DiskOK(Append(t, d)[i])
<1>1. Len(t) \in Nat /\ DOMAIN t = 1 .. Len(t) /\ DOMAIN Append(t, d) = 1 .. Len(t) + 1
  OBVIOUS
<1>2. ASSUME NEW i \in 1 .. Len(t) + 1
      PROVE  Append(t, d)[i] = IF i = Len(t) + 1 THEN d ELSE t[i]
  BY <1>1
<1> QED
  BY <1>1, <1>2

LEMMA BlobHull ==
  ASSUME NEW r, Hull(r)
  PROVE  Hull(Serialized(r)) /\ Serialized(r).entries = r.entries
BY DEF Hull, Serialized

LEMMA LoadedHull ==
  ASSUME NEW b, Hull(b)
  PROVE  Hull(Deserialized(b)) /\ Deserialized(b).entries = b.entries
         /\ Deserialized(b).dirty = FALSE
BY DEF Hull, Deserialized

\* An eviction moves entries from the cache to the disk, or drops what is there.
LEMMA EvictedGood ==
  ASSUME NEW F, NEW files \in F, NEW h \in Work(F, files), Good(h)
  PROVE  LET g == Evicted(h) IN
         /\ Good(g) /\ Frame(h, g, {})
         /\ Slots(g) \subseteq Slots(h)
         /\ \A n : (\A c \in Slots(h) : c.name # n) /\ n \in DOMAIN h.disk.rkds =>
                     g.disk.rkds[n] = h.disk.rkds[n]
<1> DEFINE g == Evicted(h)
<1>1. g \in Work(F, files)
  BY EvictedKeeps
<1>2. CASE g = h
  BY <1>2 DEF Frame
<1>3. CASE g # h
  <2>1. PICK c \in Slots(h) :
              /\ Slots(g) = Slots(h) \ {c}
              /\ g.mem.ranges = h.mem.ranges /\ g.mem.nextFileId = h.mem.nextFileId
              /\ g.clash = h.clash
              /\ \/ /\ c.rkd.dirty
                    /\ g.disk = [h.disk EXCEPT !.rkds = Put(h.disk.rkds, c.name, Serialized(c.rkd))]
                    /\ g.trace = Append(h.trace, g.disk)
                 \/ ~c.rkd.dirty /\ g.disk = h.disk /\ g.trace = h.trace
    BY <1>3, EvictedIs
  <2> HIDE DEF g
  <2>2. /\ c.name \in Nat /\ c.rkd \in Rkds(files) /\ c.name \in DOMAIN h.disk.rkds
        /\ Hull(c.rkd) /\ c.name # 0
        /\ ~c.rkd.dirty => c.rkd.entries = h.disk.rkds[c.name].entries
    <3>1. c.name \in DOMAIN h.disk.rkds /\ Hull(c.rkd)
          /\ (c.name # 0 /\ ~c.rkd.dirty => c.rkd.entries = h.disk.rkds[c.name].entries)
          /\ 0 \notin DOMAIN h.disk.rkds
      BY DEF Good, GoodBut, Coherent, DiskOK
    <3> QED
      BY <3>1, SlotFacts
  <2>3. h.disk \in Disks(files) /\ h.trace \in Seq(DisksOf(F)) /\ DiskOK(h.disk)
    BY DEF Work, Good, GoodBut
  <2>4. h.disk.split = <<>> =>
          \A i \in DOMAIN h.disk.meta : h.disk.meta[i].name = c.name =>
            Fits(h.disk.meta[i], c.rkd.entries)
    BY DEF Good, GoodBut, Fitting
  <2>5. /\ DiskOK(g.disk)
        /\ g.disk.meta = h.disk.meta /\ g.disk.split = h.disk.split
        /\ g.disk.files = h.disk.files
        /\ DOMAIN g.disk.rkds = DOMAIN h.disk.rkds
        /\ g.disk.rkds[c.name].entries = c.rkd.entries
        /\ \A m \in DOMAIN h.disk.rkds : m # c.name => g.disk.rkds[m] = h.disk.rkds[m]
        /\ \A i \in DOMAIN g.trace : DiskOK(g.trace[i])
    <3>1. CASE c.rkd.dirty
      <4> DEFINE b == Serialized(c.rkd)
      <4>1. b \in Blobs(files) /\ Hull(b) /\ b.entries = c.rkd.entries
        BY <2>2, BlobOf, BlobHull
      <4>2. g.disk = [h.disk EXCEPT !.rkds = Put(h.disk.rkds, c.name, b)]
            /\ g.trace = Append(h.trace, g.disk)
        BY <2>1, <3>1
      <4> HIDE DEF b
      <4>5. h.disk.split = <<>> =>
              \A i \in DOMAIN h.disk.meta : h.disk.meta[i].name = c.name =>
                Fits(h.disk.meta[i], b.entries)
        BY <2>4, <4>1
      <4> DEFINE d == g.disk
                 e == h.disk
                 n == c.name
      <4>6. e \in Disks(files) /\ DiskOK(e) /\ n \in Nat /\ n # 0
            /\ d = DiskPut(e, n, b)
            /\ (e.split = <<>> =>
                 \A i \in DOMAIN e.meta : e.meta[i].name = n => Fits(e.meta[i], b.entries))
        BY <2>2, <2>3, <4>2, <4>5 DEF DiskPut
      <4> HIDE DEF d, e, n
      <4>7. /\ DiskOK(d)
            /\ d.meta = e.meta /\ d.split = e.split /\ d.files = e.files
            /\ DOMAIN d.rkds = DOMAIN e.rkds \cup {n} /\ d.rkds[n] = b
            /\ \A m \in DOMAIN e.rkds : m # n => d.rkds[m] = e.rkds[m]
        BY <4>1, <4>6, DiskPutOK
      <4>3. /\ DiskOK(g.disk)
            /\ g.disk.meta = h.disk.meta /\ g.disk.split = h.disk.split
            /\ g.disk.files = h.disk.files
            /\ DOMAIN g.disk.rkds = DOMAIN h.disk.rkds \cup {c.name} /\ g.disk.rkds[c.name] = b
            /\ \A m \in DOMAIN h.disk.rkds : m # c.name => g.disk.rkds[m] = h.disk.rkds[m]
        BY <4>7 DEF d, e, n
      <4>4. \A i \in DOMAIN g.trace : DiskOK(g.trace[i])
        <5> DEFINE A == DisksOf(F)
        <5>1. h.trace \in Seq(A) /\ \A i \in DOMAIN h.trace : DiskOK(h.trace[i])
          BY <2>3 DEF Good, GoodBut
        <5> HIDE DEF A
        <5> QED
          BY <4>2, <4>3, <5>1, TraceOK
      <4> QED
        BY <2>2, <4>1, <4>3, <4>4
    <3>2. CASE ~c.rkd.dirty
      <4>1. g.disk = h.disk /\ g.trace = h.trace
        BY <2>1, <3>2
      <4> QED
        BY <2>2, <2>3, <3>2, <4>1 DEF Good, GoodBut
    <3> QED
      BY <3>1, <3>2
  <2>6. \A d \in Slots(g) : d \in Slots(h) /\ d.name # c.name
    BY <2>1, SlotFacts
  <2>7. Coherent(g, 0)
    BY <2>5, <2>6 DEF Good, GoodBut, Coherent
  <2>8. ASSUME NEW b, Fitting(b, h)
        PROVE  Fitting(b, g)
    <3>1. Kept(b, g.disk)
      <4>1. CASE b.name = c.name
        BY <2>5, <2>8, <4>1 DEF Fitting, Kept
      <4>2. CASE b.name # c.name
        BY <2>5, <2>8, <4>2 DEF Fitting, Kept
      <4> QED
        BY <4>1, <4>2
    <3> QED
      BY <2>6, <2>8, <3>1 DEF Fitting
  <2>9. Good(g)
    BY <2>1, <2>5, <2>7, <2>8 DEF Good, GoodBut
  <2>10. ASSUME NEW n
         PROVE  Entr(g, n) = Entr(h, n)
    <3>1. CASE n = c.name
      <4>1. Entr(h, n) = c.rkd.entries
        BY <3>1, EntrWhere
      <4>2. Entr(g, n) = g.disk.rkds[n].entries
        BY <1>1, <2>2, <2>5, <2>6, <3>1, EntrWhere
      <4> QED
        BY <2>5, <3>1, <4>1, <4>2
    <3>2. CASE n # c.name
      <4>1. CASE \E d \in Slots(h) : d.name = n
        <5>1. PICK d \in Slots(h) : d.name = n
          BY <4>1
        <5>2. d \in Slots(g)
          BY <2>1, <3>2, <5>1
        <5> QED
          BY <1>1, <5>1, <5>2, EntrWhere
      <4>2. CASE ~\E d \in Slots(h) : d.name = n
        <5>1. \A d \in Slots(g) : d.name # n
          BY <2>6, <4>2
        <5> QED
          BY <1>1, <2>5, <3>2, <4>2, <5>1, EntrWhere
      <4> QED
        BY <4>1, <4>2
    <3> QED
      BY <3>1, <3>2
  <2>11. Frame(h, g, {})
    BY <2>1, <2>5, <2>8, <2>10 DEF Frame
  <2> QED
    BY <2>5, <2>6, <2>9, <2>11 DEF g
<1> QED
  BY <1>2, <1>3

\* The range n is no longer cached: what the disk has of it is all there is.
Dropped(h, g, n) ==
  /\ Good(g) /\ Frame(h, g, {n})
  /\ n \in DOMAIN h.disk.rkds => Entr(g, n) = h.disk.rkds[n].entries
  /\ \A b : Fitting(b, h) => Fitting(b, g)
  /\ g.disk = h.disk /\ g.trace = h.trace /\ \A c \in Slots(g) : c.name # n

LEMMA CacheDelGood ==
  ASSUME NEW F, NEW files \in F, NEW h \in Work(F, files), NEW n, GoodBut(h, n)
  PROVE  Dropped(h, CacheDel(h, n), n)
<1> DEFINE g == CacheDel(h, n)
<1>1. g \in Work(F, files)
  BY CacheDelKeeps
<1>2. /\ Slots(g) = {c \in Slots(h) : c.name # n}
      /\ g.mem.ranges = h.mem.ranges /\ g.mem.nextFileId = h.mem.nextFileId
      /\ g.clash = h.clash /\ g.disk = h.disk /\ g.trace = h.trace
  BY CacheDelIs
<1> HIDE DEF g
<1>3. \A b : Fitting(b, h) => Fitting(b, g)
  BY <1>2 DEF Fitting
<1>4. Good(g)
  <2>1. Coherent(g, 0)
    BY <1>2 DEF GoodBut, Coherent
  <2> QED
    BY <1>2, <1>3, <2>1 DEF Good, GoodBut
<1>5. \A c \in Slots(g) : c.name # n
  BY <1>2
<1>6. n \in DOMAIN h.disk.rkds => Entr(g, n) = h.disk.rkds[n].entries
  BY <1>1, <1>2, <1>5, EntrWhere
<1>7. ASSUME NEW m, m # n
      PROVE  Entr(g, m) = Entr(h, m)
  <2>1. CASE \E d \in Slots(h) : d.name = m
    <3>1. PICK d \in Slots(h) : d.name = m
      BY <2>1
    <3>2. d \in Slots(g)
      BY <1>2, <1>7, <3>1
    <3> QED
      BY <1>1, <3>1, <3>2, EntrWhere
  <2>2. CASE ~\E d \in Slots(h) : d.name = m
    <3>1. \A d \in Slots(g) : d.name # m
      BY <1>2, <2>2
    <3> QED
      BY <1>1, <1>2, <2>2, <3>1, EntrWhere
  <2> QED
    BY <2>1, <2>2
<1>8. Frame(h, g, {n})
  BY <1>2, <1>3, <1>7 DEF Frame
<1> QED
  BY <1>2, <1>3, <1>4, <1>5, <1>6, <1>8 DEF g, Dropped

AddSlot(h, x) == [h EXCEPT !.mem.cache = Append(h.mem.cache, x)]

LEMMA AddSlotIs ==
  ASSUME NEW F, NEW files \in F, NEW h \in Work(F, files), NEW x
  PROVE  LET g == AddSlot(h, x) IN
         /\ Slots(g) = Slots(h) \cup {x}
         /\ g.mem.ranges = h.mem.ranges /\ g.mem.nextFileId = h.mem.nextFileId
         /\ g.clash = h.clash /\ g.disk = h.disk /\ g.trace = h.trace
<1> DEFINE q == h.mem.cache
           g == AddSlot(h, x)
           A == [name : Nat, rkd : Rkds(files)]
           a == Append(q, x)
<1>1. q \in Caches(files)
  BY SlotFacts
<1>2. Len(q) \in Nat /\ DOMAIN q = 1 .. Len(q) /\ q \in Seq(A)
  BY <1>1, CacheFacts
<1>3. /\ g.mem.cache = a /\ g.mem.ranges = h.mem.ranges
      /\ g.mem.nextFileId = h.mem.nextFileId
      /\ g.clash = h.clash /\ g.disk = h.disk /\ g.trace = h.trace
  BY DEF Work, Memories, AddSlot
<1>4. Slots(h) = {q[i] : i \in DOMAIN q}
  BY DEF Slots
<1> HIDE DEF q, A, g
<1>5. DOMAIN a = 1 .. Len(q) + 1 /\ a[Len(q) + 1] = x /\ \A i \in 1 .. Len(q) : a[i] = q[i]
  BY <1>2
<1> HIDE DEF a
<1>6. {a[i] : i \in DOMAIN a} = {q[i] : i \in DOMAIN q} \cup {x}
  <2>1. ASSUME NEW i \in 1 .. Len(q) + 1
        PROVE  a[i] \in {q[j] : j \in DOMAIN q} \cup {x}
    <3>1. CASE i = Len(q) + 1
      BY <1>5, <3>1
    <3>2. CASE i # Len(q) + 1
      <4>1. i \in 1 .. Len(q)
        BY <1>2, <3>2
      <4> QED
        BY <1>2, <1>5, <4>1
    <3> QED
      BY <3>1, <3>2
  <2>2. ASSUME NEW i \in 1 .. Len(q)
        PROVE  i \in 1 .. Len(q) + 1 /\ a[i] = q[i]
    BY <1>2, <1>5
  <2>3. Len(q) + 1 \in 1 .. Len(q) + 1
    BY <1>2
  <2> QED
    BY <1>2, <1>5, <2>1, <2>2, <2>3
<1> QED
  BY <1>3, <1>4, <1>6 DEF Slots, g, q

\* A RangeKeyDir goes into the cache under its name, over what the disk has.
Puttable(h, n, r) ==
  /\ n \in DOMAIN h.disk.rkds /\ Hull(r)
  /\ ~r.dirty => r.entries = h.disk.rkds[n].entries
  /\ h.disk.split = <<>> =>
       \A i \in DOMAIN h.disk.meta : h.disk.meta[i].name = n => Fits(h.disk.meta[i], r.entries)

\* The range n has the entries e, and what covered it and covers them fits.
Holds(h, g, n, e) ==
  /\ Entr(g, n) = e /\ n \in DOMAIN g.disk.rkds
  /\ \A b : b.name = n /\ Kept(b, h.disk) /\ Fits(b, e) => Fitting(b, g)

\* Into a cache that has no such range, and has room.
LEMMA AddSlotGood ==
  ASSUME NEW F, NEW files \in F, NEW h \in Work(F, files), NEW n \in Nat, NEW r \in Rkds(files),
         Good(h), \A c \in Slots(h) : c.name # n, Puttable(h, n, r),
         NEW g, g = AddSlot(h, [name |-> n, rkd |-> r]),
         g \in Work(F, files)
  PROVE  Good(g) /\ Frame(h, g, {n}) /\ Holds(h, g, n, r.entries)
         /\ DOMAIN g.disk.rkds = DOMAIN h.disk.rkds
<1> DEFINE x == [name |-> n, rkd |-> r]
<1>1. /\ Slots(g) = Slots(h) \cup {x}
      /\ g.mem.ranges = h.mem.ranges /\ g.mem.nextFileId = h.mem.nextFileId
      /\ g.clash = h.clash /\ g.disk = h.disk /\ g.trace = h.trace
  BY AddSlotIs
<1>2. x.name = n /\ x.rkd = r
  OBVIOUS
<1> HIDE DEF x
<1>3. ASSUME NEW b, b.name # n, Fitting(b, h)
      PROVE  Fitting(b, g)
  BY <1>1, <1>2, <1>3 DEF Fitting
<1>4. ASSUME NEW b, b.name = n, Kept(b, h.disk), Fits(b, r.entries)
      PROVE  Fitting(b, g)
  BY <1>1, <1>2, <1>4 DEF Fitting
<1>5. ASSUME h.disk.split = <<>>, NEW i \in DOMAIN h.disk.meta
      PROVE  Fitting(h.disk.meta[i], g)
  <2>1. Fitting(h.disk.meta[i], h)
    BY <1>5 DEF Good, GoodBut
  <2>2. CASE h.disk.meta[i].name = n
    BY <1>4, <1>5, <2>1, <2>2 DEF Fitting, Puttable
  <2>3. CASE h.disk.meta[i].name # n
    BY <1>3, <2>1, <2>3
  <2> QED
    BY <2>2, <2>3
<1>6. Coherent(g, 0)
  <2> SUFFICES ASSUME NEW c \in Slots(g)
               PROVE  /\ c.name \in DOMAIN h.disk.rkds
                      /\ Hull(c.rkd)
                      /\ c.name # 0 /\ ~c.rkd.dirty =>
                           c.rkd.entries = h.disk.rkds[c.name].entries
    BY <1>1 DEF Coherent
  <2>1. CASE c = x
    BY <1>2, <2>1 DEF Puttable
  <2>2. CASE c \in Slots(h)
    BY <2>2 DEF Good, GoodBut, Coherent
  <2> QED
    BY <1>1, <2>1, <2>2
<1>7. Good(g)
  BY <1>1, <1>5, <1>6 DEF Good, GoodBut
<1>8. Entr(g, n) = r.entries
  <2>1. x \in Slots(g)
    BY <1>1
  <2> QED
    BY <1>2, <2>1, EntrWhere
<1>9. ASSUME NEW m, m # n
      PROVE  Entr(g, m) = Entr(h, m)
  <2>1. CASE \E d \in Slots(h) : d.name = m
    <3>1. PICK d \in Slots(h) : d.name = m
      BY <2>1
    <3>2. d \in Slots(g)
      BY <1>1
    <3> QED
      BY <3>1, <3>2, EntrWhere
  <2>2. CASE ~\E d \in Slots(h) : d.name = m
    <3>1. \A d \in Slots(g) : d.name # m
      BY <1>1, <1>2, <1>9, <2>2
    <3>2. \A d \in Slots(h) : d.name # m
      BY <2>2
    <3>3. g.disk.rkds = h.disk.rkds
      BY <1>1
    <3>4. CASE m \in DOMAIN h.disk.rkds
      BY <3>1, <3>2, <3>3, <3>4, EntrWhere
    <3>5. CASE m \notin DOMAIN h.disk.rkds
      BY <3>1, <3>2, <3>3, <3>5, EntrWhere
    <3> QED
      BY <3>4, <3>5
  <2> QED
    BY <2>1, <2>2
<1>10. Frame(h, g, {n})
  BY <1>1, <1>3, <1>9 DEF Frame
<1>11. n \in DOMAIN g.disk.rkds
  BY <1>1 DEF Puttable
<1> QED
  BY <1>1, <1>4, <1>7, <1>8, <1>10, <1>11 DEF Holds

LEMMA FrameThen ==
  ASSUME NEW h, NEW g, NEW f, NEW X, NEW Y, NEW Z, X \subseteq Z, Y \subseteq Z,
         Frame(h, g, X), Frame(g, f, Y)
  PROVE  Frame(h, f, Z)
<1>1. \A n : n \notin Z => n \notin X /\ n \notin Y
  OBVIOUS
<1>2. \A n : n \notin Z => /\ n \in DOMAIN f.disk.rkds <=> n \in DOMAIN h.disk.rkds
                           /\ Entr(f, n) = Entr(h, n)
  BY <1>1 DEF Frame
<1>3. \A b : b.name \notin Z /\ Fitting(b, h) => Fitting(b, f)
  BY <1>1 DEF Frame
<1>4. /\ f.mem.ranges = h.mem.ranges /\ f.mem.nextFileId = h.mem.nextFileId /\ f.clash = h.clash
      /\ f.disk.meta = h.disk.meta /\ f.disk.split = h.disk.split
  BY DEF Frame
<1> QED
  BY <1>2, <1>3, <1>4 DEF Frame

LEMMA CachePutGood ==
  ASSUME NEW F, NEW files \in F, NEW h \in Work(F, files), NEW n \in Nat, NEW r \in Rkds(files),
         GoodBut(h, n), Puttable(h, n, r)
  PROVE  LET g == CachePut(h, n, r) IN
         /\ Good(g) /\ Frame(h, g, {n}) /\ Holds(h, g, n, r.entries)
         /\ DOMAIN g.disk.rkds = DOMAIN h.disk.rkds
<1> DEFINE a == IF Cached(h, n) THEN CacheDel(h, n) ELSE Evicted(h)
           g == CachePut(h, n, r)
<1>1. a \in Work(F, files) /\ g \in Work(F, files)
  BY CacheDelKeeps, EvictedKeeps, CachePutKeeps
<1>2. g = AddSlot(a, [name |-> n, rkd |-> r])
  BY DEF CachePut, AddSlot
<1>3. /\ Good(a) /\ Frame(h, a, {n}) /\ (\A c \in Slots(a) : c.name # n)
      /\ n \in DOMAIN a.disk.rkds
      /\ a.disk.rkds[n] = h.disk.rkds[n] /\ DOMAIN a.disk.rkds = DOMAIN h.disk.rkds
      /\ a.disk.meta = h.disk.meta /\ a.disk.split = h.disk.split
  <2>1. CASE Cached(h, n)
    <3>1. a = CacheDel(h, n)
      BY <2>1
    <3> HIDE DEF a
    <3>2. Good(a) /\ Frame(h, a, {n}) /\ (\A c \in Slots(a) : c.name # n) /\ a.disk = h.disk
      BY <3>1, CacheDelGood DEF Dropped
    <3>3. n \in DOMAIN h.disk.rkds
      BY DEF Puttable
    <3> QED
      BY <3>2, <3>3
  <2>2. CASE ~Cached(h, n)
    <3>1. a = Evicted(h)
      BY <2>2
    <3>2. \A c \in Slots(h) : c.name # n
      BY <2>2, SlotFacts
    <3>3. Good(h)
      BY <3>2 DEF Good, GoodBut, Coherent, DiskOK
    <3> HIDE DEF a
    <3>4. /\ Good(a) /\ Frame(h, a, {}) /\ Slots(a) \subseteq Slots(h)
          /\ a.disk.rkds[n] = h.disk.rkds[n]
      BY <3>1, <3>2, <3>3, EvictedGood DEF Puttable
    <3>5. DOMAIN a.disk.rkds = DOMAIN h.disk.rkds
      <4>1. \A m : m \in DOMAIN a.disk.rkds <=> m \in DOMAIN h.disk.rkds
        BY <3>4 DEF Frame
      <4> QED
        BY <4>1
    <3>6. a.disk.meta = h.disk.meta /\ a.disk.split = h.disk.split
      BY <3>4 DEF Frame
    <3>7. Frame(h, a, {n})
      BY <3>4 DEF Frame
    <3> QED
      BY <3>2, <3>4, <3>5, <3>6, <3>7 DEF Puttable
  <2> QED
    BY <2>1, <2>2
<1> HIDE DEF a, g
<1>4. Puttable(a, n, r)
  BY <1>3 DEF Puttable
<1>5. Good(g) /\ Frame(a, g, {n}) /\ Holds(a, g, n, r.entries)
      /\ DOMAIN g.disk.rkds = DOMAIN a.disk.rkds
  BY <1>1, <1>2, <1>3, <1>4, AddSlotGood
<1>6. Frame(h, g, {n})
  BY <1>3, <1>5, FrameThen
<1>7. \A b : b.name = n /\ Kept(b, h.disk) => Kept(b, a.disk)
  BY <1>3 DEF Kept
<1>8. Holds(h, g, n, r.entries)
  BY <1>5, <1>7 DEF Holds
<1> QED
  BY <1>3, <1>5, <1>6, <1>8 DEF g

\* loadRangeKeyDir changes nothing that is read.
LEMMA LoadGood ==
  ASSUME NEW F, NEW files \in F, NEW h \in Work(F, files), NEW n \in Nat, Good(h)
  PROVE  Good(Load(h, n)) /\ Frame(h, Load(h, n), {}) /\ Hull(Loaded(h, n))
<1> DEFINE r == Loaded(h, n)
           g == CachePut(h, n, r)
<1>1. r \in Rkds(files)
  BY LoadedOf
<1>2. ASSUME NEW c \in Slots(h), c.name = n
      PROVE  r = c.rkd /\ Hull(r) /\ n \in DOMAIN h.disk.rkds /\ n # 0
             /\ (~r.dirty => r.entries = h.disk.rkds[n].entries)
  <2>1. r = c.rkd
    BY <1>2, EntrIs
  <2> QED
    BY <1>2, <2>1 DEF Good, GoodBut, Coherent, DiskOK
<1>3. ASSUME \A c \in Slots(h) : c.name # n, n \in DOMAIN h.disk.rkds
      PROVE  Hull(r) /\ r.entries = h.disk.rkds[n].entries
  <2>1. r = Deserialized(h.disk.rkds[n])
    BY <1>3, EntrIs
  <2>2. Hull(h.disk.rkds[n])
    BY <1>3 DEF Good, GoodBut, DiskOK
  <2> QED
    BY <2>1, <2>2, LoadedHull
<1>4. ASSUME \A c \in Slots(h) : c.name # n, n \notin DOMAIN h.disk.rkds
      PROVE  Hull(r) /\ Load(h, n) = h
  <2>1. r = NewRkd(NoKey, NoKey, 0)
    BY <1>4, EntrIs
  <2>2. Hull(r)
    BY <2>1 DEF NewRkd, Hull, NoKey
  <2>3. ~Cached(h, n)
    BY <1>4, SlotFacts
  <2> QED
    BY <1>4, <2>2, <2>3 DEF Load
<1>5. Hull(r)
  BY <1>2, <1>3, <1>4
<1>6. CASE n \in DOMAIN h.disk.rkds
  <2>1. Load(h, n) = g
    BY <1>6 DEF Load
  <2>2. ~r.dirty => r.entries = h.disk.rkds[n].entries
    BY <1>2, <1>3, <1>6
  <2>3. ASSUME NEW b, b.name = n, Fitting(b, h)
        PROVE  Fits(b, r.entries) /\ Kept(b, h.disk)
    <3>1. CASE \E c \in Slots(h) : c.name = n
      BY <1>2, <2>3, <3>1 DEF Fitting
    <3>2. CASE ~\E c \in Slots(h) : c.name = n
      BY <1>3, <1>6, <2>3, <3>2 DEF Fitting, Kept
    <3> QED
      BY <2>3, <3>1, <3>2 DEF Fitting
  <2>4. h.disk.split = <<>> =>
          \A i \in DOMAIN h.disk.meta : h.disk.meta[i].name = n => Fits(h.disk.meta[i], r.entries)
    BY <2>3 DEF Good, GoodBut
  <2>5. Entr(h, n) = r.entries
    BY DEF Entr
  <2> HIDE DEF r, g
  <2>6. Puttable(h, n, r)
    BY <1>5, <1>6, <2>2, <2>4 DEF Puttable
  <2>7. GoodBut(h, n)
    BY DEF Good, GoodBut, Coherent, DiskOK
  <2>8. Good(g) /\ Frame(h, g, {n}) /\ Holds(h, g, n, r.entries)
    BY <1>1, <2>6, <2>7, CachePutGood DEF g
  <2>9. Frame(h, g, {})
    <3>1. \A m : /\ m \in DOMAIN g.disk.rkds <=> m \in DOMAIN h.disk.rkds
                 /\ Entr(g, m) = Entr(h, m)
      BY <1>6, <2>5, <2>8 DEF Frame, Holds
    <3>2. \A b : Fitting(b, h) => Fitting(b, g)
      BY <2>3, <2>8 DEF Frame, Holds
    <3> QED
      BY <2>8, <3>1, <3>2 DEF Frame
  <2> QED
    BY <1>5, <2>1, <2>8, <2>9 DEF r
<1>7. CASE n \notin DOMAIN h.disk.rkds
  <2>1. \A c \in Slots(h) : c.name # n
    BY <1>7 DEF Good, GoodBut, Coherent
  <2>2. Load(h, n) = h
    BY <1>4, <1>7, <2>1
  <2> QED
    BY <1>5, <2>2 DEF Frame
<1> QED
  BY <1>6, <1>7

\* The range n may be saved with the RangeKeyDir r, and it is.
Savable(h, n, r) ==
  h.disk.split = <<>> =>
    \A i \in DOMAIN h.disk.meta : h.disk.meta[i].name = n => Fits(h.disk.meta[i], r.entries)
Saved(h, g, n, r) ==
  /\ Good(g) /\ Frame(h, g, {n}) /\ Entr(g, n) = r.entries
  /\ DOMAIN g.disk.rkds = DOMAIN h.disk.rkds \cup {n}
  /\ \A b : b.name = n /\ Fits(b, r.entries) => Fitting(b, g)

\* What saveRangeKeyDir writes is on the disk and in the cache.
LEMMA SaveGood ==
  ASSUME NEW F, NEW files \in F, NEW h \in Work(F, files), NEW n \in Nat, n # 0,
         NEW r \in Rkds(files), Good(h), Hull(r), Savable(h, n, r)
  PROVE  Saved(h, SaveRangeKeyDir(h, n, r), n, r)
<1> DEFINE a == PutBlob(h, n, r)
           d == DiskPut(h.disk, n, Serialized(r))
           s == [r EXCEPT !.dirty = FALSE]
           g == CachePut(a, n, s)
<1>1. a \in Work(F, files) /\ s \in Rkds(files) /\ Serialized(r) \in Blobs(files)
  BY PutBlobKeeps, CleanOf, BlobOf
<1>2. SaveRangeKeyDir(h, n, r) = g
  BY DEF SaveRangeKeyDir
<1>3. s.entries = r.entries /\ s.dirty = FALSE /\ Hull(s)
  <2>1. s.entries = r.entries /\ s.dirty = FALSE /\ s.min = r.min /\ s.max = r.max
    BY DEF Rkds
  <2> QED
    BY <2>1 DEF Hull
<1>4. Hull(Serialized(r)) /\ Serialized(r).entries = r.entries
  BY BlobHull
<1>5. h.disk \in Disks(files) /\ DiskOK(h.disk)
  BY DEF Work, Good, GoodBut
<1> HIDE DEF s
<1>6. /\ DiskOK(d)
      /\ d.meta = h.disk.meta /\ d.split = h.disk.split /\ d.files = h.disk.files
      /\ DOMAIN d.rkds = DOMAIN h.disk.rkds \cup {n} /\ d.rkds[n].entries = r.entries
      /\ \A m \in DOMAIN h.disk.rkds : m # n => d.rkds[m] = h.disk.rkds[m]
  BY <1>1, <1>4, <1>5, DiskPutOK DEF Savable
<1>7. /\ a.disk = d /\ a.mem = h.mem /\ a.clash = h.clash /\ a.trace = Append(h.trace, d)
  BY DEF PutBlob, Write, DiskPut, Work
<1> HIDE DEF a, d, g
<1>8. Slots(a) = Slots(h)
  BY <1>7 DEF Slots
<1>9. \A i \in DOMAIN a.trace : DiskOK(a.trace[i])
  <2> DEFINE A == DisksOf(F)
  <2>1. h.trace \in Seq(A) /\ \A i \in DOMAIN h.trace : DiskOK(h.trace[i])
    BY DEF Work, Good, GoodBut
  <2> HIDE DEF A
  <2> QED
    BY <1>6, <1>7, <2>1, TraceOK
<1>10. ASSUME NEW b, Fitting(b, h), b.name = n => Fits(b, r.entries)
       PROVE  Fitting(b, a)
  <2>1. Kept(b, d)
    <3>1. CASE b.name = n
      BY <1>6, <1>10, <3>1 DEF Kept
    <3>2. CASE b.name # n
      BY <1>6, <1>10, <3>2 DEF Kept, Fitting
    <3> QED
      BY <3>1, <3>2
  <2> QED
    BY <1>7, <1>8, <1>10, <2>1 DEF Fitting
<1>11. GoodBut(a, n)
  <2>1. Coherent(a, n)
    BY <1>6, <1>7, <1>8 DEF Coherent, Good, GoodBut, DiskOK
  <2>2. a.disk.split = <<>> => \A i \in DOMAIN a.disk.meta : Fitting(a.disk.meta[i], a)
    BY <1>6, <1>7, <1>10 DEF Good, GoodBut, Savable
  <2> QED
    BY <1>6, <1>7, <1>9, <2>1, <2>2 DEF Good, GoodBut
<1>12. Puttable(a, n, s)
  BY <1>3, <1>6, <1>7 DEF Puttable, Savable
<1>13. /\ Good(g) /\ Frame(a, g, {n}) /\ Holds(a, g, n, r.entries)
       /\ DOMAIN g.disk.rkds = DOMAIN a.disk.rkds
  BY <1>1, <1>3, <1>11, <1>12, CachePutGood DEF g
<1>14. ASSUME NEW m, m # n
       PROVE  Entr(a, m) = Entr(h, m)
  <2>1. CASE \E c \in Slots(h) : c.name = m
    BY <1>1, <1>8, <2>1, EntrWhere
  <2>2. CASE ~\E c \in Slots(h) : c.name = m
    BY <1>1, <1>6, <1>7, <1>8, <1>14, <2>2, EntrWhere
  <2> QED
    BY <2>1, <2>2
<1>15. Frame(h, a, {n})
  BY <1>6, <1>7, <1>10, <1>14 DEF Frame
<1>16. Frame(h, g, {n})
  BY <1>13, <1>15, FrameThen
<1>17. ASSUME NEW b, b.name = n, Fits(b, r.entries)
       PROVE  Fitting(b, g)
  <2>1. Kept(b, a.disk)
    BY <1>6, <1>7, <1>17 DEF Kept
  <2> QED
    BY <1>13, <1>17, <2>1 DEF Holds
<1> QED
  BY <1>2, <1>6, <1>7, <1>13, <1>16, <1>17 DEF Holds, Saved

-----------------------------------------------------------------------------
(* The list of ranges.                                                       *)

RangeSet(q) == {q[i] : i \in DOMAIN q}

LEMMA RangesFacts ==
  ASSUME NEW q \in Ranges
  PROVE  /\ q \in Seq(RangeRec) /\ Len(q) \in Nat /\ DOMAIN q = 1 .. Len(q)
         /\ \A i \in 1 .. Len(q) : /\ q[i] \in RangeRec /\ q[i].min \in Nat
                                   /\ q[i].max \in Nat /\ q[i].name \in Nat
         /\ \A i, j \in 1 .. Len(q) : i <= j => q[i].min <= q[j].min
<1>1. q \in Seq(RangeRec) /\ \A i, j \in 1 .. Len(q) : i <= j => q[i].min <= q[j].min
  BY DEF Ranges
<1>2. Len(q) \in Nat /\ DOMAIN q = 1 .. Len(q) /\ \A i \in 1 .. Len(q) : q[i] \in RangeRec
  BY <1>1
<1> QED
  BY <1>1, <1>2 DEF RangeRec

\* The search comes to a range that covers the key when every other range that it may look at
\* sends it towards this one, or is as good.  The last range is looked at only when no other
\* is left.
LEMMA SearchMeets ==
  ASSUME NEW q \in Ranges, NEW k \in Key, NEW x \in DOMAIN q, NEW T,
         Covers(q[x], k),
         \A c \in DOMAIN q : Covers(q[c], k) => q[c].name \in T,
         \A c \in DOMAIN q : ~Covers(q[c], k) /\ c < x => k >= q[c].min,
         \A c \in DOMAIN q : ~Covers(q[c], k) /\ x < c => ~(k >= q[c].min) \/ c = Len(q)
  PROVE  FindRange(q, k) \in T
<1> DEFINE n == Len(q)
<1>1. q \in Seq(RangeRec) /\ n \in Nat /\ DOMAIN q = 1 .. n /\ x \in 1 .. n
  BY RangesFacts
<1>2. PICK f : Searches(f, q, k, n) /\ FindRange(q, k) = f[<<1, n>>]
  BY <1>1, FindRangeSearches
<1>3. ASSUME NEW c \in 1 .. n
      PROVE  /\ Covers(q[c], k) => q[c].name \in T
             /\ ~Covers(q[c], k) /\ c < x => k >= q[c].min
             /\ ~Covers(q[c], k) /\ x < c => ~(k >= q[c].min) \/ c = n
  <2>1. c \in DOMAIN q
    BY <1>1
  <2> QED
    BY <2>1
<1> HIDE DEF n
<1> DEFINE Bad == {m \in Nat : \E lo \in 1 .. n + 1, hi \in 0 .. n :
                     /\ lo <= x /\ x <= hi /\ hi + 1 - lo < m
                     /\ f[<<lo, hi>>] \notin T}
<1>4. Bad = {}
  <2> SUFFICES ASSUME Bad # {} PROVE FALSE
    OBVIOUS
  <2>1. PICK m \in Bad : \A j \in Bad : m <= j
    BY Least
  <2>2. PICK lo \in 1 .. n + 1, hi \in 0 .. n :
          lo <= x /\ x <= hi /\ hi + 1 - lo < m /\ f[<<lo, hi>>] \notin T
    BY <2>1
  <2> DEFINE c == (lo + hi) \div 2
  <2>3. f[<<lo, hi>>] = IF lo > hi THEN 0
                    ELSE IF Covers(q[c], k) THEN q[c].name
                    ELSE IF k >= q[c].min THEN f[<<c + 1, hi>>] ELSE f[<<lo, c - 1>>]
    <3>1. <<lo, hi>> \in (1 .. n + 1) \X (0 .. n)
      BY <2>2
    <3> QED
      BY <1>2, <3>1 DEF Searches
  <2>4. lo <= hi /\ lo \in Nat /\ hi \in Nat
    BY <1>1, <2>2
  <2>5. c \in lo .. hi /\ c \in 1 .. n /\ (c = n => lo = n)
    <3>1. c \in lo .. hi
      BY <2>4, Halfway
    <3>2. 2 * c <= lo + hi
      BY <2>4
    <3> HIDE DEF c
    <3>3. c \in Nat /\ lo <= c /\ c <= hi /\ hi <= n
      BY <2>2, <2>4, <3>1
    <3> QED
      BY <1>1, <2>2, <2>4, <3>2, <3>3
  <2> HIDE DEF c
  <2>6. ~Covers(q[c], k)
    BY <1>3, <2>2, <2>3, <2>4, <2>5
  <2>7. c # x
    BY <2>6
  <2>8. m \in Nat /\ m - 1 \notin Bad
    <3>1. m \in Nat
      BY <2>1
    <3> HIDE DEF Bad
    <3> QED
      BY <2>1, <3>1
  <2>9. m - 1 \in Nat
    BY <2>2, <2>4, <2>8
  <2>10. \A a \in 1 .. n + 1, b \in 0 .. n :
           a <= x /\ x <= b /\ b + 1 - a < m - 1 => f[<<a, b>>] \in T
    BY <2>8, <2>9
  <2> HIDE DEF Bad
  <2>11. CASE c < x
    <3>0. x \in Nat /\ c \in Nat /\ lo <= c /\ c <= n
      BY <1>1, <2>4, <2>5
    <3>1. c + 1 \in 1 .. n + 1 /\ c + 1 <= x /\ hi + 1 - (c + 1) < m - 1
      BY <1>1, <2>2, <2>4, <2>8, <2>11, <3>0
    <3>2. f[<<c + 1, hi>>] \in T
      BY <2>2, <2>10, <3>1
    <3>3. k >= q[c].min
      BY <1>3, <2>5, <2>6, <2>11
    <3> QED
      BY <2>2, <2>3, <2>4, <2>6, <3>2, <3>3
  <2>12. CASE x < c
    <3>0. x \in Nat /\ c \in Nat /\ c <= hi /\ c <= n
      BY <1>1, <2>4, <2>5
    <3>1. c - 1 \in 0 .. n /\ x <= c - 1 /\ (c - 1) + 1 - lo < m - 1
      BY <1>1, <2>2, <2>4, <2>8, <2>12, <3>0
    <3>2. f[<<lo, c - 1>>] \in T
      BY <2>2, <2>10, <3>1
    <3>3. c # n
      BY <1>1, <2>2, <2>5, <2>12
    <3>4. ~(k >= q[c].min)
      BY <1>3, <2>5, <2>6, <2>12, <3>3
    <3> QED
      BY <2>2, <2>3, <2>4, <2>6, <3>2, <3>4
  <2> QED
    BY <1>1, <2>5, <2>7, <2>11, <2>12
<1>5. n + 1 \in Nat /\ 1 \in 1 .. n + 1 /\ n \in 0 .. n /\ 1 <= x /\ x <= n /\ n + 1 - 1 < n + 1
  BY <1>1
<1>6. ASSUME NEW lo \in 1 .. n + 1, NEW hi \in 0 .. n,
             lo <= x, x <= hi, hi + 1 - lo < n + 1, f[<<lo, hi>>] \notin T
      PROVE  n + 1 \in Bad
  BY <1>5, <1>6
<1> HIDE DEF Bad
<1>7. f[<<1, n>>] \in T
  <2>1. ~(f[<<1, n>>] \notin T)
    BY <1>4, <1>5, <1>6
  <2> QED
    BY <2>1
<1> QED
  BY <1>2, <1>7

\* Where no two ranges overlap, the search finds the one that covers the key.
LEMMA FindsCovering ==
  ASSUME NEW q \in Ranges, \A r \in RangeSet(q) : Straight(r), ~Overlap(q),
         NEW k \in Key, NEW r \in RangeSet(q), Covers(r, k)
  PROVE  FindRange(q, k) = r.name
<1> DEFINE n == Len(q)
<1>1. /\ q \in Seq(RangeRec) /\ n \in Nat /\ DOMAIN q = 1 .. n
      /\ \A i \in 1 .. n : q[i] \in RangeRec /\ q[i].min \in Nat /\ q[i].max \in Nat
      /\ \A i, j \in 1 .. n : i <= j => q[i].min <= q[j].min
  BY RangesFacts
<1> HIDE DEF n
<1>3. PICK x \in 1 .. n : q[x] = r
  BY <1>1 DEF RangeSet
<1>4. ASSUME NEW i \in 1 .. n, NEW j \in 1 .. n, NEW y \in Key, Covers(q[i], y), Covers(q[j], y)
      PROVE  i = j
  <2>1. i \in DOMAIN q /\ j \in DOMAIN q
    BY <1>1
  <2>2. ~(i < j) /\ ~(j < i)
    BY <1>4, <2>1 DEF Overlap
  <2> QED
    BY <1>1, <2>2
<1>5. k \in Nat /\ k # 0 /\ k <= MaxKey /\ MaxKey \in Nat
  BY BoundFacts DEF Key
\* a range that does not cover the key is on the other side of it
<1>6. ASSUME NEW c \in 1 .. n, ~Covers(q[c], k)
      PROVE  /\ k >= q[c].min => c < x
             /\ ~(k >= q[c].min) => x < c
  <2>1. c # x
    BY <1>3, <1>6
  <2>2. q[c].min \in Nat /\ q[c].max \in Nat /\ r.min \in Nat /\ r.max \in Nat
    BY <1>1, <1>3
  <2>3. Straight(q[c])
    BY <1>1 DEF RangeSet
  <2>4. ASSUME k >= q[c].min, x < c
        PROVE  FALSE
    <3> DEFINE y == q[c].min
    <3>1. y # 0 /\ q[c].max # 0 /\ q[c].max < k /\ y <= q[c].max
      BY <1>5, <1>6, <2>2, <2>3, <2>4 DEF Covers, Straight, NoKey
    <3>2. y \in Key /\ Covers(q[c], y)
      BY <1>5, <2>2, <2>4, <3>1 DEF Covers, Key
    <3>3. r.min <= y
      BY <1>1, <1>3, <2>4
    <3>4. Covers(r, y)
      BY <1>5, <2>2, <2>4, <3>3 DEF Covers
    <3> QED
      BY <1>3, <1>4, <2>1, <3>2, <3>4
  <2>5. ASSUME ~(k >= q[c].min), c < x
        PROVE  FALSE
    <3>1. q[c].min <= r.min
      BY <1>1, <1>3, <2>5
    <3> QED
      BY <1>5, <2>2, <2>5, <3>1 DEF Covers, NoKey
  <2> QED
    BY <1>1, <2>1, <2>4, <2>5
<1>7. \A c \in DOMAIN q : Covers(q[c], k) => q[c].name \in {r.name}
  BY <1>1, <1>3, <1>4
<1>8. /\ \A c \in DOMAIN q : ~Covers(q[c], k) /\ c < x => k >= q[c].min
      /\ \A c \in DOMAIN q : ~Covers(q[c], k) /\ x < c => ~(k >= q[c].min)
  BY <1>1, <1>3, <1>6
<1>9. x \in DOMAIN q /\ Covers(q[x], k)
  BY <1>1, <1>3
<1>10. FindRange(q, k) \in {r.name}
  BY <1>7, <1>8, <1>9, SearchMeets
<1> QED
  BY <1>10

\* What the search finds is one of the ranges, and covers the key.
LEMMA FindsOne ==
  ASSUME NEW q \in Ranges, NEW k, FindRange(q, k) # 0
  PROVE  \E r \in RangeSet(q) : r.name = FindRange(q, k) /\ Covers(r, k)
<1>1. q \in Seq(RangeRec) /\ DOMAIN q = 1 .. Len(q)
  BY RangesFacts
<1>2. PICK i \in 1 .. Len(q) : FindRange(q, k) = q[i].name /\ Covers(q[i], k)
  BY <1>1, FindRangeFinds
<1> QED
  BY <1>1, <1>2 DEF RangeSet

LEMMA NamedOnce ==
  ASSUME NEW q, Names(q), NEW r \in RangeSet(q), NEW s \in RangeSet(q), r.name = s.name
  PROVE  r = s
BY DEF Names, RangeSet

\* A selection of a list.
LEMMA SelectionIs ==
  ASSUME NEW q \in Ranges, NEW I \in SUBSET (DOMAIN q)
  PROVE  /\ RangeSet(At(q, I)) = {q[i] : i \in I}
         /\ Names(q) => Names(At(q, I))
<1> DEFINE a == At(q, I)
<1>1. q \in Seq(RangeRec) /\ DOMAIN q = 1 .. Len(q) /\ I \in SUBSET (1 .. Len(q))
  BY RangesFacts
<1>2. a \in Seq(RangeRec) /\ \E p : Origins(p, a, q, I)
  BY <1>1, AtSelects
<1> HIDE DEF a
<1>3. PICK p \in [1 .. Len(a) -> I] :
           /\ \A i, j \in 1 .. Len(a) : i < j => p[i] < p[j]
           /\ \A i \in 1 .. Len(a) : a[i] = q[p[i]]
           /\ \A x \in I : \E i \in 1 .. Len(a) : p[i] = x
  BY <1>2 DEF Origins
<1>4. DOMAIN a = 1 .. Len(a) /\ Len(a) \in Nat
  BY <1>2
<1>5. RangeSet(a) = {q[i] : i \in I}
  BY <1>3, <1>4 DEF RangeSet
<1>6. ASSUME Names(q), NEW i \in 1 .. Len(a), NEW j \in 1 .. Len(a), a[i].name = a[j].name
      PROVE  i = j
  <2>1. p[i] = p[j]
    BY <1>1, <1>3, <1>6 DEF Names
  <2>2. p[i] \in Nat /\ p[j] \in Nat
    BY <1>1, <1>3
  <2> QED
    BY <1>3, <1>4, <2>1, <2>2
<1> QED
  BY <1>4, <1>5, <1>6 DEF Names, a

LEMMA WithoutIs ==
  ASSUME NEW q \in Ranges, NEW name
  PROVE  /\ RangeSet(Without(q, name)) = {r \in RangeSet(q) : r.name # name}
         /\ Names(q) => Names(Without(q, name))
<1> DEFINE I == {i \in DOMAIN q : q[i].name # name}
<1>1. I \in SUBSET (DOMAIN q) /\ Without(q, name) = At(q, I)
  BY DEF Without
<1>2. {q[i] : i \in I} = {r \in RangeSet(q) : r.name # name}
  BY DEF RangeSet
<1> HIDE DEF I
<1> QED
  BY <1>1, <1>2, SelectionIs

LEMMA WithRangeIs ==
  ASSUME NEW q \in Ranges, NEW r \in RangeRec
  PROVE  /\ RangeSet(WithRange(q, r)) = RangeSet(q) \cup {r}
         /\ Names(q) /\ (\A s \in RangeSet(q) : s.name # r.name) => Names(WithRange(q, r))
<1> DEFINE I == {i \in DOMAIN q : q[i].min <= r.min}
           J == {i \in DOMAIN q : q[i].min > r.min}
           a == At(q, I)
           b == At(q, J)
           w == (a \o <<r>>) \o b
<1>1. WithRange(q, r) = w
  BY DEF WithRange
<1>2. DOMAIN q = 1 .. Len(q) /\ \A i \in 1 .. Len(q) : q[i].min \in Nat
  BY RangesFacts
<1>3. r.min \in Nat
  BY DEF RangeRec
<1>4. I \in SUBSET (DOMAIN q) /\ J \in SUBSET (DOMAIN q) /\ I \cup J = DOMAIN q /\ I \cap J = {}
  BY <1>2, <1>3
<1> HIDE DEF I, J
<1>5. a \in Ranges /\ b \in Ranges
  BY <1>4, RangesAt
<1>6. /\ RangeSet(a) = {q[i] : i \in I} /\ RangeSet(b) = {q[i] : i \in J}
      /\ Names(q) => Names(a) /\ Names(b)
  BY <1>4, SelectionIs
<1>7. /\ a \in Seq(RangeRec) /\ b \in Seq(RangeRec)
      /\ Len(a) \in Nat /\ Len(b) \in Nat /\ DOMAIN a = 1 .. Len(a) /\ DOMAIN b = 1 .. Len(b)
  BY <1>5, RangesFacts
<1> DEFINE la == Len(a)
           lb == Len(b)
<1> HIDE DEF a, b
<1>8. /\ DOMAIN w = 1 .. la + 1 + lb
      /\ \A i \in 1 .. la : w[i] = a[i]
      /\ w[la + 1] = r
      /\ \A i \in 1 .. lb : w[la + 1 + i] = b[i]
  BY <1>7
<1> HIDE DEF w
<1>9. ASSUME NEW i \in 1 .. la + 1 + lb
      PROVE  \/ i \in 1 .. la
             \/ i = la + 1
             \/ \E j \in 1 .. lb : i = la + 1 + j
  <2>1. CASE i > la + 1
    <3>1. i - (la + 1) \in 1 .. lb /\ i = la + 1 + (i - (la + 1))
      BY <1>7, <2>1
    <3> QED
      BY <3>1
  <2>2. CASE ~(i > la + 1)
    BY <1>7, <2>2
  <2> QED
    BY <2>1, <2>2
<1>10. RangeSet(w) = (RangeSet(a) \cup {r}) \cup RangeSet(b)
  <2>1. ASSUME NEW i \in DOMAIN w
        PROVE  w[i] \in (RangeSet(a) \cup {r}) \cup RangeSet(b)
    <3>1. CASE i \in 1 .. la
      <4>1. w[i] = a[i] /\ a[i] \in RangeSet(a)
        BY <1>7, <1>8, <3>1 DEF RangeSet
      <4> QED
        BY <4>1
    <3>2. CASE i = la + 1
      BY <1>8, <3>2
    <3>3. ASSUME NEW j \in 1 .. lb, i = la + 1 + j
          PROVE  w[i] \in RangeSet(b)
      BY <1>7, <1>8, <3>3 DEF RangeSet
    <3>4. i \in 1 .. la + 1 + lb
      BY <1>8
    <3> QED
      BY <1>9, <3>1, <3>2, <3>3, <3>4
  <2>2. ASSUME NEW s \in RangeSet(a)
        PROVE  \E i \in DOMAIN w : w[i] = s
    <3>1. PICK i \in 1 .. la : a[i] = s
      BY <1>7 DEF RangeSet
    <3>2. i \in DOMAIN w
      BY <1>7, <1>8
    <3> QED
      BY <1>8, <3>1, <3>2
  <2>3. ASSUME NEW s \in RangeSet(b)
        PROVE  \E i \in DOMAIN w : w[i] = s
    <3>1. PICK i \in 1 .. lb : b[i] = s
      BY <1>7 DEF RangeSet
    <3>2. la + 1 + i \in DOMAIN w
      BY <1>7, <1>8
    <3> QED
      BY <1>8, <3>1, <3>2
  <2>4. la + 1 \in DOMAIN w
    BY <1>7, <1>8
  <2>5. RangeSet(w) = {w[i] : i \in DOMAIN w}
    BY DEF RangeSet
  <2> QED
    BY <1>8, <2>1, <2>2, <2>3, <2>4, <2>5
<1>11. RangeSet(w) = RangeSet(q) \cup {r}
  <2>1. RangeSet(q) = {q[i] : i \in I} \cup {q[i] : i \in J}
    BY <1>4 DEF RangeSet
  <2> QED
    BY <1>6, <1>10, <2>1
<1>12. ASSUME Names(q), \A s \in RangeSet(q) : s.name # r.name
       PROVE  Names(w)
  <2>1. ASSUME NEW i \in 1 .. la
        PROVE  a[i].name # r.name
    <3>1. a[i] \in RangeSet(a)
      BY <1>7 DEF RangeSet
    <3>2. a[i] \in RangeSet(q)
      <4>1. PICK x \in I : a[i] = q[x]
        BY <1>6, <3>1
      <4> QED
        BY <1>4, <4>1 DEF RangeSet
    <3> QED
      BY <1>12, <3>2
  <2>2. ASSUME NEW i \in 1 .. lb
        PROVE  b[i].name # r.name
    <3>1. b[i] \in RangeSet(b)
      BY <1>7 DEF RangeSet
    <3>2. b[i] \in RangeSet(q)
      BY <1>4, <1>6, <3>1 DEF RangeSet
    <3> QED
      BY <1>12, <3>2
  <2>3. ASSUME NEW i \in 1 .. la, NEW j \in 1 .. lb
        PROVE  a[i].name # b[j].name
    <3>1. a[i] \in RangeSet(a) /\ b[j] \in RangeSet(b)
      BY <1>7 DEF RangeSet
    <3>2. PICK x \in I : a[i] = q[x]
      BY <1>6, <3>1
    <3>3. PICK y \in J : b[j] = q[y]
      BY <1>6, <3>1
    <3>4. x # y
      BY <1>4
    <3> QED
      BY <1>4, <1>12, <3>2, <3>3, <3>4 DEF Names
  <2>4. \A i, j \in 1 .. la : a[i].name = a[j].name => i = j
    BY <1>6, <1>7, <1>12 DEF Names
  <2>5. \A i, j \in 1 .. lb : b[i].name = b[j].name => i = j
    BY <1>6, <1>7, <1>12 DEF Names
  <2> SUFFICES ASSUME NEW i \in 1 .. la + 1 + lb, NEW j \in 1 .. la + 1 + lb, w[i].name = w[j].name
               PROVE  i = j
    BY <1>8 DEF Names
  <2>6. CASE i \in 1 .. la
    <3>1. w[i] = a[i]
      BY <1>8, <2>6
    <3>2. ~(j = la + 1)
      BY <1>8, <2>1, <2>6, <3>1
    <3>3. ASSUME NEW y \in 1 .. lb, j = la + 1 + y
          PROVE  FALSE
      <4>1. w[j] = b[y]
        BY <1>8, <3>3
      <4> QED
        BY <2>3, <2>6, <3>1, <4>1
    <3>4. j \in 1 .. la
      BY <1>9, <3>2, <3>3
    <3>5. w[j] = a[j]
      BY <1>8, <3>4
    <3> QED
      BY <2>4, <2>6, <3>1, <3>4, <3>5
  <2>7. CASE i = la + 1
    <3>1. ~(j \in 1 .. la)
      BY <1>8, <2>1, <2>7
    <3>2. ASSUME NEW y \in 1 .. lb, j = la + 1 + y
          PROVE  FALSE
      <4>1. w[j] = b[y]
        BY <1>8, <3>2
      <4> QED
        BY <1>8, <2>2, <2>7, <4>1
    <3> QED
      BY <1>9, <2>7, <3>1, <3>2
  <2>8. ASSUME NEW x \in 1 .. lb, i = la + 1 + x
        PROVE  i = j
    <3>1. w[i] = b[x]
      BY <1>8, <2>8
    <3>2. ~(j \in 1 .. la)
      <4> SUFFICES ASSUME j \in 1 .. la PROVE FALSE
        OBVIOUS
      <4>1. w[j] = a[j]
        BY <1>8
      <4> QED
        BY <2>3, <3>1, <4>1
    <3>3. ~(j = la + 1)
      BY <1>8, <2>2, <3>1
    <3>4. PICK y \in 1 .. lb : j = la + 1 + y
      BY <1>9, <3>2, <3>3
    <3>5. w[j] = b[y]
      BY <1>8, <3>4
    <3>6. x = y
      BY <2>5, <3>1, <3>5
    <3> QED
      BY <2>8, <3>4, <3>6
  <2> QED
    BY <1>9, <2>6, <2>7, <2>8
<1> QED
  BY <1>1, <1>11, <1>12

-----------------------------------------------------------------------------
(* RangeKeyDirs.                                                             *)

LEMMA NewRkdHull ==
  ASSUME NEW min, NEW file
  PROVE  /\ Hull(NewRkd(min, NoKey, file))
         /\ NewRkd(min, NoKey, file).entries = <<>> /\ NewRkd(min, NoKey, file).dirty = FALSE
BY DEF Hull, NewRkd, NoKey

LEMMA InsertedHull ==
  ASSUME NEW files, NEW r \in Rkds(files), Hull(r), NEW k \in Key, NEW v
  PROVE  /\ Hull(Inserted(r, k, v))
         /\ Inserted(r, k, v).entries = Put(r.entries, k, v)
         /\ Inserted(r, k, v).dirty = TRUE
<1> DEFINE s == Inserted(r, k, v)
<1>1. /\ s.entries = Put(r.entries, k, v) /\ s.dirty = TRUE
      /\ s.min = IF r.min = NoKey \/ k < r.min THEN k ELSE r.min
      /\ s.max = IF r.max = NoKey \/ k > r.max THEN k ELSE r.max
  BY DEF Inserted, Rkds
<1>2. r.min \in Nat /\ r.max \in Nat /\ k \in Nat /\ k # 0 /\ DOMAIN r.entries \in SUBSET Nat
  BY RkdFacts, KeyFacts
<1> HIDE DEF s
<1>3. ASSUME NEW j \in DOMAIN s.entries
      PROVE  s.min # 0 /\ s.min <= j /\ j <= s.max
  <2>1. j = k \/ j \in DOMAIN r.entries
    BY <1>1, <1>3 DEF Put
  <2>2. CASE j = k
    BY <1>1, <1>2, <2>2 DEF NoKey
  <2>3. CASE j \in DOMAIN r.entries
    <3>1. r.min # 0 /\ r.min <= j /\ j <= r.max /\ j \in Nat
      BY <1>2, <2>3 DEF Hull
    <3> QED
      BY <1>1, <1>2, <3>1 DEF NoKey
  <2> QED
    BY <2>1, <2>2, <2>3
<1>4. s.max = 0 \/ s.min <= s.max
  BY <1>1, <1>2 DEF NoKey, Hull
<1> QED
  BY <1>1, <1>3, <1>4 DEF Hull, s

LEMMA FlushedHull ==
  ASSUME NEW files, NEW r \in Rkds(files), Hull(r)
  PROVE  Hull(Flushed(r)) /\ Flushed(r).entries = r.entries
<1>1. /\ Flushed(r).entries = r.entries
      /\ Flushed(r).min = r.min /\ Flushed(r).max = r.max
  BY DEF Flushed, Rkds
<1> QED
  BY <1>1 DEF Hull

LEMMA PartHull ==
  ASSUME NEW files, NEW r \in Rkds(files), NEW K \in SUBSET (DOMAIN r.entries), K # {}
  PROVE  /\ Hull(Part(r, K))
         /\ Part(r, K).entries = [k \in K |-> r.entries[k]] /\ Part(r, K).dirty = FALSE
         /\ Min(K) \in K /\ Max(K) \in K /\ \A k \in K : Min(K) <= k /\ k <= Max(K)
<1>1. /\ Part(r, K).entries = [k \in K |-> r.entries[k]] /\ Part(r, K).dirty = FALSE
      /\ Part(r, K).min = Min(K) /\ Part(r, K).max = Max(K)
  BY DEF Part, NewRkd
<1>2. K \in SUBSET Key /\ K \in SUBSET (0 .. MaxKey) /\ K \in SUBSET Nat /\ 0 \notin K
  BY RkdFacts, KeysBounded, KeyFacts
<1>3. Min(K) \in K /\ Max(K) \in K /\ \A k \in K : Min(K) <= k /\ k <= Max(K)
  BY <1>2, MinOf, MaxOf, BoundFacts
<1>4. Min(K) <= Max(K) /\ Min(K) # 0
  BY <1>2, <1>3
<1> QED
  BY <1>1, <1>3, <1>4 DEF Hull

LEMMA FitsPut ==
  ASSUME NEW b, NEW e, Fits(b, e), NEW k, Covers(b, k), NEW v
  PROVE  Fits(b, Put(e, k, v))
BY DEF Fits, Put

-----------------------------------------------------------------------------
(* What is read.                                                             *)

\* What a range with these entries answers.
Answer(e, k) == IF k \in DOMAIN e /\ ~e[k].del THEN <<e[k].file, e[k].pos>> ELSE NoRecord

LEMMA ReadIs ==
  ASSUME NEW h, NEW k
  PROVE  LET n == FindRange(h.mem.ranges, k)
         IN  Read(h, k) = IF n # 0 THEN Answer(Entr(h, n), k) ELSE NoRecord
<1> DEFINE n == FindRange(h.mem.ranges, k)
           e == Entr(h, n)
<1>1. Entry(h, k) = IF n # 0 /\ k \in DOMAIN e THEN e[k] ELSE [EntryOf(0, 0) EXCEPT !.del = TRUE]
  BY DEF Entry, Entr
<1>2. Read(h, k) = IF Entry(h, k).del THEN NoRecord ELSE <<Entry(h, k).file, Entry(h, k).pos>>
  BY DEF Read
<1> HIDE DEF n, e
<1>3. ASSUME n # 0, k \in DOMAIN e
      PROVE  Read(h, k) = Answer(e, k)
  <2>1. Entry(h, k) = e[k]
    BY <1>1, <1>3
  <2> QED
    BY <1>2, <1>3, <2>1 DEF Answer
<1>4. ASSUME ~(n # 0 /\ k \in DOMAIN e)
      PROVE  Read(h, k) = NoRecord
  <2>1. Entry(h, k).del
    BY <1>1, <1>4 DEF EntryOf
  <2> QED
    BY <1>2, <2>1
<1>5. k \notin DOMAIN e => Answer(e, k) = NoRecord
  BY DEF Answer
<1>6. Read(h, k) = IF n # 0 THEN Answer(e, k) ELSE NoRecord
  BY <1>3, <1>4, <1>5
<1> QED
  BY <1>6 DEF n, e

\* A work area that is whole, and one whose ranges can be told apart.
Settled(h) == Good(h) /\ h.disk.split = <<>> /\ h.disk.meta = h.mem.ranges
Steady(h)  == Settled(h) /\ ~Overlap(h.mem.ranges)

LEMMA FittingEntr ==
  ASSUME NEW F, NEW files \in F, NEW h \in Work(F, files), NEW b, Fitting(b, h)
  PROVE  Fits(b, Entr(h, b.name)) /\ b.name \in DOMAIN h.disk.rkds
<1>1. CASE \E c \in Slots(h) : c.name = b.name
  BY <1>1, EntrWhere DEF Fitting, Kept
<1>2. CASE ~\E c \in Slots(h) : c.name = b.name
  BY <1>2, EntrWhere DEF Fitting, Kept
<1> QED
  BY <1>1, <1>2

LEMMA SettledFacts ==
  ASSUME NEW F, NEW files \in F, NEW h \in Work(F, files), Settled(h)
  PROVE  /\ h.mem.ranges \in Ranges /\ Names(h.mem.ranges)
         /\ \A r \in RangeSet(h.mem.ranges) :
              /\ r \in RangeRec /\ r.name \in Nat
              /\ Straight(r) /\ Fitting(r, h)
              /\ Fits(r, Entr(h, r.name)) /\ r.name \in DOMAIN h.disk.rkds
<1>1. h.mem.ranges \in Ranges
  BY DEF Work, Memories
<1>2. /\ Names(h.mem.ranges)
      /\ \A r \in RangeSet(h.mem.ranges) : Straight(r) /\ Fitting(r, h)
  BY DEF Settled, Good, GoodBut, DiskOK, RangeSet
<1>3. \A r \in RangeSet(h.mem.ranges) : r \in RangeRec /\ r.name \in Nat
  BY <1>1, RangesFacts DEF RangeSet
<1> QED
  BY <1>1, <1>2, <1>3, FittingEntr

\* A key that a range covers is read there; one that none covers is not there.
LEMMA ReadCovered ==
  ASSUME NEW F, NEW files \in F, NEW h \in Work(F, files), Steady(h),
         NEW k \in Key, NEW r \in RangeSet(h.mem.ranges), Covers(r, k)
  PROVE  Read(h, k) = Answer(Entr(h, r.name), k)
<1>1. FindRange(h.mem.ranges, k) = r.name /\ r.name # 0
  BY SettledFacts, FindsCovering DEF Steady, Straight
<1> QED
  BY <1>1, ReadIs

LEMMA ReadUncovered ==
  ASSUME NEW F, NEW files \in F, NEW h \in Work(F, files), NEW k,
         \A r \in RangeSet(h.mem.ranges) : ~Covers(r, k)
  PROVE  Read(h, k) = NoRecord
<1>1. h.mem.ranges \in Ranges
  BY DEF Work, Memories
<1>2. FindRange(h.mem.ranges, k) = 0
  BY <1>1, FindsOne
<1> QED
  BY <1>2, ReadIs

\* A key whose range may change is read as before if its answer is.
LEMMA ReadSame ==
  ASSUME NEW h, NEW g, NEW k, g.mem.ranges = h.mem.ranges,
         LET n == FindRange(h.mem.ranges, k)
         IN  n # 0 => Answer(Entr(g, n), k) = Answer(Entr(h, n), k)
  PROVE  Read(g, k) = Read(h, k)
BY ReadIs

LEMMA FrameSettled ==
  ASSUME NEW h, NEW g, NEW X, Settled(h), Good(g), Frame(h, g, X)
  PROVE  Settled(g)
BY DEF Settled, Frame

LEMMA FrameReads ==
  ASSUME NEW h, NEW g, Frame(h, g, {}), NEW k
  PROVE  Read(g, k) = Read(h, k)
<1>1. g.mem.ranges = h.mem.ranges /\ \A n : Entr(g, n) = Entr(h, n)
  BY DEF Frame
<1> QED
  BY <1>1, ReadSame

\* A range that was changed and has its entries again.
LEMMA FrameBack ==
  ASSUME NEW F, NEW files \in F, NEW h \in Work(F, files),
         NEW g, NEW n, Frame(h, g, {n}), n \in DOMAIN h.disk.rkds, n \in DOMAIN g.disk.rkds,
         Entr(g, n) = Entr(h, n), \A b : b.name = n /\ Fits(b, Entr(h, n)) => Fitting(b, g)
  PROVE  Frame(h, g, {})
<1>1. /\ g.mem.ranges = h.mem.ranges /\ g.mem.nextFileId = h.mem.nextFileId /\ g.clash = h.clash
      /\ g.disk.meta = h.disk.meta /\ g.disk.split = h.disk.split
  BY DEF Frame
<1>2. \A m : /\ m \in DOMAIN g.disk.rkds <=> m \in DOMAIN h.disk.rkds
             /\ Entr(g, m) = Entr(h, m)
  <2> TAKE m
  <2>1. CASE m = n
    BY <2>1
  <2>2. CASE m # n
    BY <2>2 DEF Frame
  <2> QED
    BY <2>1, <2>2
<1>3. ASSUME NEW b, Fitting(b, h)
      PROVE  Fitting(b, g)
  <2>1. CASE b.name = n
    BY <1>3, <2>1, FittingEntr
  <2>2. CASE b.name # n
    BY <1>3, <2>2 DEF Frame
  <2> QED
    BY <2>1, <2>2
<1> QED
  BY <1>1, <1>2, <1>3 DEF Frame

-----------------------------------------------------------------------------
(* get, delete and flushDirtyRanges.                                         *)

LEMMA FrameSelf == \A h, X : Frame(h, h, X)
BY DEF Frame

\* The range b, which is whole, is saved with r and is whole again.
Resaved(h, g, b, r) ==
  /\ Settled(g) /\ Frame(h, g, {b.name}) /\ Entr(g, b.name) = r.entries
  /\ DOMAIN g.disk.rkds = DOMAIN h.disk.rkds
  /\ \A c : c.name = b.name /\ Fits(c, r.entries) => Fitting(c, g)

LEMMA SaveSettled ==
  ASSUME NEW F, NEW files \in F, NEW h \in Work(F, files), Settled(h),
         NEW b \in RangeSet(h.mem.ranges), NEW r \in Rkds(files), Hull(r), Fits(b, r.entries)
  PROVE  Resaved(h, SaveRangeKeyDir(h, b.name, r), b, r)
<1> DEFINE g == SaveRangeKeyDir(h, b.name, r)
<1>1. /\ b.name \in Nat /\ b.name # 0 /\ b.name \in DOMAIN h.disk.rkds /\ Names(h.mem.ranges)
      /\ h.disk.meta = h.mem.ranges /\ Good(h)
  BY SettledFacts DEF Straight, Settled
<1>2. \A i \in DOMAIN h.disk.meta : h.disk.meta[i].name = b.name => Fits(h.disk.meta[i], r.entries)
  <2> SUFFICES ASSUME NEW i \in DOMAIN h.mem.ranges, h.mem.ranges[i].name = b.name
               PROVE  h.mem.ranges[i] = b
    BY <1>1
  <2> QED
    BY <1>1, NamedOnce DEF RangeSet
<1>3. /\ Good(g) /\ Frame(h, g, {b.name}) /\ Entr(g, b.name) = r.entries
      /\ DOMAIN g.disk.rkds = DOMAIN h.disk.rkds \cup {b.name}
      /\ \A c : c.name = b.name /\ Fits(c, r.entries) => Fitting(c, g)
  <2> DEFINE n == b.name
  <2>1. n \in Nat /\ n # 0 /\ Good(h) /\ Savable(h, n, r)
    BY <1>1, <1>2 DEF Savable
  <2>2. g = SaveRangeKeyDir(h, n, r)
    OBVIOUS
  <2> HIDE DEF n, g
  <2>3. Saved(h, g, n, r)
    BY <2>1, <2>2, SaveGood
  <2> QED
    BY <2>3 DEF n, Saved
<1> HIDE DEF g
<1>4. DOMAIN g.disk.rkds = DOMAIN h.disk.rkds
  BY <1>1, <1>3
<1> QED
  BY <1>1, <1>3, <1>4, FrameSettled DEF g, Resaved

LEMMA GetGood ==
  ASSUME NEW F, NEW files \in F, NEW h \in Work(F, files), Settled(h), NEW k
  PROVE  Settled(GetOp(h, k)) /\ Frame(h, GetOp(h, k), {})
<1> DEFINE n == FindRange(h.mem.ranges, k)
<1>1. n \in Nat
  BY SettledFacts, FindRangeType
<1>2. GetOp(h, k) = IF n = 0 THEN h ELSE Load(h, n)
  BY DEF GetOp
<1> HIDE DEF n
<1>3. Good(Load(h, n)) /\ Frame(h, Load(h, n), {})
  BY <1>1, LoadGood DEF Settled
<1> QED
  BY <1>2, <1>3, FrameSettled, FrameSelf

LEMMA DeleteGood ==
  ASSUME NEW F, NEW files \in F, NEW h \in Work(F, files), Settled(h), NEW k \in Key
  PROVE  LET g == DeleteOp(h, k) IN
         /\ Settled(g) /\ g.mem.ranges = h.mem.ranges
         /\ \A j \in Key : Read(g, j) = IF j = k THEN NoRecord ELSE Read(h, j)
<1> DEFINE n == FindRange(h.mem.ranges, k)
           l == Load(h, n)
           rkd == Loaded(h, n)
           dead == [rkd.entries[k] EXCEPT !.del = TRUE]
           r == Flushed(Inserted(rkd, k, dead))
           s == SaveRangeKeyDir(l, n, r)
           g == DeleteOp(h, k)
<1>1. n \in Nat /\ h.mem.ranges \in Ranges
  BY SettledFacts, FindRangeType
<1>2. g = IF n = 0 THEN h ELSE IF k \notin DOMAIN rkd.entries THEN l ELSE s
  BY DEF DeleteOp
<1>3. l \in Work(F, files) /\ rkd \in Rkds(files) /\ Hull(rkd)
      /\ Settled(l) /\ Frame(h, l, {})
  BY <1>1, LoadKeeps, LoadedOf, LoadGood, FrameSettled DEF Settled
<1>4. rkd.entries = Entr(h, n)
  BY DEF Entr
<1>5. CASE n = 0
  <2>1. Read(h, k) = NoRecord
    BY <1>5, ReadIs
  <2>2. g = h
    BY <1>2, <1>5
  <2> HIDE DEF g
  <2> QED
    BY <2>1, <2>2 DEF g
<1>6. CASE n # 0 /\ k \notin DOMAIN rkd.entries
  <2>1. Read(h, k) = NoRecord
    BY <1>4, <1>6, ReadIs DEF Answer
  <2>2. g = l
    BY <1>2, <1>6
  <2>3. \A j : Read(l, j) = Read(h, j)
    BY <1>3, FrameReads
  <2>4. l.mem.ranges = h.mem.ranges
    BY <1>3 DEF Frame
  <2> HIDE DEF g, l
  <2> QED
    BY <1>3, <2>1, <2>2, <2>3, <2>4 DEF g
<1>7. CASE n # 0 /\ k \in DOMAIN rkd.entries
  <2>1. dead \in EntryRec /\ dead.del = TRUE
        /\ dead.file \in DOMAIN files /\ dead.pos \in DOMAIN files[dead.file]
        /\ files[dead.file][dead.pos].key = k
    <3>1. rkd.entries[k] \in EntryRec /\ Points(rkd.entries, files)
      BY <1>3, <1>7, RkdFacts
    <3>2. dead \in EntryRec /\ dead.del = TRUE
          /\ dead.file = rkd.entries[k].file /\ dead.pos = rkd.entries[k].pos
      BY <3>1 DEF EntryRec
    <3> QED
      BY <1>7, <3>1, <3>2 DEF Points
  <2> HIDE DEF dead, rkd
  <2>2. Inserted(rkd, k, dead) \in Rkds(files) /\ Hull(Inserted(rkd, k, dead))
        /\ Inserted(rkd, k, dead).entries = Put(rkd.entries, k, dead)
    BY <1>3, <2>1, InsertedOf, InsertedHull
  <2>3. r \in Rkds(files) /\ Hull(r) /\ r.entries = Put(rkd.entries, k, dead)
    BY <2>2, FlushedOf, FlushedHull
  <2>4. PICK b \in RangeSet(h.mem.ranges) : b.name = n /\ Covers(b, k)
    BY <1>1, <1>7, FindsOne
  <2>5. Fits(b, r.entries)
    <3>1. Fits(b, rkd.entries)
      BY <1>4, <2>4, SettledFacts
    <3> QED
      BY <2>3, <2>4, <3>1, FitsPut
  <2>6. l.mem.ranges = h.mem.ranges /\ \A m : Entr(l, m) = Entr(h, m)
    BY <1>3 DEF Frame
  <2> HIDE DEF l, r, n, g
  <2>7. /\ Settled(s) /\ Frame(l, s, {n}) /\ Entr(s, n) = r.entries
    BY <1>3, <2>3, <2>4, <2>5, <2>6, SaveSettled DEF Resaved
  <2> HIDE DEF s
  <2>8. s.mem.ranges = h.mem.ranges /\ \A m : m # n => Entr(s, m) = Entr(h, m)
    BY <2>6, <2>7 DEF Frame
  <2>9. ASSUME NEW j \in Key, j # k
        PROVE  Read(s, j) = Read(h, j)
    <3>1. Answer(r.entries, j) = Answer(rkd.entries, j)
      BY <2>3, <2>9 DEF Answer, Put
    <3> QED
      BY <1>4, <2>7, <2>8, <3>1, ReadSame
  <2>10. Read(s, k) = NoRecord
    <3>1. Answer(r.entries, k) = NoRecord
      BY <2>1, <2>3 DEF Answer, Put
    <3> QED
      BY <1>7, <2>7, <2>8, <3>1, ReadIs DEF n
  <2> QED
    BY <1>2, <1>7, <2>7, <2>8, <2>9, <2>10 DEF g
<1> QED
  BY <1>5, <1>6, <1>7

\* A range that is written back has what it had.
LEMMA FlushStepGood ==
  ASSUME NEW F, NEW files \in F, NEW h \in Work(F, files), Settled(h),
         NEW b \in RangeSet(h.mem.ranges)
  PROVE  LET g == FlushStep(h, b) IN
         g \in Work(F, files) /\ Good(g) /\ Frame(h, g, {})
<1> DEFINE n == b.name
           l == Load(h, n)
           r == Flushed(Loaded(h, n))
           s == SaveRangeKeyDir(l, n, r)
<1>1. n \in Nat /\ n \in DOMAIN h.disk.rkds /\ Fits(b, Entr(h, n)) /\ Fitting(b, h)
  BY SettledFacts
<1>2. l \in Work(F, files) /\ Loaded(h, n) \in Rkds(files) /\ Hull(Loaded(h, n))
      /\ Good(l) /\ Settled(l) /\ Frame(h, l, {})
  BY <1>1, LoadKeeps, LoadedOf, LoadGood, FrameSettled DEF Settled
<1>3. r \in Rkds(files) /\ Hull(r) /\ r.entries = Entr(h, n)
  BY <1>2, FlushedOf, FlushedHull DEF Entr
<1>4. FlushStep(h, b) = IF Loaded(h, n).dirty THEN s ELSE l
  BY DEF FlushStep
<1> HIDE DEF l, r
<1>5. b \in RangeSet(l.mem.ranges) /\ Entr(l, n) = Entr(h, n)
  BY <1>2 DEF Frame
<1>6. /\ s \in Work(F, files) /\ Settled(s) /\ Frame(l, s, {n}) /\ Entr(s, n) = r.entries
      /\ DOMAIN s.disk.rkds = DOMAIN l.disk.rkds
      /\ \A c : c.name = n /\ Fits(c, r.entries) => Fitting(c, s)
  <2>1. Fits(b, r.entries)
    BY <1>1, <1>3
  <2>2. s \in Work(F, files)
    BY <1>1, <1>2, <1>3, SaveKeeps
  <2>3. s = SaveRangeKeyDir(l, b.name, r)
    OBVIOUS
  <2> HIDE DEF s
  <2>4. Resaved(l, s, b, r)
    BY <1>2, <1>3, <1>5, <2>1, <2>3, SaveSettled
  <2> QED
    BY <2>2, <2>4 DEF Resaved
<1> HIDE DEF s
<1>7. n \in DOMAIN l.disk.rkds
  BY <1>1, <1>2 DEF Frame
<1>8. Frame(l, s, {})
  BY <1>2, <1>3, <1>5, <1>6, <1>7, FrameBack
<1>9. Frame(h, s, {})
  BY <1>2, <1>8, FrameThen
<1> QED
  BY <1>2, <1>4, <1>6, <1>9 DEF Settled

LEMMA FlushGood ==
  ASSUME NEW F, NEW files \in F, NEW h \in Work(F, files), Settled(h)
  PROVE  Settled(FlushOp(h)) /\ Frame(h, FlushOp(h), {})
<1> DEFINE W == {g \in Work(F, files) : Good(g) /\ Frame(h, g, {})}
           q == h.mem.ranges
           n == Len(q)
           IsFold(f) == f = [s \in SUBSET (1 .. n) |-> IF s = {} THEN h
                               ELSE FlushStep(f[s \ {Max(s)}], q[Max(s)])]
           G == [x \in W \X (1 .. n) |-> FlushStep(x[1], q[x[2]])]
<1>1. q \in Seq(RangeRec) /\ n \in Nat /\ DOMAIN q = 1 .. n
  BY DEF Work, Memories, Ranges
<1>2. ASSUME NEW g \in W, NEW i \in 1 .. n
      PROVE  FlushStep(g, q[i]) \in W
  <2>1. g \in Work(F, files) /\ Good(g) /\ Frame(h, g, {}) /\ Settled(g)
    BY FrameSettled
  <2>2. q[i] \in RangeSet(g.mem.ranges)
    BY <1>1, <2>1 DEF RangeSet, Frame
  <2>3. FlushStep(g, q[i]) \in Work(F, files) /\ Good(FlushStep(g, q[i]))
        /\ Frame(g, FlushStep(g, q[i]), {})
    BY <2>1, <2>2, FlushStepGood
  <2>4. Frame(h, FlushStep(g, q[i]), {})
    BY <2>1, <2>3, FrameThen
  <2> QED
    BY <2>3, <2>4
<1>3. h \in W
  BY FrameSelf DEF Settled
<1> HIDE DEF n
<1>4. G \in [W \X (1 .. n) -> W]
  <2> HIDE DEF W
  <2> QED
    BY <1>2
<1> HIDE DEF G
<1>5. PICK f \in [SUBSET (1 .. n) -> W] : Folds(f, 1 .. n, h, G)
  <2> HIDE DEF W
  <2> QED
    BY <1>1, <1>3, <1>4, FoldOver
<1> HIDE DEF W
<1>6. IsFold(f)
  <2> SUFFICES ASSUME NEW s \in SUBSET (1 .. n), s # {}
               PROVE  f[s] = FlushStep(f[s \ {Max(s)}], q[Max(s)])
    BY <1>5 DEF Folds
  <2>1. <<f[s \ {Max(s)}], Max(s)>> \in W \X (1 .. n)
    BY <1>1, <1>5, MaxIn
  <2> QED
    BY <1>5, <2>1 DEF Folds, G
<1>7. PICK g : IsFold(g) /\ FlushOp(h) = g[1 .. n]
  BY <1>1, <1>6 DEF FlushOp, FoldLeft, MapThenFoldSet, FlushStep
<1>8. g[{}] \in W
  BY <1>3, <1>7
<1>9. ASSUME NEW s \in SUBSET (1 .. n), s # {}, g[s \ {Max(s)}] \in W
      PROVE  g[s] \in W
  <2>1. Max(s) \in 1 .. n
    BY <1>1, <1>9, MaxIn
  <2>2. g[s] = FlushStep(g[s \ {Max(s)}], q[Max(s)])
    BY <1>7, <1>9
  <2> QED
    BY <1>2, <1>9, <2>1, <2>2
<1>10. FlushOp(h) \in W
  <2>1. g[1 .. n] \in W
    BY <1>1, <1>8, <1>9, FoldIn
  <2> QED
    BY <1>7, <2>1
<1>11. Good(FlushOp(h)) /\ Frame(h, FlushOp(h), {})
  BY <1>10 DEF W
<1> QED
  BY <1>11, FrameSettled

-----------------------------------------------------------------------------
(* Writes that leave the RangeKeyDirs alone, and what is set in memory.       *)

\* These two have the same RangeKeyDirs, cached and on disk.
Alike(h, g) == g.mem.cache = h.mem.cache /\ g.disk.rkds = h.disk.rkds

LEMMA AlikeFacts ==
  ASSUME NEW h, NEW g, Alike(h, g)
  PROVE  /\ Slots(g) = Slots(h) /\ \A n : Entr(g, n) = Entr(h, n)
         /\ \A b : Fitting(b, g) <=> Fitting(b, h)
         /\ \A x : Coherent(g, x) <=> Coherent(h, x)
<1>1. Slots(g) = Slots(h)
  BY DEF Slots, Alike
<1>2. ASSUME NEW n
      PROVE  Entr(g, n) = Entr(h, n)
  <2>1. (Cached(g, n) <=> Cached(h, n)) /\ CacheOf(g, n) = CacheOf(h, n)
    BY DEF Cached, CacheOf, Alike
  <2> QED
    BY <2>1 DEF Entr, Loaded, Alike
<1>3. \A b : Fitting(b, g) <=> Fitting(b, h)
  BY <1>1 DEF Fitting, Kept, Alike
<1>4. \A x : Coherent(g, x) <=> Coherent(h, x)
  BY <1>1 DEF Coherent, Alike
<1> QED
  BY <1>1, <1>2, <1>3, <1>4

LEMMA WriteGood ==
  ASSUME NEW F, NEW files \in F, NEW h \in Work(F, files), Good(h),
         NEW d, DiskOK(d), d.rkds = h.disk.rkds,
         d.split = <<>> => \A i \in DOMAIN d.meta : Fitting(d.meta[i], h)
  PROVE  LET g == Write(h, d) IN
         Good(g) /\ Alike(h, g) /\ g.disk = d /\ g.mem = h.mem /\ g.clash = h.clash
<1> DEFINE g == Write(h, d)
           A == DisksOf(F)
<1>1. g.disk = d /\ g.mem = h.mem /\ g.clash = h.clash /\ g.trace = Append(h.trace, d)
  BY DEF Write, Work
<1>2. h.trace \in Seq(A) /\ \A i \in DOMAIN h.trace : DiskOK(h.trace[i])
  BY DEF Work, Good, GoodBut
<1> HIDE DEF A, g
<1>3. \A i \in DOMAIN g.trace : DiskOK(g.trace[i])
  BY <1>1, <1>2, TraceOK
<1>4. Alike(h, g)
  BY <1>1 DEF Alike
<1>5. Coherent(g, 0) /\ g.mem.nextFileId # 0
  BY <1>1, <1>4, AlikeFacts DEF Good, GoodBut
<1>6. d.split = <<>> => \A i \in DOMAIN d.meta : Fitting(d.meta[i], g)
  BY <1>4, AlikeFacts
<1>7. Good(g)
  BY <1>1, <1>3, <1>5, <1>6 DEF Good, GoodBut
<1> QED
  BY <1>1, <1>4, <1>7 DEF g

DiskMeta(d, q)  == [d EXCEPT !.meta = q]
DiskSplit(d, s) == [d EXCEPT !.split = s]

\* The list of ranges is saved: during a split whatever it is, else when all of it is kept.
LEMMA MetaGood ==
  ASSUME NEW F, NEW files \in F, NEW h \in Work(F, files), Good(h),
         \/ h.disk.split # <<>>
         \/ /\ Names(h.mem.ranges)
            /\ \A r \in RangeSet(h.mem.ranges) : Straight(r) /\ Fitting(r, h)
  PROVE  LET g == SaveRangeMetadata(h) IN
         /\ Good(g) /\ Alike(h, g) /\ g.mem = h.mem /\ g.clash = h.clash
         /\ g.disk.split = h.disk.split /\ g.disk.meta = h.mem.ranges
<1> DEFINE d == DiskMeta(h.disk, h.mem.ranges)
<1>1. SaveRangeMetadata(h) = Write(h, d)
  BY DEF SaveRangeMetadata, DiskMeta
<1>2. d.rkds = h.disk.rkds /\ d.split = h.disk.split /\ d.meta = h.mem.ranges
  BY DEF DiskMeta, Work, Disks
<1> HIDE DEF d
<1>3. DiskOK(d)
  <2>1. 0 \notin DOMAIN d.rkds /\ \A n \in DOMAIN d.rkds : Hull(d.rkds[n])
    BY <1>2 DEF Good, GoodBut, DiskOK
  <2>2. ASSUME d.split = <<>>
        PROVE  Names(d.meta) /\ \A i \in DOMAIN d.meta : Straight(d.meta[i]) /\ Kept(d.meta[i], d)
    BY <1>2, <2>2 DEF RangeSet, Fitting, Kept
  <2> QED
    BY <2>1, <2>2 DEF DiskOK
<1>4. d.split = <<>> => \A i \in DOMAIN d.meta : Fitting(d.meta[i], h)
  BY <1>2 DEF RangeSet
<1>5. /\ Good(Write(h, d)) /\ Alike(h, Write(h, d)) /\ Write(h, d).disk = d
      /\ Write(h, d).mem = h.mem /\ Write(h, d).clash = h.clash
  BY <1>2, <1>3, <1>4, WriteGood
<1> QED
  BY <1>1, <1>2, <1>5

\* A split begins.
Marked(h, g, s) ==
  /\ Good(g) /\ Alike(h, g) /\ g.mem = h.mem /\ g.clash = h.clash
  /\ g.disk.split = s /\ g.disk.meta = h.disk.meta

LEMMA MarkGood ==
  ASSUME NEW F, NEW files \in F, NEW h \in Work(F, files), Good(h), NEW s, s # <<>>
  PROVE  Marked(h, Write(h, DiskSplit(h.disk, s)), s)
<1> DEFINE d == DiskSplit(h.disk, s)
<1>1. d.rkds = h.disk.rkds /\ d.split = s /\ d.meta = h.disk.meta
  BY DEF DiskSplit, Work, Disks
<1> HIDE DEF d
<1>2. DiskOK(d)
  BY <1>1 DEF Good, GoodBut, DiskOK
<1>3. /\ Good(Write(h, d)) /\ Alike(h, Write(h, d)) /\ Write(h, d).disk = d
      /\ Write(h, d).mem = h.mem /\ Write(h, d).clash = h.clash
  BY <1>1, <1>2, WriteGood
<1> QED
  BY <1>1, <1>3 DEF d, Marked

\* A split ends.
LEMMA UnmarkGood ==
  ASSUME NEW F, NEW files \in F, NEW h \in Work(F, files), Good(h),
         h.disk.meta = h.mem.ranges, Names(h.mem.ranges),
         \A r \in RangeSet(h.mem.ranges) : Straight(r) /\ Fitting(r, h)
  PROVE  LET g == Write(h, DiskSplit(h.disk, <<>>)) IN
         Settled(g) /\ Alike(h, g) /\ g.mem = h.mem /\ g.clash = h.clash
<1> DEFINE d == DiskSplit(h.disk, <<>>)
<1>1. d.rkds = h.disk.rkds /\ d.split = <<>> /\ d.meta = h.mem.ranges
  BY DEF DiskSplit, Work, Disks
<1> HIDE DEF d
<1>2. DiskOK(d)
  <2>1. 0 \notin DOMAIN d.rkds /\ \A n \in DOMAIN d.rkds : Hull(d.rkds[n])
    BY <1>1 DEF Good, GoodBut, DiskOK
  <2>2. Names(d.meta) /\ \A i \in DOMAIN d.meta : Straight(d.meta[i]) /\ Kept(d.meta[i], d)
    BY <1>1 DEF RangeSet, Fitting, Kept
  <2> QED
    BY <2>1, <2>2 DEF DiskOK
<1>3. \A i \in DOMAIN d.meta : Fitting(d.meta[i], h)
  BY <1>1 DEF RangeSet
<1>4. /\ Good(Write(h, d)) /\ Alike(h, Write(h, d)) /\ Write(h, d).disk = d
      /\ Write(h, d).mem = h.mem /\ Write(h, d).clash = h.clash
  BY <1>1, <1>2, <1>3, WriteGood
<1> QED
  BY <1>1, <1>4 DEF d, Settled

\* Only memory changes, and not the cache.
LEMMA MemoryGood ==
  ASSUME NEW h, Good(h), NEW g, g.disk = h.disk, g.trace = h.trace, Alike(h, g),
         g.mem.nextFileId # 0
  PROVE  Good(g)
BY AlikeFacts DEF Good, GoodBut

WithRanges(h, q) == [h EXCEPT !.mem.ranges = q]

LEMMA RangesGood ==
  ASSUME NEW F, NEW files \in F, NEW h \in Work(F, files), Good(h), NEW q
  PROVE  LET g == WithRanges(h, q) IN
         /\ Good(g) /\ Alike(h, g) /\ g.mem.ranges = q /\ g.disk = h.disk /\ g.clash = h.clash
         /\ g.mem.nextFileId = h.mem.nextFileId
<1> DEFINE g == WithRanges(h, q)
<1>1. /\ g.mem.ranges = q /\ g.disk = h.disk /\ g.clash = h.clash /\ g.trace = h.trace
      /\ g.mem.nextFileId = h.mem.nextFileId /\ g.mem.cache = h.mem.cache
  BY DEF WithRanges, Work, Memories
<1> HIDE DEF g
<1>2. Alike(h, g) /\ g.mem.nextFileId # 0
  BY <1>1 DEF Alike, Good, GoodBut
<1> QED
  BY <1>1, <1>2, MemoryGood DEF g

LEMMA FreshGood ==
  ASSUME NEW F, NEW files \in F, NEW h \in Work(F, files), Good(h)
  PROVE  LET g == Fresh(h) IN
         /\ Good(g) /\ Alike(h, g) /\ g.mem.ranges = h.mem.ranges /\ g.disk = h.disk
         /\ g.mem.nextFileId = h.mem.nextFileId + 1
         /\ g.clash <=> h.clash \/ h.mem.nextFileId \in DOMAIN h.disk.rkds
<1> DEFINE g == Fresh(h)
<1>1. /\ g.mem.ranges = h.mem.ranges /\ g.disk = h.disk /\ g.trace = h.trace
      /\ g.mem.nextFileId = h.mem.nextFileId + 1 /\ g.mem.cache = h.mem.cache
      /\ h.mem.nextFileId \in Nat
  BY DEF Fresh, Work, Memories
<1>2. g.clash <=> h.clash \/ h.mem.nextFileId \in DOMAIN h.disk.rkds
  BY DEF Fresh, Work, Memories
<1> HIDE DEF g
<1>3. Alike(h, g) /\ g.mem.nextFileId # 0
  BY <1>1 DEF Alike
<1> QED
  BY <1>1, <1>2, <1>3, MemoryGood DEF g

LEMMA AssignGood ==
  ASSUME NEW F, NEW files \in F, NEW h \in Work(F, files), Good(h)
  PROVE  LET g == AssignRangeToFile(h) IN
         /\ Good(g) /\ Alike(h, g) /\ g.mem.ranges = h.mem.ranges /\ g.disk = h.disk
         /\ g.clash = h.clash
<1> DEFINE g == AssignRangeToFile(h)
           full == h.mem.assigned >= RangesPerFile
           a == [Fresh(h) EXCEPT !.clash = h.clash, !.mem.assignmentFile = h.mem.nextFileId]
<1>1. CASE full
  <2>1. /\ a.mem.ranges = h.mem.ranges /\ a.disk = h.disk /\ a.trace = h.trace
        /\ a.mem.nextFileId = h.mem.nextFileId + 1 /\ a.mem.cache = h.mem.cache
        /\ h.mem.nextFileId \in Nat /\ a.clash = h.clash
        /\ DOMAIN a = {"mem", "disk", "trace", "clash"}
        /\ DOMAIN a.mem = {"isOpen", "ranges", "cache", "nextFileId", "assignmentFile", "assigned"}
    BY DEF Fresh, Work, Memories
  <2>2. g = [a EXCEPT !.mem.assigned = 1]
    BY <1>1 DEF AssignRangeToFile
  <2> HIDE DEF a
  <2>3. /\ g.mem.ranges = h.mem.ranges /\ g.disk = h.disk /\ g.trace = h.trace
        /\ g.mem.nextFileId = h.mem.nextFileId + 1 /\ g.mem.cache = h.mem.cache
        /\ h.mem.nextFileId \in Nat /\ g.clash = h.clash
    BY <2>1, <2>2
  <2> HIDE DEF g
  <2>4. Alike(h, g) /\ g.mem.nextFileId # 0
    BY <2>3 DEF Alike
  <2> QED
    BY <2>3, <2>4, MemoryGood DEF g
<1>2. CASE ~full
  <2>1. g = [h EXCEPT !.mem.assigned = @ + 1]
    BY <1>2 DEF AssignRangeToFile
  <2>2. /\ g.mem.ranges = h.mem.ranges /\ g.disk = h.disk /\ g.trace = h.trace
        /\ g.mem.nextFileId = h.mem.nextFileId /\ g.mem.cache = h.mem.cache
        /\ g.clash = h.clash
    BY <2>1 DEF Work, Memories
  <2> HIDE DEF g
  <2>3. Alike(h, g) /\ g.mem.nextFileId # 0
    BY <2>2 DEF Alike, Good, GoodBut
  <2> QED
    BY <2>2, <2>3, MemoryGood DEF g
<1> QED
  BY <1>1, <1>2

-----------------------------------------------------------------------------
(* set.                                                                      *)

LEMMA NewRangeGood ==
  ASSUME NEW F, NEW files \in F, NEW h \in Work(F, files), Settled(h), NEW k \in Key
  PROVE  LET z == NewRange(h, k)
             n == h.mem.nextFileId
         IN  /\ h.clash => z.clash
             /\ ~z.clash => /\ Settled(z)
                            /\ n # 0 /\ n \notin DOMAIN h.disk.rkds
                            /\ RangeSet(z.mem.ranges) =
                                 RangeSet(h.mem.ranges) \cup {Bounds(k, NoKey, n)}
                            /\ Entr(z, n) = <<>>
                            /\ \A m : m # n => Entr(z, m) = Entr(h, m)
<1> DEFINE n   == h.mem.nextFileId
           a   == Fresh(h)
           g   == AssignRangeToFile(a)
           rkd == NewRkd(k, NoKey, g.mem.assignmentFile)
           b   == Bounds(k, NoKey, n)
           s   == SaveRangeKeyDir(g, n, rkd)
           q   == WithRange(s.mem.ranges, b)
           w   == WithRanges(s, q)
           z   == NewRange(h, k)
<1>1. Good(h) /\ h.disk.split = <<>> /\ h.disk.meta = h.mem.ranges
      /\ n \in Nat /\ n # 0 /\ k \in Nat /\ k # 0
  BY KeyFacts DEF Settled, Good, GoodBut, Work, Memories
<1>2. z = SaveRangeMetadata(w)
  BY DEF NewRange, WithRanges
<1>3. a \in Work(F, files) /\ g \in Work(F, files)
  BY FreshKeeps, AssignKeeps
<1>4. /\ Good(a) /\ Alike(h, a) /\ a.mem.ranges = h.mem.ranges /\ a.disk = h.disk
      /\ a.clash <=> h.clash \/ n \in DOMAIN h.disk.rkds
  BY <1>1, FreshGood
<1> HIDE DEF a
<1>5. /\ Good(g) /\ Alike(a, g) /\ g.mem.ranges = h.mem.ranges /\ g.disk = h.disk
      /\ g.clash = a.clash
  BY <1>3, <1>4, AssignGood
<1>6. Alike(h, g)
  BY <1>4, <1>5 DEF Alike
<1> HIDE DEF g
<1>7. rkd \in Rkds(files) /\ Hull(rkd) /\ rkd.entries = <<>>
  <2>1. g.mem.assignmentFile \in Nat /\ NoKey \in Nat
    BY <1>3 DEF Work, Memories, NoKey
  <2> QED
    BY <1>1, <2>1, NewRkdOf, NewRkdHull
<1> HIDE DEF rkd, n
<1>8. \A c : Fits(c, rkd.entries)
  BY <1>7 DEF Fits
<1>9. /\ s \in Work(F, files) /\ Good(s) /\ Frame(g, s, {n}) /\ Entr(s, n) = <<>>
      /\ \A c : c.name = n => Fitting(c, s)
  <2>1. Savable(g, n, rkd)
    BY <1>8 DEF Savable
  <2>2. Saved(g, s, n, rkd)
    BY <1>1, <1>3, <1>5, <1>7, <2>1, SaveGood
  <2> QED
    BY <1>1, <1>3, <1>7, <1>8, <2>2, SaveKeeps DEF Saved
<1> HIDE DEF s
<1>10. /\ s.mem.ranges = h.mem.ranges /\ s.clash = g.clash /\ s.disk.split = <<>>
       /\ \A m : m # n => Entr(s, m) = Entr(h, m)
       /\ \A c : c.name # n /\ Fitting(c, h) => Fitting(c, s)
  <2>1. /\ \A m : Entr(g, m) = Entr(h, m)
        /\ \A c : Fitting(c, g) <=> Fitting(c, h)
    BY <1>6, AlikeFacts
  <2> QED
    BY <1>1, <1>5, <1>9, <2>1 DEF Frame
<1>11. b \in RangeRec /\ b.name = n /\ b.min = k /\ b.max = NoKey
  <2>1. NoKey \in Nat
    BY DEF NoKey
  <2> QED
    BY <1>1, <2>1, BoundsOf DEF Bounds
<1> HIDE DEF b
<1>12. /\ h.mem.ranges \in Ranges /\ Names(h.mem.ranges)
       /\ \A r \in RangeSet(h.mem.ranges) : /\ Straight(r) /\ Fitting(r, h)
                                            /\ r.name \in DOMAIN h.disk.rkds
  BY SettledFacts
<1>13. q \in Ranges /\ RangeSet(q) = RangeSet(h.mem.ranges) \cup {b}
  BY <1>10, <1>11, <1>12, WithRangeIs, WithRangeSorts
<1>14. n \notin DOMAIN h.disk.rkds => Names(q)
  BY <1>10, <1>11, <1>12, WithRangeIs
<1> HIDE DEF q
<1>15. /\ w \in Work(F, files) /\ Good(w) /\ Alike(s, w) /\ w.mem.ranges = q
       /\ w.disk = s.disk /\ w.clash = s.clash
  BY <1>9, <1>13, RangesKeep, RangesGood DEF WithRanges
<1> HIDE DEF w
<1>16. z.clash = w.clash
  BY <1>2 DEF SaveRangeMetadata, Write
<1>17. ASSUME ~z.clash
       PROVE  /\ n \notin DOMAIN h.disk.rkds
              /\ Good(z) /\ Alike(w, z) /\ z.mem = w.mem /\ z.disk.split = <<>>
              /\ z.disk.meta = q
  <2>1. n \notin DOMAIN h.disk.rkds
    BY <1>4, <1>5, <1>10, <1>15, <1>16, <1>17
  <2>2. ASSUME NEW r \in RangeSet(q)
        PROVE  Straight(r) /\ Fitting(r, s)
    <3>1. CASE r = b
      BY <1>1, <1>9, <1>11, <3>1 DEF Straight
    <3>2. CASE r \in RangeSet(h.mem.ranges)
      BY <1>10, <1>12, <2>1, <3>2
    <3> QED
      BY <1>13, <2>2, <3>1, <3>2
  <2>3. Names(w.mem.ranges) /\ \A r \in RangeSet(w.mem.ranges) : Straight(r) /\ Fitting(r, w)
    BY <1>14, <1>15, <2>1, <2>2, AlikeFacts
  <2>4. /\ Good(SaveRangeMetadata(w)) /\ Alike(w, SaveRangeMetadata(w))
        /\ SaveRangeMetadata(w).mem = w.mem
        /\ SaveRangeMetadata(w).disk.split = w.disk.split
        /\ SaveRangeMetadata(w).disk.meta = w.mem.ranges
    BY <1>15, <2>3, MetaGood
  <2> QED
    BY <1>2, <1>10, <1>15, <2>1, <2>4
<1> HIDE DEF z
<1>18. h.clash => z.clash
  BY <1>4, <1>5, <1>10, <1>15, <1>16
<1>19. ASSUME ~z.clash
       PROVE  /\ Settled(z) /\ z.mem.ranges = q
              /\ Entr(z, n) = <<>> /\ \A m : m # n => Entr(z, m) = Entr(h, m)
  <2>1. \A m : Entr(z, m) = Entr(s, m)
    BY <1>15, <1>17, <1>19, AlikeFacts
  <2> QED
    BY <1>9, <1>10, <1>15, <1>17, <1>19, <2>1 DEF Settled
<1> QED
  BY <1>1, <1>13, <1>17, <1>18, <1>19 DEF z, n, b

-----------------------------------------------------------------------------
(* What the disk has when the cache has made room.                           *)

LEMMA GoodBest ==
  ASSUME NEW h, Good(h), NEW n
  PROVE  GoodBut(h, n)
BY DEF Good, GoodBut, Coherent, DiskOK

\* Of each range a disk has what another one had, or what was cached over it.
Spilt(h, d) ==
  \A m \in DOMAIN h.disk.rkds :
    /\ m \in DOMAIN d.rkds
    /\ d.rkds[m].entries \in {h.disk.rkds[m].entries, Entr(h, m)}

LEMMA EvictSpills ==
  ASSUME NEW F, NEW files \in F, NEW h \in Work(F, files)
  PROVE  Spilt(h, Evicted(h).disk)
<1> DEFINE g == Evicted(h)
<1>1. CASE g.disk = h.disk
  BY <1>1 DEF Spilt
<1>2. ASSUME NEW c \in Slots(h),
             g.disk = [h.disk EXCEPT !.rkds = Put(h.disk.rkds, c.name, Serialized(c.rkd))]
      PROVE  Spilt(h, g.disk)
  <2>1. g.disk.rkds = Put(h.disk.rkds, c.name, Serialized(c.rkd))
    BY <1>2 DEF Work, Disks
  <2>2. Entr(h, c.name) = c.rkd.entries
    BY EntrWhere
  <2>3. Serialized(c.rkd).entries = c.rkd.entries
    BY DEF Serialized
  <2> HIDE DEF g
  <2> QED
    BY <2>1, <2>2, <2>3 DEF Spilt, Put
<1>3. g = h \/ g.disk = h.disk
      \/ \E c \in Slots(h) :
           g.disk = [h.disk EXCEPT !.rkds = Put(h.disk.rkds, c.name, Serialized(c.rkd))]
  BY EvictedIs
<1> QED
  BY <1>1, <1>2, <1>3

LEMMA CachePutSpills ==
  ASSUME NEW F, NEW files \in F, NEW h \in Work(F, files), NEW n, NEW r
  PROVE  Spilt(h, CachePut(h, n, r).disk) /\ (Cached(h, n) => CachePut(h, n, r).disk = h.disk)
<1> DEFINE a == IF Cached(h, n) THEN CacheDel(h, n) ELSE Evicted(h)
<1>1. a \in Work(F, files)
  BY CacheDelKeeps, EvictedKeeps
<1>2. CachePut(h, n, r) = AddSlot(a, [name |-> n, rkd |-> r])
  BY DEF CachePut, AddSlot
<1>3. Cached(h, n) => a.disk = h.disk
  BY CacheDelIs
<1>4. ~Cached(h, n) => Spilt(h, a.disk)
  BY EvictSpills
<1>5. Spilt(h, h.disk)
  BY DEF Spilt
<1> HIDE DEF a
<1>6. CachePut(h, n, r).disk = a.disk
  BY <1>1, <1>2, AddSlotIs
<1> QED
  BY <1>3, <1>4, <1>5, <1>6

LEMMA SaveSpills ==
  ASSUME NEW F, NEW files \in F, NEW h \in Work(F, files), NEW n \in Nat, NEW r \in Rkds(files)
  PROVE  LET d == SaveRangeKeyDir(h, n, r).disk IN
         /\ n \in DOMAIN d.rkds /\ d.rkds[n].entries = r.entries
         /\ \A m \in DOMAIN h.disk.rkds : m # n =>
              /\ m \in DOMAIN d.rkds
              /\ d.rkds[m].entries \in {h.disk.rkds[m].entries, Entr(h, m)}
<1> DEFINE a == PutBlob(h, n, r)
           s == [r EXCEPT !.dirty = FALSE]
           d == CachePut(a, n, s).disk
<1>1. a \in Work(F, files)
  BY PutBlobKeeps
<1>2. SaveRangeKeyDir(h, n, r).disk = d
  BY DEF SaveRangeKeyDir
<1>3. a.disk.rkds = Put(h.disk.rkds, n, Serialized(r)) /\ a.mem = h.mem
  BY DEF PutBlob, Write, Work, Disks
<1>4. Serialized(r).entries = r.entries
  BY DEF Serialized
<1> HIDE DEF a, s
<1>5. /\ n \in DOMAIN a.disk.rkds /\ a.disk.rkds[n].entries = r.entries
      /\ \A m \in DOMAIN h.disk.rkds : m # n => m \in DOMAIN a.disk.rkds
                                                /\ a.disk.rkds[m] = h.disk.rkds[m]
  BY <1>3, <1>4 DEF Put
<1>6. Slots(a) = Slots(h)
  BY <1>3 DEF Slots
<1>7. \A m \in DOMAIN h.disk.rkds : m # n => Entr(a, m) = Entr(h, m)
  <2> SUFFICES ASSUME NEW m \in DOMAIN h.disk.rkds, m # n
               PROVE  Entr(a, m) = Entr(h, m)
    OBVIOUS
  <2>1. CASE \E c \in Slots(h) : c.name = m
    BY <1>1, <1>6, <2>1, EntrWhere
  <2>2. CASE ~\E c \in Slots(h) : c.name = m
    BY <1>1, <1>5, <1>6, <2>2, EntrWhere
  <2> QED
    BY <2>1, <2>2
<1>8. Spilt(a, d) /\ (Cached(a, n) => d = a.disk)
  BY <1>1, CachePutSpills
<1> HIDE DEF d
<1>9. n \in DOMAIN d.rkds /\ d.rkds[n].entries = r.entries
  <2>1. CASE Cached(a, n)
    BY <1>5, <1>8, <2>1
  <2>2. CASE ~Cached(a, n)
    <3>1. Entr(a, n) = r.entries
      BY <1>1, <1>5, <2>2, EntrWhere, SlotFacts
    <3> QED
      BY <1>5, <1>8, <3>1 DEF Spilt
  <2> QED
    BY <2>1, <2>2
<1>10. ASSUME NEW m \in DOMAIN h.disk.rkds, m # n
       PROVE  m \in DOMAIN d.rkds /\ d.rkds[m].entries \in {h.disk.rkds[m].entries, Entr(h, m)}
  <2>1. m \in DOMAIN a.disk.rkds /\ a.disk.rkds[m].entries = h.disk.rkds[m].entries
        /\ Entr(a, m) = Entr(h, m)
    BY <1>5, <1>7, <1>10
  <2>2. m \in DOMAIN d.rkds /\ d.rkds[m].entries \in {a.disk.rkds[m].entries, Entr(a, m)}
    BY <1>8, <2>1 DEF Spilt
  <2> QED
    BY <2>1, <2>2
<1> QED
  BY <1>2, <1>9, <1>10

LEMMA SaveSpillsTo ==
  ASSUME NEW F, NEW files \in F, NEW h \in Work(F, files), NEW n \in Nat, NEW r \in Rkds(files),
         NEW g, g = SaveRangeKeyDir(h, n, r),
         NEW m \in DOMAIN h.disk.rkds, m # n, NEW e, h.disk.rkds[m].entries = e, Entr(h, m) = e
  PROVE  g.disk.rkds[n].entries = r.entries /\ g.disk.rkds[m].entries = e
BY SaveSpills

LEMMA AppendedGood ==
  ASSUME NEW F, NEW files \in F, NEW h \in Work(F, files), Good(h), NEW f, NEW rec
  PROVE  LET g == Appended(h, f, rec) IN
         /\ Good(g) /\ Alike(h, g) /\ g.mem = h.mem /\ g.clash = h.clash
         /\ g.disk.split = h.disk.split /\ g.disk.meta = h.disk.meta
<1> DEFINE x == Put(h.disk.files, f,
                    Append(IF f \in DOMAIN h.disk.files THEN h.disk.files[f] ELSE <<>>, rec))
           d == [h.disk EXCEPT !.files = x]
<1>1. Appended(h, f, rec) = Write(h, d)
  BY DEF Appended
<1> HIDE DEF x
<1>2. d.rkds = h.disk.rkds /\ d.split = h.disk.split /\ d.meta = h.disk.meta
  BY DEF Work, Disks
<1> HIDE DEF d
<1>3. DiskOK(d)
  BY <1>2 DEF Good, GoodBut, DiskOK, Kept
<1>4. d.split = <<>> => \A i \in DOMAIN d.meta : Fitting(d.meta[i], h)
  BY <1>2 DEF Good, GoodBut
<1>5. /\ Good(Write(h, d)) /\ Alike(h, Write(h, d)) /\ Write(h, d).disk = d
      /\ Write(h, d).mem = h.mem /\ Write(h, d).clash = h.clash
  BY <1>2, <1>3, <1>4, WriteGood
<1> QED
  BY <1>1, <1>2, <1>5

\* What set does once it has the range n.
Placed(z, n, rec) == Appended(Load(z, n), Loaded(z, n).file, rec)
Held(z, n, k, rec) ==
  Inserted(Loaded(z, n), k,
           EntryOf(Loaded(z, n).file, Len(Placed(z, n, rec).disk.files[Loaded(z, n).file])))
SavedAs(z, n, k, rec) == SaveRangeKeyDir(Placed(z, n, rec), n, Flushed(Held(z, n, k, rec)))
SetRest(z, n, k, rec, flush) ==
  IF TotalLen(Held(z, n, k, rec)) > MaxEntriesPerRange
  THEN SplitRangeAtomic(CacheDel(SavedAs(z, n, k, rec), n), n)
  ELSE IF flush THEN SavedAs(z, n, k, rec)
  ELSE CachePut(Placed(z, n, rec), n, Held(z, n, k, rec))

\* g is z with one more entry in the range n.
Stores(z, g, n, k, e) ==
  /\ Settled(g) /\ g.mem.ranges = z.mem.ranges /\ g.clash = z.clash
  /\ Entr(g, n) = Put(Entr(z, n), k, e)
  /\ \A m : m # n => Entr(g, m) = Entr(z, m)

LEMMA StoresFrom ==
  ASSUME NEW z, NEW w, NEW g, NEW n, NEW k, NEW e,
         w.mem.ranges = z.mem.ranges, w.clash = z.clash, \A m : Entr(w, m) = Entr(z, m),
         Settled(g), Frame(w, g, {n}), Entr(g, n) = Put(Entr(z, n), k, e)
  PROVE  Stores(z, g, n, k, e)
BY DEF Stores, Frame

\* A record of k is in its file, and in the range n: on disk, and cached or not, or cached only.
Stored(files, z, n, k, rec) ==
  LET f    == Loaded(z, n).file
      more == FilesWith(files, f, rec)
      e    == EntryOf(f, Len(more[f]))
  IN  /\ f \in Nat /\ more \in Files
      /\ \A g \in {SavedAs(z, n, k, rec), CacheDel(SavedAs(z, n, k, rec), n),
                   CachePut(Placed(z, n, rec), n, Held(z, n, k, rec))} :
           g \in Work({files, more}, more) /\ Stores(z, g, n, k, e)

LEMMA StoreGood ==
  ASSUME NEW files \in Files, NEW z \in Work({files}, files), Settled(z),
         NEW b \in RangeSet(z.mem.ranges), NEW n, n = b.name,
         NEW k \in Key, Covers(b, k), NEW rec \in Record, rec.key = k,
         0 < MaxWrites, \A x \in DOMAIN files : Len(files[x]) < MaxWrites
  PROVE  Stored(files, z, n, k, rec)
<1> DEFINE l    == Load(z, n)
           old  == Loaded(z, n)
           f    == old.file
           more == FilesWith(files, f, rec)
           e    == EntryOf(f, Len(more[f]))
           w    == Placed(z, n, rec)
           r    == Held(z, n, k, rec)
           G    == {files, more}
           W    == Work(G, more)
           s    == SavedAs(z, n, k, rec)
           t    == CacheDel(s, n)
           p    == CachePut(w, n, r)
<1>1. n \in Nat /\ n # 0 /\ n \in DOMAIN z.disk.rkds /\ Fits(b, Entr(z, n))
      /\ Names(z.mem.ranges)
  BY SettledFacts DEF Straight
<1>2. l \in Work({files}, files) /\ old \in Rkds(files) /\ Hull(old) /\ f \in Nat
      /\ Good(l) /\ Settled(l) /\ Frame(z, l, {})
  BY <1>1, LoadKeeps, LoadedOf, LoadGood, FrameSettled, RkdFacts DEF Settled
<1>3. old.entries = Entr(z, n)
  BY DEF Entr
<1>4. /\ w = Appended(l, f, rec) /\ r = Inserted(old, k, EntryOf(f, Len(w.disk.files[f])))
      /\ s = SaveRangeKeyDir(w, n, Flushed(r))
  BY DEF Placed, Held, SavedAs
<1> HIDE DEF l, old, f
<1>5. /\ more \in Files /\ Grown(files, more)
      /\ f \in DOMAIN more /\ Len(more[f]) \in DOMAIN more[f] /\ more[f][Len(more[f])] = rec
      /\ Len(more[f]) \in 1 .. MaxWrites
  BY <1>2, FilesGrow
<1> HIDE DEF more
<1>6. w \in W /\ w.disk.files = more
  BY <1>2, <1>4, <1>5, AppendedKeeps DEF more
<1> more \in G
  OBVIOUS
<1> HIDE DEF G
<1>7. /\ Good(w) /\ Alike(l, w) /\ w.mem = l.mem /\ w.clash = l.clash
      /\ w.disk.split = l.disk.split /\ w.disk.meta = l.disk.meta
  BY <1>2, <1>4, AppendedGood
<1> HIDE DEF w
<1>8. Settled(w) /\ w.mem.ranges = z.mem.ranges /\ w.clash = z.clash
      /\ \A m : Entr(w, m) = Entr(z, m)
  BY <1>2, <1>7, AlikeFacts DEF Settled, Frame
<1>9. e \in EntryRec /\ e.file = f /\ e.pos = Len(more[f])
      /\ EntryOf(f, Len(w.disk.files[f])) = e
  BY <1>2, <1>5, <1>6, BoundFacts DEF EntryOf, EntryRec
<1> HIDE DEF e
<1>10. old \in Rkds(more)
  BY <1>2, <1>5, GrownKeeps
<1>11. r \in Rkds(more) /\ Hull(r) /\ r.entries = Put(Entr(z, n), k, e) /\ r.dirty = TRUE
  <2>1. r = Inserted(old, k, e)
    BY <1>4, <1>9
  <2> HIDE DEF r
  <2> QED
    <3>1. e.file \in DOMAIN more /\ e.pos \in DOMAIN more[e.file] /\ more[e.file][e.pos].key = k
      BY <1>5, <1>9
    <3>2. r \in Rkds(more)
      BY <1>9, <1>10, <2>1, <3>1, InsertedOf
    <3>3. Hull(r) /\ r.entries = Put(old.entries, k, e) /\ r.dirty = TRUE
      BY <1>2, <1>10, <2>1, InsertedHull
    <3> QED
      BY <1>3, <3>2, <3>3
<1>12. Flushed(r) \in Rkds(more) /\ Hull(Flushed(r)) /\ Flushed(r).entries = r.entries
  BY <1>11, FlushedOf, FlushedHull
<1>13. Fits(b, r.entries) /\ b \in RangeSet(w.mem.ranges)
  BY <1>1, <1>8, <1>11, FitsPut
<1> HIDE DEF r
\* saved
<1>14. s \in W
  BY <1>1, <1>4, <1>6, <1>12, SaveKeeps
<1>15. Settled(s) /\ Frame(w, s, {n}) /\ Entr(s, n) = r.entries
  <2> DEFINE v == Flushed(r)
  <2>1. v \in Rkds(more) /\ Hull(v) /\ Fits(b, v.entries) /\ v.entries = r.entries
    BY <1>12, <1>13
  <2>2. s = SaveRangeKeyDir(w, b.name, v)
    BY <1>4
  <2> HIDE DEF v
  <2>3. Resaved(w, s, b, v)
    BY <1>6, <1>8, <1>13, <2>1, <2>2, SaveSettled
  <2> QED
    BY <2>1, <2>3 DEF Resaved
<1>16. n \in DOMAIN s.disk.rkds /\ s.disk.rkds[n].entries = r.entries
  BY <1>1, <1>4, <1>6, <1>12, SaveSpills
<1> HIDE DEF s
<1>17. Stores(z, s, n, k, e)
  BY <1>8, <1>11, <1>15, StoresFrom
\* dropped from the cache
<1>18. t \in W
  BY <1>14, CacheDelKeeps
<1>19. Good(t) /\ Frame(s, t, {n}) /\ Entr(t, n) = r.entries
  <2>1. GoodBut(s, n)
    BY <1>15, GoodBest DEF Settled
  <2>2. Dropped(s, t, n)
    BY <1>14, <2>1, CacheDelGood
  <2> QED
    BY <1>16, <2>2 DEF Dropped
<1> HIDE DEF t
<1>20. Stores(z, t, n, k, e)
  <2>1. Settled(t)
    BY <1>15, <1>19, FrameSettled
  <2>2. Frame(w, t, {n})
    BY <1>15, <1>19, FrameThen
  <2> QED
    BY <1>8, <1>11, <1>19, <2>1, <2>2, StoresFrom
\* kept in the cache only
<1>21. p \in W
  BY <1>1, <1>6, <1>11, CachePutKeeps
<1>22. Good(p) /\ Frame(w, p, {n}) /\ Entr(p, n) = r.entries
  <2>1. n \in DOMAIN w.disk.rkds
    BY <1>6, <1>8, <1>13, SettledFacts
  <2>2. ASSUME NEW i \in DOMAIN w.disk.meta, w.disk.meta[i].name = n
        PROVE  Fits(w.disk.meta[i], r.entries)
    <3>1. w.disk.meta[i] \in RangeSet(z.mem.ranges)
      BY <1>8, <2>2 DEF Settled, RangeSet
    <3>2. w.disk.meta[i] = b
      BY <1>1, <2>2, <3>1, NamedOnce
    <3> QED
      BY <1>13, <3>2
  <2>3. Puttable(w, n, r)
    BY <1>11, <2>1, <2>2 DEF Puttable
  <2>4. GoodBut(w, n)
    BY <1>7, GoodBest
  <2>5. Good(p) /\ Frame(w, p, {n}) /\ Holds(w, p, n, r.entries)
    BY <1>1, <1>6, <1>11, <2>3, <2>4, CachePutGood
  <2> QED
    BY <2>5 DEF Holds
<1> HIDE DEF p
<1>23. Stores(z, p, n, k, e)
  <2>1. Settled(p)
    BY <1>8, <1>22, FrameSettled
  <2> QED
    BY <1>8, <1>11, <1>22, <2>1, StoresFrom
<1> HIDE DEF W
<1>24. /\ f \in Nat /\ more \in Files
       /\ \A g \in {s, t, p} : g \in W /\ Stores(z, g, n, k, e)
  BY <1>2, <1>5, <1>14, <1>17, <1>18, <1>20, <1>21, <1>23
<1> QED
  BY <1>24 DEF Stored, f, old, more, e, G, W, s, t, p, w, r

-----------------------------------------------------------------------------
(* splitRangeAtomic.                                                         *)

\* f is g with two more ranges, saved but not listed, and a split under way.
Halved(g, f, left, right, P, Q) ==
  /\ Good(f) /\ f.disk.split # <<>> /\ f.mem.ranges = g.mem.ranges
  /\ f.clash <=> g.clash \/ left \in DOMAIN g.disk.rkds \/ right \in DOMAIN g.disk.rkds
  /\ \A m : m \notin {left, right} => /\ m \in DOMAIN f.disk.rkds <=> m \in DOMAIN g.disk.rkds
                                      /\ Entr(f, m) = Entr(g, m)
  /\ \A b : b.name \notin {left, right} /\ Fitting(b, g) => Fitting(b, f)
  /\ {left, right} \subseteq DOMAIN f.disk.rkds
  /\ Entr(f, left) = P.entries /\ f.disk.rkds[left].entries = P.entries
  /\ Entr(f, right) = Q.entries /\ f.disk.rkds[right].entries = Q.entries
  /\ \A b : b.name = left /\ Fits(b, P.entries) => Fitting(b, f)
  /\ \A b : b.name = right /\ Fits(b, Q.entries) => Fitting(b, f)

LEMMA HalvesSaved ==
  ASSUME NEW F, NEW files \in F, NEW g \in Work(F, files), Good(g), NEW name \in Nat,
         NEW left, left = g.mem.nextFileId, NEW right, right = left + 1,
         NEW P \in Rkds(files), Hull(P), NEW Q \in Rkds(files), Hull(Q)
  PROVE  LET g1 == Fresh(Fresh(g))
             g2 == Write(g1, DiskSplit(g1.disk, <<name, left, right>>))
             g3 == SaveRangeKeyDir(g2, left, P)
             g4 == SaveRangeKeyDir(g3, right, Q)
         IN  g4 \in Work(F, files) /\ Halved(g, g4, left, right, P, Q)
<1> DEFINE g0 == Fresh(g)
           g1 == Fresh(g0)
           s  == <<name, left, right>>
           g2 == Write(g1, DiskSplit(g1.disk, s))
           g3 == SaveRangeKeyDir(g2, left, P)
           g4 == SaveRangeKeyDir(g3, right, Q)
<1>1. left \in Nat /\ left # 0 /\ right \in Nat /\ right # 0 /\ left # right
  BY DEF Work, Memories, Good, GoodBut
<1>2. s \in Splits /\ s # <<>>
  BY <1>1 DEF Splits
<1> HIDE DEF s
<1>3. g0 \in Work(F, files) /\ g1 \in Work(F, files)
  BY FreshKeeps
<1>4. /\ Good(g0) /\ Alike(g, g0) /\ g0.mem.ranges = g.mem.ranges /\ g0.disk = g.disk
      /\ g0.mem.nextFileId = right
      /\ g0.clash <=> g.clash \/ left \in DOMAIN g.disk.rkds
  BY FreshGood
<1> HIDE DEF g0
<1>5. /\ Good(g1) /\ Alike(g0, g1) /\ g1.mem.ranges = g.mem.ranges /\ g1.disk = g.disk
      /\ g1.clash <=> g0.clash \/ right \in DOMAIN g.disk.rkds
  BY <1>3, <1>4, FreshGood
<1> HIDE DEF g1
<1>6. g2 \in Work(F, files)
  BY <1>2, <1>3, SplitKeeps DEF DiskSplit
<1>7. /\ Good(g2) /\ Alike(g1, g2) /\ g2.mem = g1.mem /\ g2.clash = g1.clash
      /\ g2.disk.split = s
  <2>1. Marked(g1, g2, s)
    BY <1>2, <1>3, <1>5, MarkGood
  <2> QED
    BY <2>1 DEF Marked
<1> HIDE DEF g2
<1>8. /\ g2.mem.ranges = g.mem.ranges /\ g2.disk.rkds = g.disk.rkds
      /\ \A m : Entr(g2, m) = Entr(g, m)
      /\ \A b : Fitting(b, g2) <=> Fitting(b, g)
      /\ g2.clash <=> g.clash \/ left \in DOMAIN g.disk.rkds \/ right \in DOMAIN g.disk.rkds
  <2>1. Alike(g, g2)
    BY <1>4, <1>5, <1>7 DEF Alike
  <2>2. /\ \A m : Entr(g2, m) = Entr(g, m)
        /\ \A b : Fitting(b, g2) <=> Fitting(b, g)
    BY <2>1, AlikeFacts
  <2> QED
    BY <1>4, <1>5, <1>7, <2>1, <2>2 DEF Alike
<1>9. g3 \in Work(F, files)
  BY <1>1, <1>6, SaveKeeps
<1>10. Saved(g2, g3, left, P) /\ g3.disk.rkds[left].entries = P.entries
  <2>1. Savable(g2, left, P)
    BY <1>2, <1>7 DEF Savable
  <2>2. Saved(g2, g3, left, P)
    BY <1>1, <1>6, <1>7, <2>1, SaveGood
  <2>3. g3.disk.rkds[left].entries = P.entries
    BY <1>1, <1>6, SaveSpills
  <2> QED
    BY <2>2, <2>3
<1> HIDE DEF g3
<1>11. g4 \in Work(F, files)
  BY <1>1, <1>9, SaveKeeps
<1>12. /\ Good(g3) /\ Frame(g2, g3, {left}) /\ Entr(g3, left) = P.entries
       /\ DOMAIN g3.disk.rkds = DOMAIN g2.disk.rkds \cup {left}
       /\ \A b : b.name = left /\ Fits(b, P.entries) => Fitting(b, g3)
  BY <1>10 DEF Saved
<1>13. /\ Saved(g3, g4, right, Q) /\ g4.disk.rkds[right].entries = Q.entries
       /\ g4.disk.rkds[left].entries = P.entries
  <2>1. Savable(g3, right, Q)
    BY <1>2, <1>7, <1>12 DEF Savable, Frame
  <2>2. Saved(g3, g4, right, Q)
    BY <1>1, <1>9, <1>12, <2>1, SaveGood
  <2>3. g4 = SaveRangeKeyDir(g3, right, Q)
    OBVIOUS
  <2> HIDE DEF g4
  <2>4. left \in DOMAIN g3.disk.rkds /\ g3.disk.rkds[left].entries = P.entries
    BY <1>10, <1>12
  <2>5. Entr(g3, left) = P.entries /\ left # right /\ right \in Nat
    BY <1>1, <1>12
  <2>6. g4.disk.rkds[right].entries = Q.entries /\ g4.disk.rkds[left].entries = P.entries
    BY <1>9, <2>3, <2>4, <2>5, SaveSpillsTo
  <2> QED
    BY <2>2, <2>6
<1> HIDE DEF g4
<1>14. /\ Good(g4) /\ Frame(g3, g4, {right}) /\ Entr(g4, right) = Q.entries
       /\ DOMAIN g4.disk.rkds = DOMAIN g3.disk.rkds \cup {right}
       /\ \A b : b.name = right /\ Fits(b, Q.entries) => Fitting(b, g4)
  BY <1>13 DEF Saved
<1>15. Frame(g2, g4, {left, right})
  BY <1>12, <1>14, FrameThen
<1>16. /\ Entr(g4, left) = P.entries
       /\ \A b : b.name = left /\ Fits(b, P.entries) => Fitting(b, g4)
  BY <1>1, <1>12, <1>14 DEF Frame
<1>17. Halved(g, g4, left, right, P, Q)
  <2>1. /\ g4.disk.split # <<>> /\ g4.mem.ranges = g.mem.ranges
        /\ g4.clash <=> g.clash \/ left \in DOMAIN g.disk.rkds \/ right \in DOMAIN g.disk.rkds
    BY <1>2, <1>7, <1>8, <1>15 DEF Frame
  <2>2. /\ \A m : m \notin {left, right} => /\ m \in DOMAIN g4.disk.rkds <=> m \in DOMAIN g.disk.rkds
                                            /\ Entr(g4, m) = Entr(g, m)
        /\ \A b : b.name \notin {left, right} /\ Fitting(b, g) => Fitting(b, g4)
    BY <1>8, <1>15 DEF Frame
  <2>3. {left, right} \subseteq DOMAIN g4.disk.rkds
    BY <1>12, <1>14
  <2> QED
    BY <1>13, <1>14, <1>16, <2>1, <2>2, <2>3 DEF Halved
<1> QED
  BY <1>11, <1>17 DEF g0, g1, g2, g3, g4, s

\* What has a new list of ranges and no range n.
Ended(h, g, n) ==
  /\ Settled(g) /\ g.mem.ranges = h.mem.ranges /\ g.clash = h.clash
  /\ \A m : m # n => /\ m \in DOMAIN g.disk.rkds <=> m \in DOMAIN h.disk.rkds
                     /\ m \in DOMAIN h.disk.rkds => g.disk.rkds[m] = h.disk.rkds[m]
                     /\ Entr(g, m) = Entr(h, m)

SplitEnd(h, n) ==
  LET g == RemoveBlob(h, n) IN CacheDel(Write(g, DiskSplit(g.disk, <<>>)), n)

LEMMA SplitEnds ==
  ASSUME NEW F, NEW files \in F, NEW h \in Work(F, files), Good(h), NEW n,
         h.disk.split # <<>>, h.disk.meta = h.mem.ranges, Names(h.mem.ranges),
         \A r \in RangeSet(h.mem.ranges) : Straight(r) /\ Fitting(r, h) /\ r.name # n
  PROVE  SplitEnd(h, n) \in Work(F, files) /\ Ended(h, SplitEnd(h, n), n)
<1> DEFINE t == [m \in DOMAIN h.disk.rkds \ {n} |-> h.disk.rkds[m]]
           d == [h.disk EXCEPT !.rkds = t]
           g == RemoveBlob(h, n)
           e == DiskSplit(g.disk, <<>>)
           w == Write(g, e)
           x == CacheDel(w, n)
           A == DisksOf(F)
<1>1. /\ g \in Work(F, files) /\ w \in Work(F, files) /\ x \in Work(F, files)
  <2>1. g \in Work(F, files)
    BY RemoveBlobKeeps
  <2>2. <<>> \in Splits
    BY DEF Splits
  <2>3. w \in Work(F, files)
    BY <2>1, <2>2, SplitKeeps DEF DiskSplit
  <2> QED
    BY <2>1, <2>3, CacheDelKeeps
<1>2. /\ g.disk = d /\ g.mem = h.mem /\ g.clash = h.clash /\ g.trace = Append(h.trace, d)
  BY DEF RemoveBlob, Write, Work
<1>3. d.rkds = t /\ d.split = h.disk.split /\ d.meta = h.disk.meta
  BY DEF Work, Disks
<1> HIDE DEF d, g
<1>4. e.rkds = t /\ e.split = <<>> /\ e.meta = h.mem.ranges
  BY <1>1, <1>2, <1>3 DEF DiskSplit, Work, Disks
<1> HIDE DEF e
<1>5. /\ w.disk = e /\ w.mem = h.mem /\ w.clash = h.clash
      /\ w.trace = Append(Append(h.trace, d), e)
  BY <1>1, <1>2 DEF Write, Work
<1> HIDE DEF w
<1>6. /\ Slots(x) = {c \in Slots(w) : c.name # n}
      /\ x.mem.ranges = h.mem.ranges /\ x.mem.nextFileId = h.mem.nextFileId
      /\ x.clash = h.clash /\ x.disk = e /\ x.trace = Append(Append(h.trace, d), e)
  BY <1>1, <1>5, CacheDelIs
<1> HIDE DEF x
<1>7. Slots(x) = {c \in Slots(h) : c.name # n}
  BY <1>5, <1>6 DEF Slots
<1>8. \A m : m # n => /\ m \in DOMAIN t <=> m \in DOMAIN h.disk.rkds
                      /\ m \in DOMAIN h.disk.rkds => t[m] = h.disk.rkds[m]
  OBVIOUS
<1>9. \A m \in DOMAIN t : m # n /\ m \in DOMAIN h.disk.rkds /\ t[m] = h.disk.rkds[m]
  OBVIOUS
<1> HIDE DEF t
<1>10. \A b : b.name # n /\ Fitting(b, h) => Fitting(b, x) /\ Kept(b, e)
  BY <1>4, <1>6, <1>7, <1>8 DEF Fitting, Kept
<1>11. DiskOK(d)
  BY <1>3, <1>9 DEF DiskOK, Good, GoodBut
<1>12. DiskOK(e)
  <2>1. 0 \notin DOMAIN e.rkds /\ \A m \in DOMAIN e.rkds : Hull(e.rkds[m])
    BY <1>4, <1>9 DEF DiskOK, Good, GoodBut
  <2>2. Names(e.meta) /\ \A i \in DOMAIN e.meta : Straight(e.meta[i]) /\ Kept(e.meta[i], e)
    BY <1>4, <1>10 DEF RangeSet
  <2> QED
    BY <2>1, <2>2 DEF DiskOK
<1>13. \A i \in DOMAIN x.trace : DiskOK(x.trace[i])
  <2>1. h.trace \in Seq(A) /\ \A i \in DOMAIN h.trace : DiskOK(h.trace[i])
    BY DEF Work, Good, GoodBut
  <2>2. g.trace \in Seq(A)
    BY <1>1 DEF Work
  <2> HIDE DEF A
  <2>3. \A i \in DOMAIN g.trace : DiskOK(g.trace[i])
    BY <1>2, <1>11, <2>1, TraceOK
  <2>4. x.trace = Append(g.trace, e)
    BY <1>2, <1>6
  <2> QED
    BY <1>12, <2>2, <2>3, <2>4, TraceOK
<1>14. Coherent(x, 0)
  BY <1>4, <1>6, <1>7, <1>8 DEF Good, GoodBut, Coherent
<1>15. \A i \in DOMAIN x.disk.meta : Fitting(x.disk.meta[i], x)
  BY <1>4, <1>6, <1>10 DEF RangeSet
<1>16. Settled(x)
  BY <1>4, <1>6, <1>12, <1>13, <1>14, <1>15 DEF Settled, Good, GoodBut
<1>17. ASSUME NEW m, m # n
       PROVE  Entr(x, m) = Entr(h, m)
  <2>1. CASE \E c \in Slots(h) : c.name = m
    <3>1. PICK c \in Slots(h) : c.name = m
      BY <2>1
    <3>2. c \in Slots(x)
      BY <1>7, <1>17, <3>1
    <3> QED
      BY <1>1, <3>1, <3>2, EntrWhere
  <2>2. CASE ~\E c \in Slots(h) : c.name = m
    <3>1. \A c \in Slots(x) : c.name # m
      BY <1>7, <2>2
    <3> QED
      BY <1>1, <1>4, <1>6, <1>8, <1>17, <2>2, <3>1, EntrWhere
  <2> QED
    BY <2>1, <2>2
<1>18. Ended(h, x, n)
  BY <1>4, <1>6, <1>8, <1>16, <1>17 DEF Ended
<1> QED
  BY <1>1, <1>18 DEF SplitEnd, x, w, e, g

\* Two ranges are cached as they are on disk.
Recached(h, g, left, right, P, Q) ==
  /\ Settled(g) /\ Frame(h, g, {left, right})
  /\ Entr(g, left) = P.entries /\ Entr(g, right) = Q.entries

LEMMA HalvesCached ==
  ASSUME NEW F, NEW files \in F, NEW h \in Work(F, files), Settled(h),
         NEW left \in Nat, NEW right \in Nat, left # right,
         NEW P \in Rkds(files), Hull(P), NEW Q \in Rkds(files), Hull(Q),
         {left, right} \subseteq DOMAIN h.disk.rkds,
         Entr(h, left) = P.entries, h.disk.rkds[left].entries = P.entries,
         Entr(h, right) = Q.entries, h.disk.rkds[right].entries = Q.entries
  PROVE  Recached(h, CachePut(CachePut(h, left, P), right, Q), left, right, P, Q)
<1> DEFINE a == CachePut(h, left, P)
           g == CachePut(a, right, Q)
<1>1. a \in Work(F, files) /\ g \in Work(F, files)
  BY CachePutKeeps
<1>2. \A i \in DOMAIN h.disk.meta :
        Fits(h.disk.meta[i], Entr(h, h.disk.meta[i].name))
  BY FittingEntr DEF Settled, Good, GoodBut
<1>3. Puttable(h, left, P)
  BY <1>2 DEF Puttable
<1>4. GoodBut(h, left)
  BY GoodBest DEF Settled
<1>5. /\ Good(a) /\ Frame(h, a, {left}) /\ Holds(h, a, left, P.entries)
      /\ DOMAIN a.disk.rkds = DOMAIN h.disk.rkds
  BY <1>3, <1>4, CachePutGood
<1>6. Spilt(h, a.disk)
  BY CachePutSpills
<1> HIDE DEF a
<1>7. a.disk.meta = h.disk.meta /\ Entr(a, right) = Q.entries /\ Entr(a, left) = P.entries
  BY <1>5 DEF Frame, Holds
<1>8. a.disk.rkds[right].entries = Q.entries
  BY <1>6 DEF Spilt
<1>9. Puttable(a, right, Q)
  BY <1>2, <1>5, <1>7, <1>8 DEF Puttable
<1>10. GoodBut(a, right)
  BY <1>5, GoodBest
<1>11. Good(g) /\ Frame(a, g, {right}) /\ Holds(a, g, right, Q.entries)
  BY <1>1, <1>9, <1>10, CachePutGood
<1> HIDE DEF g
<1>12. Frame(h, g, {left, right})
  BY <1>5, <1>11, FrameThen
<1>13. Entr(g, left) = P.entries /\ Entr(g, right) = Q.entries
  BY <1>7, <1>11 DEF Frame, Holds
<1> QED
  BY <1>11, <1>12, <1>13, FrameSettled DEF g, a, Recached

LEMMA CachePutClash ==
  ASSUME NEW F, NEW files \in F, NEW h \in Work(F, files), NEW n, NEW r
  PROVE  CachePut(h, n, r).clash = h.clash
<1> DEFINE a == IF Cached(h, n) THEN CacheDel(h, n) ELSE Evicted(h)
<1>1. a \in Work(F, files)
  BY CacheDelKeeps, EvictedKeeps
<1>2. CachePut(h, n, r) = AddSlot(a, [name |-> n, rkd |-> r])
  BY DEF CachePut, AddSlot
<1>3. CacheDel(h, n).clash = h.clash /\ Evicted(h).clash = h.clash
  <2>1. CacheDel(h, n).clash = h.clash
    BY CacheDelIs
  <2> DEFINE g == Evicted(h)
  <2> DEFINE e == [h EXCEPT !.mem.cache = Tail(h.mem.cache)]
             c == Head(h.mem.cache)
  <2>2. /\ h = [mem |-> h.mem, disk |-> h.disk, trace |-> h.trace, clash |-> h.clash]
        /\ e.clash = h.clash
    BY DEF Work
  <2>3. \A d : Write(e, d).clash = e.clash
    BY <2>2 DEF Write
  <2>4. PutBlob(e, c.name, c.rkd).clash = h.clash
    BY <2>2, <2>3 DEF PutBlob
  <2>5. g \in {h, e, PutBlob(e, c.name, c.rkd)}
    BY DEF Evicted
  <2> HIDE DEF g, e
  <2>6. g.clash = h.clash
    BY <2>2, <2>4, <2>5
  <2> QED
    BY <2>1, <2>6 DEF g
<1>4. a.clash = h.clash
  BY <1>3
<1> HIDE DEF a
<1> QED
  BY <1>1, <1>2, <1>4, AddSlotIs

LEMMA WriteClash ==
  ASSUME NEW F, NEW files \in F, NEW h \in Work(F, files), NEW d
  PROVE  Write(h, d).clash = h.clash
BY DEF Write, Work

LEMMA SplitEndClash ==
  ASSUME NEW F, NEW files \in F, NEW h \in Work(F, files), NEW n
  PROVE  SplitEnd(h, n) \in Work(F, files) /\ SplitEnd(h, n).clash = h.clash
<1> DEFINE g == RemoveBlob(h, n)
           w == Write(g, DiskSplit(g.disk, <<>>))
<1>1. g \in Work(F, files) /\ g.clash = h.clash
  BY RemoveBlobKeeps, WriteClash DEF RemoveBlob
<1> HIDE DEF g
<1>2. <<>> \in Splits
  BY DEF Splits
<1>3. w \in Work(F, files) /\ w.clash = g.clash
  BY <1>1, <1>2, SplitKeeps, WriteClash DEF DiskSplit
<1> HIDE DEF w
<1>4. CacheDel(w, n) \in Work(F, files) /\ CacheDel(w, n).clash = w.clash
  BY <1>3, CacheDelKeeps, CacheDelIs
<1> QED
  BY <1>1, <1>3, <1>4 DEF SplitEnd, w, g

Half(e, K) == [k \in K |-> e[k]]

\* The range n has become two: the lower half of its keys, and all from the upper half on.
Parted(h, g, n) ==
  LET e   == Entr(h, n)
      K   == DOMAIN e
      low == LowerHalf(K)
  IN  \E left, right :
        /\ Settled(g)
        /\ RangeSet(g.mem.ranges) =
             {r \in RangeSet(h.mem.ranges) : r.name # n}
             \cup {Bounds(Min(low), Max(low), left), Bounds(Min(K \ low), NoKey, right)}
        /\ Entr(g, left) = Half(e, low) /\ Entr(g, right) = Half(e, K \ low)
        /\ \A r \in RangeSet(h.mem.ranges) : r.name # n => Entr(g, r.name) = Entr(h, r.name)

LEMMA SplitGood ==
  ASSUME NEW F, NEW files \in F, NEW h \in Work(F, files), Settled(h),
         NEW b \in RangeSet(h.mem.ranges), NEW n, n = b.name
  PROVE  LET g == SplitRangeAtomic(h, n)
             K == DOMAIN Entr(h, n)
         IN  /\ h.clash => g.clash
             /\ Cardinality(K) < 2 => Settled(g) /\ Frame(h, g, {})
             /\ ~(Cardinality(K) < 2) /\ ~g.clash => Parted(h, g, n)
<1> DEFINE g     == Load(h, n)
           rkd   == Loaded(h, n)
           e     == rkd.entries
           K     == DOMAIN e
           low   == LowerHalf(K)
           left  == g.mem.nextFileId
           right == left + 1
           P  == Part(rkd, low)
           Q  == Part(rkd, K \ low)
           L  == Bounds(Min(low), Max(low), left)
           R  == Bounds(Min(K \ low), NoKey, right)
           g1 == Fresh(Fresh(g))
           g2 == Write(g1, DiskSplit(g1.disk, <<n, left, right>>))
           g3 == SaveRangeKeyDir(g2, left, P)
           g4 == SaveRangeKeyDir(g3, right, Q)
           q1 == Without(g4.mem.ranges, n)
           q2 == WithRange(q1, L)
           rs == WithRange(q2, R)
           w  == WithRanges(g4, rs)
           g5 == SaveRangeMetadata(w)
           g7 == SplitEnd(g5, n)
           z  == CachePut(CachePut(g7, left, P), right, Q)
           S  == SplitRangeAtomic(h, n)
<1>1. n \in Nat /\ n # 0 /\ n \in DOMAIN h.disk.rkds /\ Names(h.mem.ranges)
  BY SettledFacts DEF Straight
<1>2. /\ g \in Work(F, files) /\ rkd \in Rkds(files) /\ Good(g) /\ Settled(g) /\ Frame(h, g, {})
      /\ K \in SUBSET Key /\ e = Entr(h, n)
  BY <1>1, LoadKeeps, LoadedOf, LoadGood, FrameSettled, RkdFacts DEF Settled, Entr
<1>3. /\ g.mem.ranges = h.mem.ranges /\ g.clash = h.clash /\ left = h.mem.nextFileId
      /\ \A m : (m \in DOMAIN g.disk.rkds <=> m \in DOMAIN h.disk.rkds) /\ Entr(g, m) = Entr(h, m)
      /\ \A r : Fitting(r, h) => Fitting(r, g)
  BY <1>2 DEF Frame
<1>4. CASE Cardinality(K) < 2
  <2>1. S = g
    BY <1>4 DEF SplitRangeAtomic
  <2> HIDE DEF S, g
  <2> QED
    BY <1>2, <1>3, <1>4, <2>1 DEF S
<1>5. CASE ~(Cardinality(K) < 2)
  <2>1. S = z
    BY <1>3, <1>5 DEF SplitRangeAtomic, SplitEnd, DiskSplit, WithRanges
  <2>2. low \in SUBSET K /\ low # {} /\ K \ low # {} /\ K \ low \in SUBSET K
    BY <1>2, <1>5, LowerHalfOf, HalvesFacts
  <2> HIDE DEF g, rkd, S, low
  <2>3. /\ P \in Rkds(files) /\ Hull(P) /\ P.entries = Half(e, low)
        /\ Min(low) \in Nat /\ Max(low) \in Nat /\ Min(low) \in low /\ Max(low) \in low
        /\ \A k \in low : Min(low) <= k /\ k <= Max(low)
    BY <1>2, <2>2, PartOf, PartHull DEF Half
  <2>4. /\ Q \in Rkds(files) /\ Hull(Q) /\ Q.entries = Half(e, K \ low)
        /\ Min(K \ low) \in Nat /\ Min(K \ low) \in K \ low
        /\ \A k \in K \ low : Min(K \ low) <= k
    BY <1>2, <2>2, PartOf, PartHull DEF Half
  <2> HIDE DEF P, Q
  <2>5. left \in Nat /\ left # 0 /\ right \in Nat /\ right # 0 /\ left # right
    BY <1>2 DEF Work, Memories, Good, GoodBut
  <2>6. g4 \in Work(F, files) /\ Halved(g, g4, left, right, P, Q)
    BY <1>1, <1>2, <2>3, <2>4, HalvesSaved
  <2> HIDE DEF g4, left, right
  <2>7. L \in RangeRec /\ L.min = Min(low) /\ L.max = Max(low) /\ L.name = left
    BY <2>3, <2>5, BoundsOf DEF Bounds
  <2>8. R \in RangeRec /\ R.min = Min(K \ low) /\ R.max = NoKey /\ R.name = right
    <3>1. NoKey \in Nat
      BY DEF NoKey
    <3> QED
      BY <2>4, <2>5, <3>1, BoundsOf DEF Bounds
  <2> HIDE DEF L, R
  <2>9. Straight(L) /\ Fits(L, P.entries) /\ Straight(R) /\ Fits(R, Q.entries)
    <3>1. \A k \in low : k \in Nat
      BY <1>2, <2>2, KeyFacts
    <3>2. Straight(L) /\ Straight(R)
      BY <2>3, <2>5, <2>7, <2>8 DEF Straight
    <3>3. Fits(L, P.entries)
      BY <2>3, <2>7 DEF Fits, Covers, Half
    <3>4. Fits(R, Q.entries)
      BY <2>4, <2>8 DEF Fits, Covers, Half
    <3> QED
      BY <3>2, <3>3, <3>4
  <2>10. /\ Good(g4) /\ g4.disk.split # <<>> /\ g4.mem.ranges = h.mem.ranges
         /\ g4.clash <=> h.clash \/ left \in DOMAIN h.disk.rkds \/ right \in DOMAIN h.disk.rkds
         /\ \A m : m \notin {left, right} => Entr(g4, m) = Entr(h, m)
         /\ \A r : r.name \notin {left, right} /\ Fitting(r, h) => Fitting(r, g4)
         /\ {left, right} \subseteq DOMAIN g4.disk.rkds
         /\ Entr(g4, left) = P.entries /\ g4.disk.rkds[left].entries = P.entries
         /\ Entr(g4, right) = Q.entries /\ g4.disk.rkds[right].entries = Q.entries
         /\ Fitting(L, g4) /\ Fitting(R, g4)
    BY <1>3, <2>6, <2>7, <2>8, <2>9 DEF Halved
  <2>11. q1 \in Ranges /\ RangeSet(q1) = {r \in RangeSet(h.mem.ranges) : r.name # n} /\ Names(q1)
    BY <1>1, <2>10, SettledFacts, WithoutIs, WithoutSorts
  <2> HIDE DEF q1
  <2>12. q2 \in Ranges /\ RangeSet(q2) = RangeSet(q1) \cup {L}
         /\ ((\A r \in RangeSet(q1) : r.name # left) => Names(q2))
    BY <2>7, <2>11, WithRangeIs, WithRangeSorts
  <2> HIDE DEF q2
  <2>13. rs \in Ranges /\ RangeSet(rs) = RangeSet(q2) \cup {R}
         /\ (Names(q2) /\ (\A r \in RangeSet(q2) : r.name # right) => Names(rs))
    BY <2>8, <2>12, WithRangeIs, WithRangeSorts
  <2> HIDE DEF rs
  <2>14. /\ w \in Work(F, files) /\ Good(w) /\ Alike(g4, w) /\ w.mem.ranges = rs
         /\ w.disk = g4.disk /\ w.clash = g4.clash
    <3>1. w \in Work(F, files)
      BY <2>6, <2>13, RangesKeep DEF WithRanges
    <3>2. /\ Good(w) /\ Alike(g4, w) /\ w.mem.ranges = rs /\ w.disk = g4.disk
          /\ w.clash = g4.clash
      BY <2>6, <2>10, RangesGood
    <3> QED
      BY <3>1, <3>2
  <2> HIDE DEF w
  <2>15. /\ g5 \in Work(F, files) /\ Good(g5) /\ Alike(w, g5) /\ g5.mem.ranges = rs
         /\ g5.clash = g4.clash /\ g5.disk.split # <<>> /\ g5.disk.meta = rs
    <3>1. g5 \in Work(F, files)
      BY <2>14, MetaKeeps
    <3>2. w.disk.split # <<>>
      BY <2>10, <2>14
    <3>3. /\ Good(g5) /\ Alike(w, g5) /\ g5.mem = w.mem /\ g5.clash = w.clash
          /\ g5.disk.split = w.disk.split /\ g5.disk.meta = w.mem.ranges
      BY <2>14, <3>2, MetaGood
    <3> QED
      BY <2>14, <3>1, <3>2, <3>3
  <2> HIDE DEF g5
  <2>16. /\ \A m : Entr(g5, m) = Entr(g4, m)
         /\ \A r : Fitting(r, g5) <=> Fitting(r, g4)
         /\ g5.disk.rkds = g4.disk.rkds
    <3>1. Alike(g4, g5)
      BY <2>14, <2>15 DEF Alike
    <3> QED
      BY <3>1, AlikeFacts DEF Alike
  <2>17. ASSUME ~g4.clash
         PROVE  /\ left # n /\ right # n /\ Names(rs)
                /\ \A r \in RangeSet(h.mem.ranges) : r.name \notin {left, right}
                /\ \A r \in RangeSet(rs) : Straight(r) /\ Fitting(r, g5) /\ r.name # n
    <3>1. left \notin DOMAIN h.disk.rkds /\ right \notin DOMAIN h.disk.rkds
      BY <2>10, <2>17
    <3>2. \A r \in RangeSet(h.mem.ranges) : /\ r.name \notin {left, right}
                                            /\ Straight(r) /\ Fitting(r, h)
      BY <3>1, SettledFacts
    <3>3. left # n /\ right # n
      BY <1>1, <3>1
    <3>4. Names(q2)
      BY <2>11, <2>12, <3>2
    <3>5. Names(rs)
      BY <2>5, <2>7, <2>11, <2>12, <2>13, <3>2, <3>4
    <3>6. ASSUME NEW r \in RangeSet(rs)
          PROVE  Straight(r) /\ Fitting(r, g5) /\ r.name # n
      <4>1. CASE r \in {L, R}
        BY <2>7, <2>8, <2>9, <2>10, <2>16, <3>3, <4>1
      <4>2. CASE r \in RangeSet(h.mem.ranges) /\ r.name # n
        BY <2>10, <2>16, <3>2, <4>2
      <4> QED
        BY <2>11, <2>12, <2>13, <3>6, <4>1, <4>2
    <3> QED
      BY <3>2, <3>3, <3>5, <3>6
  <2>18. g7 \in Work(F, files) /\ z.clash = g4.clash
    <3>1. g7 \in Work(F, files) /\ g7.clash = g4.clash
      BY <2>15, SplitEndClash
    <3> HIDE DEF g7
    <3>2. CachePut(g7, left, P) \in Work(F, files) /\ CachePut(g7, left, P).clash = g7.clash
      BY <2>3, <2>5, <3>1, CachePutKeeps, CachePutClash
    <3>3. z.clash = CachePut(g7, left, P).clash
      BY <3>2, CachePutClash
    <3> QED
      BY <3>1, <3>2, <3>3
  <2>19. h.clash => z.clash
    BY <2>10, <2>18
  <2>20. ASSUME ~z.clash
         PROVE  Parted(h, z, n)
    <3>1. /\ left # n /\ right # n /\ Names(rs)
          /\ \A r \in RangeSet(h.mem.ranges) : r.name \notin {left, right}
          /\ \A r \in RangeSet(rs) : Straight(r) /\ Fitting(r, g5) /\ r.name # n
      BY <2>17, <2>18, <2>20
    <3>2. Ended(g5, g7, n)
      BY <2>15, <3>1, SplitEnds
    <3> HIDE DEF g7
    <3>3. /\ Settled(g7) /\ g7.mem.ranges = rs
          /\ \A m : m # n => Entr(g7, m) = Entr(g5, m)
          /\ {left, right} \subseteq DOMAIN g7.disk.rkds
          /\ g7.disk.rkds[left].entries = P.entries /\ g7.disk.rkds[right].entries = Q.entries
      BY <2>10, <2>15, <2>16, <3>1, <3>2 DEF Ended
    <3>4. Entr(g7, left) = P.entries /\ Entr(g7, right) = Q.entries
      BY <2>10, <2>16, <3>1, <3>3
    <3>5. /\ Settled(z) /\ Frame(g7, z, {left, right})
          /\ Entr(z, left) = P.entries /\ Entr(z, right) = Q.entries
      <4>1. Recached(g7, z, left, right, P, Q)
        BY <2>3, <2>4, <2>5, <2>18, <3>3, <3>4, HalvesCached
      <4> QED
        BY <4>1 DEF Recached
    <3> HIDE DEF z
    <3>6. z.mem.ranges = rs /\ \A m : m \notin {left, right} => Entr(z, m) = Entr(g7, m)
      BY <3>3, <3>5 DEF Frame
    <3>7. RangeSet(z.mem.ranges) = {r \in RangeSet(h.mem.ranges) : r.name # n} \cup {L, R}
      BY <2>11, <2>12, <2>13, <3>6
    <3>8. ASSUME NEW r \in RangeSet(h.mem.ranges), r.name # n
          PROVE  Entr(z, r.name) = Entr(h, r.name)
      BY <2>10, <2>16, <3>1, <3>3, <3>6, <3>8
    <3>9. Entr(z, left) = Half(e, low) /\ Entr(z, right) = Half(e, K \ low)
      BY <2>3, <2>4, <3>5
    <3> HIDE DEF K
    <3> QED
      BY <1>2, <3>5, <3>7, <3>8, <3>9 DEF Parted, L, R, K, low
  <2> QED
    BY <1>2, <1>3, <1>5, <2>1, <2>19, <2>20 DEF S
<1> QED
  BY <1>4, <1>5

\* What is read does not change with a split.
LEMMA SplitReads ==
  ASSUME NEW F, NEW files \in F, NEW h \in Work(F, files), Steady(h),
         NEW b \in RangeSet(h.mem.ranges), NEW n, n = b.name,
         NEW g \in Work(F, files), Parted(h, g, n), ~Overlap(g.mem.ranges),
         NEW k \in Key
  PROVE  Read(g, k) = Read(h, k)
<1> DEFINE e   == Entr(h, n)
           K   == DOMAIN e
           low == LowerHalf(K)
<1>1. PICK left, right :
        /\ Settled(g)
        /\ RangeSet(g.mem.ranges) =
             {r \in RangeSet(h.mem.ranges) : r.name # n}
             \cup {Bounds(Min(low), Max(low), left), Bounds(Min(K \ low), NoKey, right)}
        /\ Entr(g, left) = Half(e, low) /\ Entr(g, right) = Half(e, K \ low)
        /\ \A r \in RangeSet(h.mem.ranges) : r.name # n => Entr(g, r.name) = Entr(h, r.name)
  BY DEF Parted
<1> DEFINE L == Bounds(Min(low), Max(low), left)
           R == Bounds(Min(K \ low), NoKey, right)
<1>2. Steady(g) /\ Settled(h)
  BY <1>1 DEF Steady
<1>3. L \in RangeSet(g.mem.ranges) /\ L.name = left /\ L.min = Min(low) /\ L.max = Max(low)
  BY <1>1 DEF Bounds
<1>4. R \in RangeSet(g.mem.ranges) /\ R.name = right /\ R.min = Min(K \ low) /\ R.max = NoKey
  BY <1>1 DEF Bounds
<1>5. Loaded(h, n) \in Rkds(files) /\ K \in SUBSET Key /\ Loaded(h, n).entries = e
  BY LoadedOf, RkdFacts DEF Entr
<1>6. low \in SUBSET K
  BY <1>5, LowerHalfOf
<1>7. \A r \in RangeSet(g.mem.ranges) :
        r \in {L, R} \/ (r \in RangeSet(h.mem.ranges) /\ r.name # n)
  BY <1>1
<1> HIDE DEF e, low, L, R
<1>8. CASE \E r \in RangeSet(h.mem.ranges) : r.name # n /\ Covers(r, k)
  <2>1. PICK r \in RangeSet(h.mem.ranges) : r.name # n /\ Covers(r, k)
    BY <1>8
  <2>2. r \in RangeSet(g.mem.ranges) /\ Entr(g, r.name) = Entr(h, r.name)
    BY <1>1, <2>1
  <2>3. Read(h, k) = Answer(Entr(h, r.name), k)
    BY <2>1, ReadCovered
  <2>4. Read(g, k) = Answer(Entr(g, r.name), k)
    BY <1>2, <2>1, <2>2, ReadCovered
  <2> QED
    BY <2>2, <2>3, <2>4
<1>9. CASE \A r \in RangeSet(h.mem.ranges) : r.name # n => ~Covers(r, k)
  <2>1. Read(h, k) = Answer(e, k)
    <3>1. CASE Covers(b, k)
      BY <3>1, ReadCovered DEF e
    <3>2. CASE ~Covers(b, k)
      <4>1. \A r \in RangeSet(h.mem.ranges) : r.name = n => r = b
        BY <1>2, SettledFacts, NamedOnce
      <4>2. \A r \in RangeSet(h.mem.ranges) : ~Covers(r, k)
        BY <1>9, <3>2, <4>1
      <4>3. Read(h, k) = NoRecord
        BY <4>2, ReadUncovered
      <4>4. k \notin K
        BY <1>2, <3>2, SettledFacts DEF Fits, e
      <4> QED
        BY <4>3, <4>4 DEF Answer
    <3> QED
      BY <3>1, <3>2
  <2>2. CASE k \in low
    <3>1. Min(low) <= k /\ k <= Max(low)
      BY <1>5, <1>6, <2>2, PartHull
    <3>2. Covers(L, k)
      BY <1>3, <3>1 DEF Covers
    <3>3. Read(g, k) = Answer(Half(e, low), k)
      <4>1. Read(g, k) = Answer(Entr(g, L.name), k)
        BY <1>2, <1>3, <3>2, ReadCovered
      <4> QED
        BY <1>1, <1>3, <4>1
    <3> QED
      BY <1>6, <2>1, <2>2, <3>3 DEF Answer, Half
  <2>3. CASE k \in K \ low
    <3>1. Min(K \ low) <= k
      BY <1>5, <1>6, <2>3, PartHull
    <3>2. Covers(R, k)
      BY <1>4, <3>1 DEF Covers
    <3>3. Read(g, k) = Answer(Half(e, K \ low), k)
      <4>1. Read(g, k) = Answer(Entr(g, R.name), k)
        BY <1>2, <1>4, <3>2, ReadCovered
      <4> QED
        BY <1>1, <1>4, <4>1
    <3> QED
      BY <1>6, <2>1, <2>3, <3>3 DEF Answer, Half
  <2>4. CASE k \notin K
    <3>1. Read(h, k) = NoRecord
      BY <2>1, <2>4 DEF Answer
    <3>2. CASE \A r \in RangeSet(g.mem.ranges) : ~Covers(r, k)
      BY <3>1, <3>2, ReadUncovered
    <3>3. CASE \E r \in RangeSet(g.mem.ranges) : Covers(r, k)
      <4>1. PICK r \in RangeSet(g.mem.ranges) : Covers(r, k)
        BY <3>3
      <4>2. r \in {L, R}
        BY <1>7, <1>9, <4>1
      <4>3. Entr(g, r.name) \in {Half(e, low), Half(e, K \ low)}
        BY <1>1, <1>3, <1>4, <4>2
      <4>4. Answer(Entr(g, r.name), k) = NoRecord
        BY <1>6, <2>4, <4>3 DEF Answer, Half
      <4>5. Read(g, k) = Answer(Entr(g, r.name), k)
        BY <1>2, <4>1, ReadCovered
      <4> QED
        BY <3>1, <4>4, <4>5
    <3> QED
      BY <3>2, <3>3
  <2> QED
    BY <2>2, <2>3, <2>4
<1> QED
  BY <1>8, <1>9

\* What is read once a record is stored.
LEMMA StoredReads ==
  ASSUME NEW F, NEW files \in F, NEW z, Steady(z), NEW g \in Work(F, files),
         NEW b \in RangeSet(z.mem.ranges), NEW n, n = b.name, NEW k \in Key, Covers(b, k),
         NEW f, NEW pos, Stores(z, g, n, k, EntryOf(f, pos)), NEW j \in Key
  PROVE  Steady(g) /\ Read(g, j) = IF j = k THEN <<f, pos>> ELSE Read(z, j)
<1> DEFINE e == Entr(z, n)
           x == EntryOf(f, pos)
<1>1. /\ Settled(g) /\ g.mem.ranges = z.mem.ranges /\ Entr(g, n) = Put(e, k, x)
      /\ \A m : m # n => Entr(g, m) = Entr(z, m)
  BY DEF Stores
<1>2. Steady(g)
  BY <1>1 DEF Steady
<1>3. x.del = FALSE /\ x.file = f /\ x.pos = pos
  BY DEF EntryOf
<1> HIDE DEF x, e
<1>4. Answer(Put(e, k, x), j) = IF j = k THEN <<f, pos>> ELSE Answer(e, j)
  BY <1>3 DEF Answer, Put
<1>5. CASE j = k
  BY <1>1, <1>2, <1>4, <1>5, ReadCovered
<1>6. CASE j # k
  <2>1. \A m : Answer(Entr(g, m), j) = Answer(Entr(z, m), j)
    BY <1>1, <1>4, <1>6 DEF e
  <2> QED
    BY <1>1, <1>2, <1>6, <2>1, ReadSame
<1> QED
  BY <1>5, <1>6

\* What is noted of a name taken twice stays noted, whatever the operation.
IsArea(h) ==
  h \in [mem : {h.mem}, disk : {h.disk}, trace : {h.trace}, clash : BOOLEAN]
Grows(h, g) == IsArea(g) /\ (h.clash => g.clash)

LEMMA WorkIsArea ==
  ASSUME NEW F, NEW files \in F, NEW h \in Work(F, files)
  PROVE  IsArea(h)
BY DEF Work, IsArea

LEMMA GrowsThen ==
  ASSUME NEW h, NEW g, NEW f, Grows(h, g), Grows(g, f)
  PROVE  Grows(h, f)
BY DEF Grows

LEMMA WriteGrows ==
  ASSUME NEW h, IsArea(h), NEW d
  PROVE  Grows(h, Write(h, d))
<1> DEFINE g == Write(h, d)
<1>1. /\ g \in [mem : {h.mem}, disk : {d}, trace : {Append(h.trace, d)}, clash : BOOLEAN]
      /\ g.clash = h.clash
  BY DEF IsArea, Write
<1> HIDE DEF g
<1>2. g.mem = h.mem /\ g.disk = d /\ g.trace = Append(h.trace, d)
  BY <1>1
<1> QED
  BY <1>1, <1>2 DEF IsArea, Grows, g

LEMMA FreshGrows ==
  ASSUME NEW h, IsArea(h)
  PROVE  Grows(h, Fresh(h))
<1> DEFINE m == [h.mem EXCEPT !.nextFileId = h.mem.nextFileId + 1]
           c == h.clash \/ h.mem.nextFileId \in DOMAIN h.disk.rkds
           g == [h EXCEPT !.mem = m, !.clash = c]
<1>1. Fresh(h) = g
  BY DEF Fresh
<1>2. c \in BOOLEAN /\ (h.clash => c)
  BY DEF IsArea
<1> HIDE DEF m, c
<1>3. /\ g \in [mem : {m}, disk : {h.disk}, trace : {h.trace}, clash : BOOLEAN]
      /\ g.clash = c
  BY <1>2 DEF IsArea
<1> HIDE DEF g
<1>4. g.mem = m /\ g.disk = h.disk /\ g.trace = h.trace
  BY <1>3
<1> QED
  BY <1>1, <1>2, <1>3, <1>4 DEF IsArea, Grows

WithMem(h, m) == [h EXCEPT !.mem = m]

LEMMA MemGrows ==
  ASSUME NEW h, IsArea(h), NEW m
  PROVE  Grows(h, WithMem(h, m))
BY DEF IsArea, Grows, WithMem

LEMMA CachePutGrows ==
  ASSUME NEW h, IsArea(h), NEW n, NEW r
  PROVE  Grows(h, CacheDel(h, n)) /\ Grows(h, Evicted(h)) /\ Grows(h, CachePut(h, n, r))
<1> DEFINE m(g, c) == WithMem(g, [g.mem EXCEPT !.cache = c])
<1>1. \A g, c : [g EXCEPT !.mem.cache = c] = m(g, c)
  BY DEF WithMem
<1>2. \A g, c : IsArea(g) => Grows(g, m(g, c))
  BY MemGrows
<1>3. CacheDel(h, n) = m(h, Without(h.mem.cache, n))
  BY DEF CacheDel, WithMem
<1>4. Evicted(h) \in {h, m(h, Tail(h.mem.cache)),
                      PutBlob(m(h, Tail(h.mem.cache)), Head(h.mem.cache).name, Head(h.mem.cache).rkd)}
  BY DEF Evicted, WithMem
<1>5. Grows(h, h)
  BY DEF Grows
<1>6. \A g, x, y : IsArea(g) => Grows(g, PutBlob(g, x, y))
  BY WriteGrows DEF PutBlob
<1> DEFINE a == IF Cached(h, n) THEN CacheDel(h, n) ELSE Evicted(h)
<1>7. CachePut(h, n, r) = m(a, Append(a.mem.cache, [name |-> n, rkd |-> r]))
  BY DEF CachePut, WithMem
<1> HIDE DEF m
<1>8. Grows(h, CacheDel(h, n))
  BY <1>2, <1>3
<1>9. Grows(h, Evicted(h))
  BY <1>2, <1>4, <1>5, <1>6 DEF Grows
<1>10. Grows(h, a)
  BY <1>8, <1>9
<1> HIDE DEF a
<1>11. Grows(h, CachePut(h, n, r))
  BY <1>2, <1>7, <1>10 DEF Grows
<1> QED
  BY <1>8, <1>9, <1>11

LEMMA SaveGrows ==
  ASSUME NEW h, IsArea(h), NEW n, NEW r
  PROVE  Grows(h, Load(h, n)) /\ Grows(h, SaveRangeKeyDir(h, n, r))
<1>1. Grows(h, h) /\ Grows(h, PutBlob(h, n, r))
  BY WriteGrows DEF Grows, PutBlob
<1>2. Grows(h, Load(h, n))
  BY <1>1, CachePutGrows DEF Load
<1>3. \A x : Grows(PutBlob(h, n, r), CachePut(PutBlob(h, n, r), n, x))
  BY <1>1, CachePutGrows DEF Grows
<1>4. Grows(h, SaveRangeKeyDir(h, n, r))
  BY <1>1, <1>3, GrowsThen DEF SaveRangeKeyDir
<1> QED
  BY <1>2, <1>4

LEMMA SplitGrows ==
  ASSUME NEW h, IsArea(h), NEW n
  PROVE  Grows(h, SplitRangeAtomic(h, n))
<1> DEFINE g     == Load(h, n)
           rkd   == Loaded(h, n)
           K     == DOMAIN rkd.entries
           low   == LowerHalf(K)
           left  == h.mem.nextFileId
           right == left + 1
           P  == Part(rkd, low)
           Q  == Part(rkd, K \ low)
           a0 == Fresh(g)
           g1 == Fresh(a0)
           g2 == Write(g1, [g1.disk EXCEPT !.split = <<n, left, right>>])
           g3 == SaveRangeKeyDir(g2, left, P)
           g4 == SaveRangeKeyDir(g3, right, Q)
           rs == WithRange(WithRange(Without(g4.mem.ranges, n), Bounds(Min(low), Max(low), left)),
                           Bounds(Min(K \ low), NoKey, right))
           a5 == WithMem(g4, [g4.mem EXCEPT !.ranges = rs])
           g5 == SaveRangeMetadata(a5)
           g6 == RemoveBlob(g5, n)
           a7 == Write(g6, [g6.disk EXCEPT !.split = <<>>])
           g7 == CacheDel(a7, n)
           g8 == CachePut(g7, left, P)
           g9 == CachePut(g8, right, Q)
           S  == SplitRangeAtomic(h, n)
<1>1. S \in {g, g9}
  BY DEF SplitRangeAtomic, WithMem
<1>2. \A a, d : IsArea(a) => Grows(a, Write(a, d))
  BY WriteGrows
<1>3. \A a, x, r : IsArea(a) => /\ Grows(a, SaveRangeKeyDir(a, x, r)) /\ Grows(a, CachePut(a, x, r))
                                /\ Grows(a, CacheDel(a, x))
  BY SaveGrows, CachePutGrows
<1> HIDE DEF S, left, right, P, Q, rs
<1>4. Grows(h, g)
  BY SaveGrows
<1> HIDE DEF g
<1>5. Grows(h, a0)
  BY <1>4, FreshGrows DEF Grows
<1> HIDE DEF a0
<1>6. Grows(h, g1)
  BY <1>5, FreshGrows DEF Grows
<1> HIDE DEF g1
<1>7. Grows(h, g2)
  BY <1>2, <1>6 DEF Grows
<1> HIDE DEF g2
<1>8. Grows(h, g3)
  BY <1>3, <1>7 DEF Grows
<1> HIDE DEF g3
<1>9. Grows(h, g4)
  BY <1>3, <1>8 DEF Grows
<1> HIDE DEF g4
<1>10. Grows(h, a5)
  BY <1>9, MemGrows DEF Grows
<1> HIDE DEF a5
<1>11. Grows(h, g5)
  BY <1>2, <1>10 DEF Grows, SaveRangeMetadata
<1> HIDE DEF g5
<1>12. Grows(h, g6)
  BY <1>2, <1>11 DEF Grows, RemoveBlob
<1> HIDE DEF g6
<1>13. Grows(h, a7)
  BY <1>2, <1>12 DEF Grows
<1> HIDE DEF a7
<1>14. Grows(h, g7)
  BY <1>3, <1>13 DEF Grows
<1> HIDE DEF g7
<1>15. Grows(h, g8)
  BY <1>3, <1>14 DEF Grows
<1> HIDE DEF g8
<1>16. Grows(h, g9)
  BY <1>3, <1>15 DEF Grows
<1> HIDE DEF g9
<1> QED
  BY <1>1, <1>4, <1>16 DEF S

LEMMA SetRestGrows ==
  ASSUME NEW z, IsArea(z), NEW n, NEW k, NEW rec, NEW flush
  PROVE  Grows(z, SetRest(z, n, k, rec, flush))
<1> DEFINE l == Load(z, n)
           w == Placed(z, n, rec)
           s == SavedAs(z, n, k, rec)
           t == CacheDel(s, n)
           u == SplitRangeAtomic(t, n)
           p == CachePut(w, n, Held(z, n, k, rec))
<1>1. SetRest(z, n, k, rec, flush) \in {u, s, p}
  BY DEF SetRest
<1>2. Grows(z, l)
  BY SaveGrows
<1>3. w = Appended(l, Loaded(z, n).file, rec)
  BY DEF Placed
<1> HIDE DEF w, l
<1>4. Grows(z, w)
  BY <1>2, <1>3, WriteGrows DEF Appended, Grows
<1>5. s = SaveRangeKeyDir(w, n, Flushed(Held(z, n, k, rec)))
  BY DEF SavedAs, w
<1> HIDE DEF s
<1>6. Grows(z, s) /\ Grows(z, p)
  BY <1>4, <1>5, SaveGrows, CachePutGrows DEF Grows
<1> HIDE DEF p
<1>7. Grows(z, t)
  BY <1>6, CachePutGrows DEF Grows
<1> HIDE DEF t
<1>8. Grows(z, u)
  BY <1>7, SplitGrows DEF Grows
<1> QED
  BY <1>1, <1>6, <1>8

\* g is z after the record <<f, pos>> of k was stored, provided its ranges are sound.
Sets(z, g, k, f, pos) ==
  /\ z.clash => g.clash
  /\ ~g.clash /\ ~Overlap(g.mem.ranges) =>
       /\ Steady(g) /\ Steady(z)
       /\ \A j \in Key : Read(g, j) = IF j = k THEN <<f, pos>> ELSE Read(z, j)

LEMMA RestGood ==
  ASSUME NEW files \in Files, NEW z \in Work({files}, files), Settled(z),
         NEW b \in RangeSet(z.mem.ranges), NEW n, n = b.name,
         NEW k \in Key, Covers(b, k), NEW rec \in Record, rec.key = k, NEW flush \in BOOLEAN,
         Steady(z) \/ Entr(z, n) = <<>>,
         0 < MaxWrites, \A x \in DOMAIN files : Len(files[x]) < MaxWrites
  PROVE  LET f    == Loaded(z, n).file
             more == FilesWith(files, f, rec)
             g    == SetRest(z, n, k, rec, flush)
         IN  /\ f \in Nat /\ more \in Files /\ g \in Work({files, more}, more)
             /\ Sets(z, g, k, f, Len(more[f]))
<1> DEFINE f    == Loaded(z, n).file
           more == FilesWith(files, f, rec)
           pos  == Len(more[f])
           e    == EntryOf(f, pos)
           G    == {files, more}
           s    == SavedAs(z, n, k, rec)
           t    == CacheDel(s, n)
           p    == CachePut(Placed(z, n, rec), n, Held(z, n, k, rec))
           g    == SetRest(z, n, k, rec, flush)
           full == TotalLen(Held(z, n, k, rec)) > MaxEntriesPerRange
           u    == SplitRangeAtomic(t, n)
<1>0. Stored(files, z, n, k, rec)
  BY StoreGood
<1>1. f \in Nat /\ more \in Files
  BY <1>0 DEF Stored
<1>2. \A a \in {s, t, p} : a \in Work(G, more) /\ Stores(z, a, n, k, e)
  BY <1>0 DEF Stored
<1>3. full => g = u
  BY DEF SetRest
<1>4. ~full => g = IF flush THEN s ELSE p
  BY DEF SetRest
<1> more \in G
  OBVIOUS
<1> HIDE DEF f, more, pos, e, s, t, p, g, full, G
<1>5. ASSUME NEW a \in {s, t, p}, NEW j \in Key, ~Overlap(a.mem.ranges)
      PROVE  /\ Steady(a) /\ Steady(z)
             /\ Read(a, j) = IF j = k THEN <<f, pos>> ELSE Read(z, j)
  <2>1. a \in Work(G, more) /\ Stores(z, a, n, k, e)
    BY <1>2
  <2>2. Steady(z)
    BY <1>5, <2>1 DEF Steady, Stores
  <2> QED
    BY <2>1, <2>2, StoredReads DEF e
<1>6. CASE ~full
  <2>1. g \in {s, p}
    BY <1>4, <1>6
  <2>2. g \in Work(G, more) /\ g.clash = z.clash
    BY <1>2, <2>1 DEF Stores
  <2>3. ~Overlap(g.mem.ranges) => /\ Steady(g) /\ Steady(z)
                                  /\ \A j \in Key : Read(g, j) = IF j = k THEN <<f, pos>> ELSE Read(z, j)
    <3>1. \E j : j \in Key
      OBVIOUS
    <3> QED
      BY <1>5, <2>1, <3>1
  <2>4. Sets(z, g, k, f, pos)
    BY <2>2, <2>3 DEF Sets
  <2> QED
    BY <1>1, <2>2, <2>4 DEF f, more, pos, g, G
<1>7. CASE full
  <2> DEFINE K == DOMAIN Entr(t, n)
  <2>1. g = u
    BY <1>3, <1>7
  <2>2. /\ t \in Work(G, more) /\ Settled(t) /\ t.mem.ranges = z.mem.ranges /\ t.clash = z.clash
        /\ Entr(t, n) = Put(Entr(z, n), k, e)
    BY <1>2 DEF Stores
  <2>3. n \in Nat /\ b \in RangeSet(t.mem.ranges)
    BY <2>2, SettledFacts
  <2>4. u \in Work(G, more)
    BY <2>2, <2>3, SplitKeepsWork
  <2>5. /\ t.clash => u.clash
        /\ Cardinality(K) < 2 => Settled(u) /\ Frame(t, u, {})
        /\ ~(Cardinality(K) < 2) /\ ~u.clash => Parted(t, u, n)
    BY <2>2, <2>3, SplitGood
  <2> HIDE DEF u
  <2>6. ASSUME ~u.clash, ~Overlap(u.mem.ranges), NEW j \in Key
        PROVE  /\ Steady(u) /\ Steady(z)
               /\ Read(u, j) = IF j = k THEN <<f, pos>> ELSE Read(z, j)
    <3>1. CASE Cardinality(K) < 2
      <4>1. Settled(u) /\ Frame(t, u, {})
        BY <2>5, <3>1
      <4>2. u.mem.ranges = t.mem.ranges /\ Read(u, j) = Read(t, j)
        BY <4>1, FrameReads DEF Frame
      <4>3. /\ Steady(t) /\ Steady(z)
            /\ Read(t, j) = IF j = k THEN <<f, pos>> ELSE Read(z, j)
        BY <1>5, <2>6, <4>2
      <4> QED
        BY <2>6, <4>1, <4>2, <4>3 DEF Steady
    <3>2. CASE ~(Cardinality(K) < 2)
      <4>1. Parted(t, u, n)
        BY <2>5, <2>6, <3>2
      <4>2. Settled(u)
        BY <4>1 DEF Parted
      <4>3. Entr(z, n) # <<>>
        <5>1. ASSUME Entr(z, n) = <<>> PROVE FALSE
          <6>1. K = {k}
            BY <2>2, <5>1 DEF Put
          <6>2. Cardinality(K) = 1
            BY <6>1, FS_Singleton
          <6> QED
            BY <3>2, <6>2
        <5> QED
          BY <5>1
      <4>4. Steady(z) /\ Steady(t)
        BY <2>2, <4>3 DEF Steady
      <4>5. Read(u, j) = Read(t, j)
        BY <2>2, <2>3, <2>4, <2>6, <4>1, <4>4, SplitReads
      <4>6. Read(t, j) = IF j = k THEN <<f, pos>> ELSE Read(z, j)
        BY <1>5, <4>4 DEF Steady
      <4> QED
        BY <2>6, <4>2, <4>4, <4>5, <4>6 DEF Steady
    <3> QED
      BY <3>1, <3>2
  <2>7. Sets(z, u, k, f, pos)
    <3>1. z.clash => u.clash
      BY <2>2, <2>5
    <3>2. \E j : j \in Key
      OBVIOUS
    <3> QED
      BY <2>6, <3>1, <3>2 DEF Sets
  <2> QED
    BY <1>1, <2>1, <2>4, <2>7 DEF f, more, pos, g, G
<1> QED
  BY <1>6, <1>7

\* What set does to what is read.
LEMMA SetGood ==
  ASSUME NEW files \in Files, NEW h \in Work({files}, files), Steady(h),
         NEW k \in Key, NEW packed \in BOOLEAN, NEW flush \in BOOLEAN,
         0 < MaxWrites, \A x \in DOMAIN files : Len(files[x]) < MaxWrites
  PROVE  \E f \in Nat :
           LET more == FilesWith(files, f, [key |-> k, packed |-> packed])
               g    == SetOp(h, k, packed, flush)
           IN  /\ more \in Files /\ g \in Work({files, more}, more)
               /\ Sets(h, g, k, f, Len(more[f]))
<1> DEFINE rec   == [key |-> k, packed |-> packed]
           found == FindRange(h.mem.ranges, k)
           n     == IF found = 0 THEN h.mem.nextFileId ELSE found
           z     == IF found = 0 THEN NewRange(h, k) ELSE h
           f     == Loaded(z, n).file
           more  == FilesWith(files, f, rec)
           g     == SetRest(z, n, k, rec, flush)
<1>1. rec \in Record /\ rec.key = k
  BY DEF Record
<1>2. SetOp(h, k, packed, flush) = g
  BY DEF SetOp, SetRest, SavedAs, Held, Placed
<1> HIDE DEF rec, g
<1>3. z \in Work({files}, files)
  BY NewRangeKeeps
<1>4. Settled(h) /\ h.mem.ranges \in Ranges
  BY SettledFacts DEF Steady
<1>5. CASE found # 0
  <2>1. z = h /\ n = found
    BY <1>5
  <2> HIDE DEF z, n
  <2>2. PICK b \in RangeSet(h.mem.ranges) : b.name = n /\ Covers(b, k)
    BY <1>4, <1>5, <2>1, FindsOne
  <2>3. /\ f \in Nat /\ more \in Files /\ g \in Work({files, more}, more)
        /\ Sets(z, g, k, f, Len(more[f]))
    BY <1>1, <1>3, <1>4, <2>1, <2>2, RestGood DEF g
  <2> HIDE DEF f, more
  <2> QED
    BY <1>2, <2>1, <2>3 DEF more, rec
<1>6. CASE found = 0
  <2>1. z = NewRange(h, k) /\ n = h.mem.nextFileId
    BY <1>6
  <2>2. \A r \in RangeSet(h.mem.ranges) : ~Covers(r, k)
    <3>1. ASSUME NEW r \in RangeSet(h.mem.ranges), Covers(r, k) PROVE FALSE
      <4>1. FindRange(h.mem.ranges, k) = r.name
        BY <1>4, <3>1, SettledFacts, FindsCovering DEF Steady
      <4> QED
        BY <1>4, <1>6, <4>1, SettledFacts DEF Straight
    <3> QED
      BY <3>1
  <2> HIDE DEF z, n
  <2> DEFINE b == Bounds(k, NoKey, n)
  <2>3. /\ h.clash => z.clash
        /\ ~z.clash => /\ Settled(z)
                       /\ n # 0 /\ n \notin DOMAIN h.disk.rkds
                       /\ RangeSet(z.mem.ranges) = RangeSet(h.mem.ranges) \cup {b}
                       /\ Entr(z, n) = <<>>
                       /\ \A m : m # n => Entr(z, m) = Entr(h, m)
    BY <1>4, <2>1, NewRangeGood
  <2>4. CASE z.clash
    <3>1. g.clash
      BY <1>3, <2>4, SetRestGrows, WorkIsArea DEF g, Grows
    <3>2. PICK f2 \in Nat :
            LET more2 == FilesWith(files, f2, rec) IN
            more2 \in Files /\ SetOp(h, k, packed, flush) \in Work({files, more2}, more2)
      BY SetKeeps DEF rec
    <3>3. \A p : Sets(h, g, k, f2, p)
      BY <3>1 DEF Sets
    <3> QED
      BY <1>2, <3>2, <3>3 DEF rec
  <2>5. CASE ~z.clash
    <3>1. /\ Settled(z) /\ RangeSet(z.mem.ranges) = RangeSet(h.mem.ranges) \cup {b}
          /\ Entr(z, n) = <<>> /\ n \notin DOMAIN h.disk.rkds
          /\ \A m : m # n => Entr(z, m) = Entr(h, m)
      BY <2>3, <2>5
    <3>2. b.name = n /\ b.min = k /\ b.max = NoKey /\ b \in RangeSet(z.mem.ranges)
      BY <3>1 DEF Bounds
    <3>3. Covers(b, k)
      BY <3>2, KeyFacts DEF Covers
    <3> HIDE DEF b
    <3>4. /\ f \in Nat /\ more \in Files /\ g \in Work({files, more}, more)
          /\ Sets(z, g, k, f, Len(more[f]))
      BY <1>1, <1>3, <3>1, <3>2, <3>3, RestGood DEF g
    <3>5. ASSUME Steady(z), NEW j \in Key, j # k
          PROVE  Read(z, j) = Read(h, j)
      <4>1. CASE \E r \in RangeSet(h.mem.ranges) : Covers(r, j)
        <5>1. PICK r \in RangeSet(h.mem.ranges) : Covers(r, j)
          BY <4>1
        <5>2. r \in RangeSet(z.mem.ranges) /\ r.name # n
          BY <1>4, <3>1, <5>1, SettledFacts
        <5>3. Entr(z, r.name) = Entr(h, r.name)
          BY <3>1, <5>2
        <5> QED
          BY <1>3, <3>5, <5>1, <5>2, <5>3, ReadCovered
      <4>2. CASE \A r \in RangeSet(h.mem.ranges) : ~Covers(r, j)
        <5>1. Read(h, j) = NoRecord
          BY <4>2, ReadUncovered
        <5>2. CASE Covers(b, j)
          <6>1. Read(z, j) = Answer(<<>>, j)
            BY <1>3, <3>1, <3>2, <3>5, <5>2, ReadCovered
          <6> QED
            BY <5>1, <6>1 DEF Answer
        <5>3. CASE ~Covers(b, j)
          <6>1. \A r \in RangeSet(z.mem.ranges) : ~Covers(r, j)
            BY <3>1, <4>2, <5>3
          <6> QED
            BY <1>3, <5>1, <6>1, ReadUncovered
        <5> QED
          BY <5>2, <5>3
      <4> QED
        BY <4>1, <4>2
    <3>6. Sets(h, g, k, f, Len(more[f]))
      <4> HIDE DEF f, more
      <4> QED
        BY <2>3, <3>4, <3>5 DEF Sets
    <3> HIDE DEF f, more
    <3> QED
      BY <1>2, <3>4, <3>6 DEF more, rec
  <2> QED
    BY <2>4, <2>5
<1> QED
  BY <1>5, <1>6

-----------------------------------------------------------------------------
(* close.                                                                    *)

\* Wherever the process dies, an open can go on from there.
DisksOK(h) == DiskOK(h.disk) /\ \A i \in DOMAIN h.trace : DiskOK(h.trace[i])

LEMMA WritesOK ==
  ASSUME NEW F, NEW files \in F, NEW h \in Work(F, files), DisksOK(h), NEW d, DiskOK(d)
  PROVE  DisksOK(Write(h, d)) /\ Write(h, d).mem = h.mem /\ Write(h, d).disk = d
<1> DEFINE g == Write(h, d)
           A == DisksOf(F)
<1>1. g.disk = d /\ g.trace = Append(h.trace, d) /\ g.mem = h.mem
  BY DEF Work, Write
<1>2. h.trace \in Seq(A)
  BY DEF Work
<1> HIDE DEF g, A
<1> QED
  BY <1>1, <1>2, TraceOK DEF DisksOK, g

Closing(e, a) == DisksOK(a) /\ a.mem = e.mem /\ a.disk.meta = e.disk.meta /\ a.disk.split = <<>>

\* What close has put on the disk, and how far it is.
Saves(h, d) ==
  /\ d.meta = h.mem.ranges /\ d.split = <<>> /\ DOMAIN d.rkds = DOMAIN h.disk.rkds
  /\ \A n \in DOMAIN d.rkds : d.rkds[n].entries = Entr(h, n)
OnDisk(e, a, s) ==
  /\ DOMAIN a.disk.rkds = DOMAIN e.disk.rkds
  /\ \A i \in s : a.disk.rkds[e.mem.cache[i].name].entries = e.mem.cache[i].rkd.entries
  /\ \A n \in DOMAIN a.disk.rkds :
       (\A i \in s : e.mem.cache[i].name # n) => a.disk.rkds[n] = e.disk.rkds[n]

LEMMA CloseGood ==
  ASSUME NEW F, NEW files \in F, NEW h \in Work(F, files), Settled(h)
  PROVE  DisksOK(CloseOp(h)) /\ Saves(h, CloseOp(h).disk)
<1> DEFINE e == FlushOp(h)
           W == {a \in Work(F, files) : Closing(e, a)}
           q == e.mem.cache
           n == Len(q)
           IsFold(f) == f = [s \in SUBSET (1 .. n) |-> IF s = {} THEN e
                               ELSE PutBlob(f[s \ {Max(s)}], q[Max(s)].name, q[Max(s)].rkd)]
           G == [x \in W \X (1 .. n) |-> PutBlob(x[1], q[x[2]].name, q[x[2]].rkd)]
<1>1. e \in Work(F, files) /\ Settled(e)
  BY FlushKeeps, FlushGood
<1> HIDE DEF e
<1>2. q \in Caches(files)
  BY <1>1 DEF Work, Memories
<1>3. /\ n \in Nat /\ DOMAIN q = 1 .. n
      /\ \A i \in 1 .. n : q[i].name \in Nat /\ q[i].rkd \in Rkds(files)
  BY <1>2, CacheFacts
<1>4. \A i \in 1 .. n : q[i] \in Slots(e)
  BY <1>3 DEF Slots
<1>5. ASSUME NEW i \in 1 .. n
      PROVE  /\ q[i].name # 0 /\ Hull(q[i].rkd)
             /\ \A j \in DOMAIN e.disk.meta :
                  e.disk.meta[j].name = q[i].name => Fits(e.disk.meta[j], q[i].rkd.entries)
  <2>1. Coherent(e, 0) /\ DiskOK(e.disk) /\ e.disk.split = <<>>
        /\ \A j \in DOMAIN e.disk.meta : Fitting(e.disk.meta[j], e)
    BY <1>1 DEF Settled, Good, GoodBut
  <2>2. Hull(q[i].rkd) /\ q[i].name # 0
    BY <1>4, <2>1 DEF Coherent, DiskOK
  <2> QED
    BY <1>4, <2>1, <2>2 DEF Fitting
<1>6. ASSUME NEW a \in W, NEW i \in 1 .. n
      PROVE  PutBlob(a, q[i].name, q[i].rkd) \in W
  <2> DEFINE b == Serialized(q[i].rkd)
             m == q[i].name
             d == DiskPut(a.disk, m, b)
             g == PutBlob(a, m, q[i].rkd)
  <2>1. /\ a \in Work(F, files) /\ DisksOK(a) /\ a.mem = e.mem
        /\ a.disk.meta = e.disk.meta /\ a.disk.split = <<>>
    BY DEF Closing
  <2>2. g \in Work(F, files)
    BY <1>3, <2>1, PutBlobKeeps
  <2>3. b \in Blobs(files) /\ Hull(b) /\ b.entries = q[i].rkd.entries
    BY <1>3, <1>5, BlobOf, BlobHull
  <2>4. g = Write(a, d)
    BY DEF PutBlob, DiskPut
  <2>5. a.disk \in Disks(files) /\ DiskOK(a.disk) /\ m \in Nat /\ m # 0
        /\ \A j \in DOMAIN a.disk.meta : a.disk.meta[j].name = m => Fits(a.disk.meta[j], b.entries)
    BY <1>3, <1>5, <2>1, <2>3 DEF DisksOK, Work
  <2> HIDE DEF b, m, g
  <2>6. DiskOK(d) /\ d.meta = a.disk.meta /\ d.split = a.disk.split
    BY <2>3, <2>5, DiskPutOK
  <2> HIDE DEF d
  <2>7. DisksOK(g) /\ g.mem = a.mem /\ g.disk = d
    BY <2>1, <2>4, <2>6, WritesOK
  <2>8. Closing(e, g)
    BY <2>1, <2>6, <2>7 DEF Closing
  <2> QED
    BY <2>2, <2>8 DEF g, m
<1>7. e \in W
  BY <1>1 DEF Closing, Settled, Good, GoodBut, DisksOK
<1> HIDE DEF n
<1>8. G \in [W \X (1 .. n) -> W]
  <2> HIDE DEF W
  <2> QED
    BY <1>6
<1> HIDE DEF G
<1>9. PICK f \in [SUBSET (1 .. n) -> W] : Folds(f, 1 .. n, e, G)
  <2> HIDE DEF W
  <2> QED
    BY <1>3, <1>7, <1>8, FoldOver
<1> HIDE DEF W
<1>10. IsFold(f)
  <2> SUFFICES ASSUME NEW s \in SUBSET (1 .. n), s # {}
               PROVE  f[s] = PutBlob(f[s \ {Max(s)}], q[Max(s)].name, q[Max(s)].rkd)
    BY <1>9 DEF Folds
  <2>1. <<f[s \ {Max(s)}], Max(s)>> \in W \X (1 .. n)
    BY <1>3, <1>9, MaxIn
  <2> QED
    BY <1>9, <2>1 DEF Folds, G
<1>11. PICK g : IsFold(g) /\ CloseOp(h) = SaveRangeMetadata(g[1 .. n])
  BY <1>3, <1>10 DEF CloseOp, FoldLeft, MapThenFoldSet, e
<1>12. g[{}] \in W
  BY <1>7, <1>11
<1>13. ASSUME NEW s \in SUBSET (1 .. n), s # {}, g[s \ {Max(s)}] \in W
       PROVE  g[s] \in W
  <2>1. Max(s) \in 1 .. n
    BY <1>3, <1>13, MaxIn
  <2>2. g[s] = PutBlob(g[s \ {Max(s)}], q[Max(s)].name, q[Max(s)].rkd)
    BY <1>11, <1>13
  <2> QED
    BY <1>6, <1>13, <2>1, <2>2
<1>14. g[1 .. n] \in W
  BY <1>3, <1>12, <1>13, FoldIn
<1> DEFINE a == g[1 .. n]
           d == [a.disk EXCEPT !.meta = a.mem.ranges]
<1>15. /\ a \in Work(F, files) /\ DisksOK(a) /\ a.mem = e.mem
       /\ a.disk.meta = e.disk.meta /\ a.disk.split = <<>>
  BY <1>14 DEF W, Closing
<1>16. CloseOp(h) = Write(a, d)
  BY <1>11 DEF SaveRangeMetadata
<1> HIDE DEF a
<1>17. d.rkds = a.disk.rkds /\ d.split = a.disk.split /\ d.meta = a.disk.meta
  BY <1>1, <1>15 DEF Settled, Work, Disks
<1>18. DiskOK(d)
  BY <1>15, <1>17 DEF DisksOK, DiskOK, Kept
<1>19. DisksOK(CloseOp(h)) /\ CloseOp(h).disk = d
  BY <1>15, <1>16, <1>18, WritesOK
<1>20. /\ e.mem.ranges = h.mem.ranges /\ e.disk.meta = e.mem.ranges
       /\ \A m : (m \in DOMAIN e.disk.rkds <=> m \in DOMAIN h.disk.rkds) /\ Entr(e, m) = Entr(h, m)
  BY <1>1, FlushGood DEF Settled, Frame, e
<1> DEFINE A == [s \in SUBSET (1 .. n) |-> {b \in W : OnDisk(e, b, s)}]
<1>21. g[{}] \in A[{}]
  <2>1. g[{}] = e /\ {} \in SUBSET (1 .. n)
    BY <1>11
  <2>2. OnDisk(e, e, {})
    BY DEF OnDisk
  <2> QED
    BY <1>12, <2>1, <2>2
<1>22. ASSUME NEW s \in SUBSET (1 .. n), s # {}, g[s \ {Max(s)}] \in A[s \ {Max(s)}]
       PROVE  g[s] \in A[s]
  <2> DEFINE i == Max(s)
             x == g[s \ {i}]
             b == Serialized(q[i].rkd)
             m == q[i].name
  <2>1. i \in s /\ i \in 1 .. n
    <3>1. n \in Nat /\ s \in SUBSET (0 .. n)
      BY <1>3
    <3> QED
      BY <1>22, <3>1, MaxOf
  <2>2. g[s] = PutBlob(x, m, q[i].rkd)
    BY <1>11, <1>22
  <2>3. x \in W /\ OnDisk(e, x, s \ {i})
    BY <1>22
  <2>4. g[s] \in W
    BY <1>6, <2>1, <2>2, <2>3
  <2> HIDE DEF i, x
  <2>5. /\ x \in Work(F, files) /\ DisksOK(x) /\ x.mem = e.mem
        /\ x.disk.meta = e.disk.meta /\ x.disk.split = <<>>
    BY <2>3 DEF W, Closing
  <2>6. b \in Blobs(files) /\ Hull(b) /\ b.entries = q[i].rkd.entries
    BY <1>3, <1>5, <2>1, BlobOf, BlobHull
  <2>7. x.disk \in Disks(files) /\ DiskOK(x.disk) /\ m \in Nat /\ m # 0
        /\ \A j \in DOMAIN x.disk.meta : x.disk.meta[j].name = m => Fits(x.disk.meta[j], b.entries)
    BY <1>3, <1>5, <2>1, <2>5, <2>6 DEF DisksOK, Work
  <2>8. g[s] = Write(x, DiskPut(x.disk, m, b))
    BY <2>2 DEF PutBlob, DiskPut
  <2> HIDE DEF b
  <2> DEFINE y == DiskPut(x.disk, m, b)
  <2>9. DiskOK(y) /\ DOMAIN y.rkds = DOMAIN x.disk.rkds \cup {m} /\ y.rkds[m] = b
        /\ \A l \in DOMAIN x.disk.rkds : l # m => y.rkds[l] = x.disk.rkds[l]
    BY <2>6, <2>7, DiskPutOK
  <2> HIDE DEF y
  <2>10. g[s].disk = y
    BY <2>5, <2>8, <2>9, WritesOK DEF y
  <2>11. m \in DOMAIN e.disk.rkds
    BY <1>1, <1>4, <2>1 DEF Settled, Good, GoodBut, Coherent
  <2>12. \A j \in s : j # i => j \in s \ {i} /\ j \in 1 .. n /\ q[j].name # m
    <3>1. \A j, l \in 1 .. n : q[j].name = q[l].name => j = l
      BY <1>2, CacheFacts DEF n
    <3> QED
      BY <1>22, <2>1, <3>1
  <2>13. OnDisk(e, g[s], s)
    <3>1. DOMAIN x.disk.rkds = DOMAIN e.disk.rkds
      BY <2>3 DEF OnDisk
    <3>2. DOMAIN y.rkds = DOMAIN e.disk.rkds
      BY <2>9, <2>11, <3>1
    <3>3. ASSUME NEW j \in s
          PROVE  y.rkds[q[j].name].entries = q[j].rkd.entries
      <4>1. CASE j = i
        BY <2>6, <2>9, <4>1
      <4>2. CASE j # i
        <5>1. j \in s \ {i} /\ j \in 1 .. n /\ q[j].name # m
          BY <2>12, <4>2
        <5>2. q[j].name \in DOMAIN x.disk.rkds
          BY <1>1, <1>4, <3>1, <5>1 DEF Settled, Good, GoodBut, Coherent
        <5>3. x.disk.rkds[q[j].name].entries = q[j].rkd.entries
          BY <2>3, <5>1 DEF OnDisk
        <5> QED
          BY <2>9, <5>1, <5>2, <5>3
      <4> QED
        BY <4>1, <4>2
    <3>4. ASSUME NEW l \in DOMAIN y.rkds, \A j \in s : q[j].name # l
          PROVE  y.rkds[l] = e.disk.rkds[l]
      <4>1. l # m /\ l \in DOMAIN x.disk.rkds /\ \A j \in s \ {i} : q[j].name # l
        BY <2>1, <3>1, <3>2, <3>4
      <4>2. x.disk.rkds[l] = e.disk.rkds[l]
        BY <2>3, <4>1 DEF OnDisk
      <4> QED
        BY <2>9, <4>1, <4>2
    <3> QED
      BY <2>10, <3>2, <3>3, <3>4 DEF OnDisk
  <2> QED
    BY <2>4, <2>13
<1>23. g[1 .. n] \in A[1 .. n]
  <2> HIDE DEF A
  <2>1. 1 .. n \in SUBSET (0 .. n)
    BY <1>3
  <2> QED
    BY <1>3, <1>21, <1>22, <2>1, FoldHolds
<1>24. OnDisk(e, a, 1 .. n)
  BY <1>23 DEF a
<1>25. ASSUME NEW m \in DOMAIN d.rkds
       PROVE  d.rkds[m].entries = Entr(h, m)
  <2>1. d.rkds = a.disk.rkds /\ m \in DOMAIN e.disk.rkds /\ Entr(e, m) = Entr(h, m)
    BY <1>17, <1>20, <1>24 DEF OnDisk
  <2> HIDE DEF d
  <2>2. CASE \E i \in 1 .. n : q[i].name = m
    <3>1. PICK i \in 1 .. n : q[i].name = m
      BY <2>2
    <3>2. a.disk.rkds[m].entries = q[i].rkd.entries
      BY <1>24, <3>1 DEF OnDisk
    <3>3. Entr(e, m) = q[i].rkd.entries
      BY <1>1, <1>4, <3>1, EntrWhere
    <3> QED
      BY <2>1, <3>2, <3>3
  <2>3. CASE \A i \in 1 .. n : q[i].name # m
    <3>1. a.disk.rkds[m] = e.disk.rkds[m]
      BY <1>24, <2>1, <2>3 DEF OnDisk
    <3>2. \A c \in Slots(e) : c.name # m
      BY <1>3, <2>3 DEF Slots
    <3>3. Entr(e, m) = e.disk.rkds[m].entries
      BY <1>1, <2>1, <3>2, EntrWhere
    <3> QED
      BY <2>1, <3>1, <3>3
  <2> QED
    BY <2>2, <2>3
<1>26. d.meta = h.mem.ranges /\ d.split = <<>> /\ DOMAIN d.rkds = DOMAIN h.disk.rkds
  BY <1>15, <1>17, <1>20, <1>24 DEF OnDisk
<1> HIDE DEF d
<1> QED
  BY <1>19, <1>25, <1>26 DEF Saves


-----------------------------------------------------------------------------
(* An open that does not look at barrel2.                                    *)

\* The ranges of the RangeKeyDirs that a disk has.
BlobRange(t, n) == Bounds(t[n].min, t[n].max, n)
Rebuilt(h, q) ==
  /\ q \in Ranges /\ Names(q)
  /\ RangeSet(q) = {BlobRange(h.disk.rkds, n) : n \in DOMAIN h.disk.rkds}

LEMMA RebuildsRanges ==
  ASSUME NEW F, NEW files \in F, NEW h \in Work(F, files)
  PROVE  \E q : Rebuilt(h, q) /\ RebuildRanges(h) = SaveRangeMetadata(WithRanges(h, q))
<1> DEFINE t == h.disk.rkds
           q == Ascending(DOMAIN t)
           n == Len(q)
           Of(i) == Bounds(t[q[i]].min, t[q[i]].max, q[i])
           IsFold(f) == f = [s \in SUBSET (1 .. n) |-> IF s = {} THEN <<>>
                               ELSE WithRange(f[s \ {Max(s)}], Of(Max(s)))]
           G == [x \in Ranges \X (1 .. n) |-> WithRange(x[1], Of(x[2]))]
           A == [s \in SUBSET (1 .. n) |->
                   {x \in Ranges : Names(x) /\ RangeSet(x) = {Of(i) : i \in s}}]
<1>0. h.disk \in Disks(files)
  BY DEF Work
<1>1. t \in [DOMAIN t -> Blobs(files)] /\ DOMAIN t \in SUBSET Nat /\ Bounded(DOMAIN t)
  BY <1>0, DiskTables
<1>2. q \in Sorted(DOMAIN t)
  <2>1. PICK b \in Nat : DOMAIN t \in SUBSET (0 .. b)
    BY <1>1 DEF Bounded
  <2> QED
    BY <2>1, AscendingSorts
<1> HIDE DEF q
<1>3. /\ n \in Nat /\ DOMAIN q = 1 .. n /\ \A i \in 1 .. n : q[i] \in DOMAIN t
      /\ \A x \in DOMAIN t : \E i \in 1 .. n : q[i] = x
      /\ \A i, j \in 1 .. n : i < j => q[i] < q[j]
  BY <1>2 DEF Sorted
<1>4. \A i, j \in 1 .. n : i # j => q[i] # q[j]
  <2>1. SUFFICES ASSUME NEW i \in 1 .. n, NEW j \in 1 .. n, i # j PROVE q[i] # q[j]
    OBVIOUS
  <2>2. q[i] \in Nat /\ q[j] \in Nat /\ (i < j \/ j < i)
    BY <1>1, <1>3, <2>1
  <2> QED
    BY <1>3, <2>2
<1> HIDE DEF t
<1>5. ASSUME NEW i \in 1 .. n
      PROVE  Of(i) \in RangeRec /\ Of(i).name = q[i] /\ Of(i) = BlobRange(t, q[i])
  <2>1. q[i] \in Nat /\ t[q[i]] \in Blobs(files)
    BY <1>1, <1>3
  <2>2. t[q[i]].min \in Nat /\ t[q[i]].max \in Nat
    BY <2>1 DEF Blobs
  <2>3. Of(i) \in RangeRec
    BY <2>1, <2>2, BoundsOf
  <2> QED
    BY <2>3 DEF Bounds, BlobRange
<1> HIDE DEF Of
<1>6. ASSUME NEW x \in Ranges, NEW i \in 1 .. n
      PROVE  WithRange(x, Of(i)) \in Ranges
  BY <1>5, WithRangeSorts
<1>7. <<>> \in Ranges
  BY DEF Ranges
<1> HIDE DEF n
<1>8. G \in [Ranges \X (1 .. n) -> Ranges]
  BY <1>6
<1> HIDE DEF G
<1>9. PICK f \in [SUBSET (1 .. n) -> Ranges] : Folds(f, 1 .. n, <<>>, G)
  BY <1>3, <1>7, <1>8, FoldOver
<1>10. IsFold(f)
  <2> SUFFICES ASSUME NEW s \in SUBSET (1 .. n), s # {}
               PROVE  f[s] = WithRange(f[s \ {Max(s)}], Of(Max(s)))
    BY <1>9 DEF Folds
  <2>1. <<f[s \ {Max(s)}], Max(s)>> \in Ranges \X (1 .. n)
    BY <1>3, <1>9, MaxIn
  <2> QED
    BY <1>9, <2>1 DEF Folds, G
<1>11. PICK g : /\ IsFold(g)
                /\ RebuildRanges(h) = SaveRangeMetadata(WithRanges(h, g[1 .. n]))
  BY <1>3, <1>10 DEF RebuildRanges, FoldLeft, MapThenFoldSet, q, t, Of, WithRanges
<1>12. g[{}] \in A[{}]
  <2>1. g[{}] = <<>> /\ {} \in SUBSET (1 .. n)
    BY <1>11
  <2>2. Names(<<>>) /\ RangeSet(<<>>) = {} /\ {Of(i) : i \in {}} = {}
    BY DEF Names, RangeSet
  <2> QED
    BY <1>7, <2>1, <2>2
<1>13. ASSUME NEW s \in SUBSET (1 .. n), s # {}, g[s \ {Max(s)}] \in A[s \ {Max(s)}]
       PROVE  g[s] \in A[s]
  <2> DEFINE m == Max(s)
             x == g[s \ {m}]
  <2>1. m \in s /\ m \in 1 .. n
    <3>1. n \in Nat /\ s \in SUBSET (0 .. n)
      BY <1>3
    <3> QED
      BY <1>13, <3>1, MaxOf
  <2>2. g[s] = WithRange(x, Of(m))
    BY <1>11, <1>13
  <2>3. x \in Ranges /\ Names(x) /\ RangeSet(x) = {Of(i) : i \in s \ {m}}
    BY <1>13
  <2> HIDE DEF m, x
  <2>4. \A r \in RangeSet(x) : r.name # Of(m).name
    BY <1>4, <1>5, <2>1, <2>3
  <2>5. g[s] \in Ranges /\ Names(g[s]) /\ RangeSet(g[s]) = RangeSet(x) \cup {Of(m)}
    BY <1>5, <1>6, <2>1, <2>2, <2>3, <2>4, WithRangeIs
  <2>6. RangeSet(g[s]) = {Of(i) : i \in s}
    BY <2>1, <2>3, <2>5
  <2> QED
    BY <2>5, <2>6
<1>14. g[1 .. n] \in A[1 .. n]
  <2> HIDE DEF A
  <2>1. 1 .. n \in SUBSET (0 .. n)
    BY <1>3
  <2> QED
    BY <1>3, <1>12, <1>13, <2>1, FoldHolds
<1>15. /\ g[1 .. n] \in Ranges /\ Names(g[1 .. n])
       /\ RangeSet(g[1 .. n]) = {Of(i) : i \in 1 .. n}
  BY <1>14
<1>16. {Of(i) : i \in 1 .. n} = {BlobRange(t, x) : x \in DOMAIN t}
  <2>1. \A i \in 1 .. n : Of(i) \in {BlobRange(t, x) : x \in DOMAIN t}
    BY <1>3, <1>5
  <2>2. \A x \in DOMAIN t : BlobRange(t, x) \in {Of(i) : i \in 1 .. n}
    BY <1>3, <1>5
  <2> QED
    BY <2>1, <2>2
<1> QED
  BY <1>11, <1>15, <1>16 DEF Rebuilt, t

\* The list of ranges is the one on disk, and each range of it has its RangeKeyDir.
Listed(g) ==
  /\ Good(g) /\ g.disk.meta = g.mem.ranges /\ Names(g.mem.ranges)
  /\ \A r \in RangeSet(g.mem.ranges) : Straight(r) /\ Fitting(r, g)

\* There are RangeKeyDirs only where there are ranges.
Peopled(h) == h.mem.ranges = <<>> => DOMAIN h.disk.rkds = {}

LEMMA RebuildGood ==
  ASSUME NEW F, NEW files \in F, NEW h \in Work(F, files), Good(h), Slots(h) = {}
  PROVE  LET g == RebuildRanges(h) IN
         g \in Work(F, files) /\ Listed(g) /\ Peopled(g) /\ g.disk.split = h.disk.split
<1>1. PICK q : Rebuilt(h, q) /\ RebuildRanges(h) = SaveRangeMetadata(WithRanges(h, q))
  BY RebuildsRanges
<1> DEFINE w == WithRanges(h, q)
           g == SaveRangeMetadata(w)
           t == h.disk.rkds
<1>2. q \in Ranges /\ Names(q) /\ \A r \in RangeSet(q) : \E n \in DOMAIN t : r = BlobRange(t, n)
  BY <1>1 DEF Rebuilt
<1>3. w \in Work(F, files)
  BY <1>2, RangesKeep DEF WithRanges
<1>4. Good(w) /\ Alike(h, w) /\ w.mem.ranges = q /\ w.disk = h.disk
  BY RangesGood
<1> HIDE DEF w
<1>5. g \in Work(F, files)
  BY <1>3, MetaKeeps
<1>6. ASSUME NEW r \in RangeSet(q)
      PROVE  Straight(r) /\ Fitting(r, w)
  <2>1. PICK n \in DOMAIN t : r = BlobRange(t, n)
    BY <1>2
  <2>2. r.name = n /\ r.min = t[n].min /\ r.max = t[n].max
    BY <2>1 DEF BlobRange, Bounds
  <2>3. n # 0 /\ Hull(t[n])
    BY DEF Good, GoodBut, DiskOK
  <2>4. Straight(r)
    BY <2>2, <2>3 DEF Straight, Hull, NoKey
  <2>5. Fits(r, t[n].entries)
    BY <2>2, <2>3 DEF Fits, Covers, Hull, NoKey
  <2>6. Slots(w) = {}
    BY <1>4, AlikeFacts
  <2> QED
    BY <1>4, <2>2, <2>4, <2>5, <2>6 DEF Fitting, Kept
<1>7. /\ Good(g) /\ Alike(w, g) /\ g.mem = w.mem
      /\ g.disk.split = w.disk.split /\ g.disk.meta = w.mem.ranges
  BY <1>2, <1>3, <1>4, <1>6, MetaGood
<1> HIDE DEF g
<1>8. \A r \in RangeSet(q) : Fitting(r, g)
  BY <1>6, <1>7, AlikeFacts
<1>9. Listed(g)
  BY <1>2, <1>4, <1>6, <1>7, <1>8 DEF Listed
<1>10. ASSUME g.mem.ranges = <<>>
       PROVE  DOMAIN g.disk.rkds = {}
  <2>1. RangeSet(q) = {}
    BY <1>4, <1>7, <1>10 DEF RangeSet
  <2>2. RangeSet(q) = {BlobRange(t, n) : n \in DOMAIN t}
    BY <1>1 DEF Rebuilt
  <2>3. g.disk.rkds = t
    BY <1>4, <1>7 DEF Alike
  <2> QED
    BY <2>1, <2>2, <2>3
<1> QED
  BY <1>1, <1>4, <1>5, <1>7, <1>9, <1>10 DEF g, w, Peopled

LEMMA ListedSettled ==
  ASSUME NEW g, Listed(g), g.disk.split = <<>>
  PROVE  Settled(g)
BY DEF Listed, Settled

LEMMA RemoveGood ==
  ASSUME NEW F, NEW files \in F, NEW h \in Work(F, files), Good(h), Slots(h) = {},
         h.disk.split # <<>>, NEW n
  PROVE  LET g == RemoveBlob(h, n) IN
         g \in Work(F, files) /\ Good(g) /\ Slots(g) = {} /\ g.disk.split = h.disk.split
<1> DEFINE t == [m \in DOMAIN h.disk.rkds \ {n} |-> h.disk.rkds[m]]
           d == [h.disk EXCEPT !.rkds = t]
           g == RemoveBlob(h, n)
           A == DisksOf(F)
<1>1. g \in Work(F, files)
  BY RemoveBlobKeeps
<1>2. /\ g.disk = d /\ g.mem = h.mem /\ g.trace = Append(h.trace, d)
  BY DEF RemoveBlob, Write, Work
<1>3. d.rkds = t /\ d.split = h.disk.split
  BY DEF Work, Disks
<1> HIDE DEF d, g
<1>4. \A m \in DOMAIN t : m \in DOMAIN h.disk.rkds /\ t[m] = h.disk.rkds[m]
  OBVIOUS
<1> HIDE DEF t
<1>5. DiskOK(d)
  BY <1>3, <1>4 DEF DiskOK, Good, GoodBut
<1>6. Slots(g) = {}
  BY <1>2 DEF Slots
<1>7. h.trace \in Seq(A) /\ \A i \in DOMAIN h.trace : DiskOK(h.trace[i])
  BY DEF Work, Good, GoodBut
<1> HIDE DEF A
<1>8. \A i \in DOMAIN g.trace : DiskOK(g.trace[i])
  BY <1>2, <1>5, <1>7, TraceOK
<1>9. Good(g)
  BY <1>2, <1>3, <1>5, <1>6, <1>8 DEF Good, GoodBut, Coherent
<1> QED
  BY <1>1, <1>2, <1>3, <1>6, <1>9 DEF g

LEMMA PendingGood ==
  ASSUME NEW F, NEW files \in F, NEW h \in Work(F, files), Good(h), Slots(h) = {},
         h.disk.split = <<>> => Listed(h) /\ Peopled(h)
  PROVE  Settled(RecoverPendingSplit(h)) /\ Peopled(RecoverPendingSplit(h))
<1>1. CASE h.disk.split = <<>>
  BY <1>1, ListedSettled DEF RecoverPendingSplit
<1>2. CASE h.disk.split # <<>>
  <2> DEFINE a == RemoveBlob(h, h.disk.split[1])
             g == IF SplitComplete(h.disk) /\ h.disk.split[1] \in DOMAIN h.disk.rkds
                  THEN a ELSE h
             r == RebuildRanges(g)
             w == Write(r, DiskSplit(r.disk, <<>>))
  <2>1. a \in Work(F, files) /\ Good(a) /\ Slots(a) = {}
    BY <1>2, RemoveGood
  <2>2. RecoverPendingSplit(h) = w
    BY <1>2 DEF RecoverPendingSplit, DiskSplit
  <2> HIDE DEF a
  <2>3. g \in Work(F, files) /\ Good(g) /\ Slots(g) = {}
    BY <2>1
  <2> HIDE DEF g
  <2>4. r \in Work(F, files) /\ Listed(r) /\ Peopled(r)
    BY <2>3, RebuildGood
  <2> HIDE DEF r
  <2>5. Settled(w)
    BY <2>4, UnmarkGood DEF Listed
  <2>6. w.mem = r.mem /\ w.disk.rkds = r.disk.rkds
    BY <2>4 DEF Write, DiskSplit, Work, Disks
  <2> HIDE DEF w
  <2>7. Peopled(w)
    BY <2>4, <2>6 DEF Peopled
  <2> QED
    BY <2>2, <2>5, <2>7
<1> QED
  BY <1>1, <1>2

LEMMA OpeningGood ==
  ASSUME NEW files, NEW d \in Disks(files), DiskOK(d)
  PROVE  LET h == Opening(d) IN
         /\ Good(h) /\ Slots(h) = {} /\ h.disk = d /\ h.mem.ranges = <<>>
<1> DEFINE h == Opening(d)
<1>1. h.disk = d /\ h.trace = <<>> /\ h.mem.cache = <<>> /\ h.mem.nextFileId = 2
      /\ h.mem.ranges = <<>>
  BY DEF Opening, Closed
<1> HIDE DEF h
<1>2. Slots(h) = {} /\ DOMAIN h.trace = {}
  BY <1>1 DEF Slots
<1>3. d.split = <<>> => \A i \in DOMAIN d.meta : Fitting(d.meta[i], h)
  BY <1>1, <1>2 DEF DiskOK, Fitting
<1> QED
  BY <1>1, <1>2, <1>3 DEF Good, GoodBut, Coherent, h

LEMMA InitialGood ==
  ASSUME NEW F, NEW files \in F, NEW h \in Work(F, files), Good(h), h.disk.split = <<>>,
         h.disk.meta = <<>>
  PROVE  LET z == CreateInitialRange(h) IN
         Settled(z) /\ RangeSet(z.mem.ranges) = {Bounds(NoKey, NoKey, 1)} /\ Entr(z, 1) = <<>>
<1> DEFINE r == NewRkd(NoKey, NoKey, 0)
           g == SaveRangeKeyDir(h, 1, r)
           b == Bounds(NoKey, NoKey, 1)
           w == WithRanges(g, <<b>>)
           z == SaveRangeMetadata(w)
<1>1. CreateInitialRange(h) = z
  BY DEF CreateInitialRange, WithRanges
<1>2. r \in Rkds(files) /\ Hull(r) /\ r.entries = <<>>
  BY NewRkdOf, NewRkdHull DEF NoKey
<1> HIDE DEF r
<1>3. Savable(h, 1, r)
  BY DEF Savable
<1>4. Saved(h, g, 1, r)
  BY <1>2, <1>3, SaveGood
<1>5. g \in Work(F, files)
  BY <1>2, SaveKeeps
<1> HIDE DEF g
<1>6. b \in RangeRec /\ b.name = 1 /\ b.min = NoKey
  BY BoundsOf DEF NoKey, Bounds
<1> HIDE DEF b
<1>7. Straight(b) /\ Fits(b, r.entries)
  BY <1>2, <1>6 DEF Straight, Fits
<1>8. Good(g) /\ g.disk.split = <<>> /\ Fitting(b, g)
  BY <1>4, <1>6, <1>7 DEF Saved, Frame
<1>9. <<b>> \in Ranges /\ RangeSet(<<b>>) = {b} /\ Names(<<b>>)
  <2>1. <<b>> \in Seq(RangeRec) /\ DOMAIN <<b>> = {1} /\ <<b>>[1] = b /\ Len(<<b>>) = 1
    BY <1>6
  <2> QED
    BY <1>6, <2>1 DEF Ranges, RangeRec, RangeSet, Names
<1>10. w \in Work(F, files)
  BY <1>5, <1>9, RangesKeep DEF WithRanges
<1>11. Good(w) /\ Alike(g, w) /\ w.mem.ranges = <<b>> /\ w.disk = g.disk
  BY <1>5, <1>8, RangesGood
<1> HIDE DEF w
<1>12. Fitting(b, w)
  BY <1>8, <1>11, AlikeFacts
<1>13. /\ Good(z) /\ z.mem = w.mem /\ z.disk.split = w.disk.split /\ z.disk.meta = w.mem.ranges
       /\ Alike(w, z)
  BY <1>7, <1>9, <1>10, <1>11, <1>12, MetaGood
<1>14. Entr(z, 1) = <<>>
  BY <1>2, <1>4, <1>11, <1>13, AlikeFacts DEF Saved
<1>15. RangeSet(z.mem.ranges) = {b}
  BY <1>9, <1>11, <1>13
<1> HIDE DEF z
<1> QED
  BY <1>1, <1>8, <1>11, <1>13, <1>14, <1>15 DEF Settled, b

LEMMA ReopenedGood ==
  ASSUME NEW files, NEW d \in Disks(files), DiskOK(d)
  PROVE  Settled(Reopened(d)) /\ Peopled(Reopened(d))
<1> DEFINE F == {files}
           h == Opening(d)
           g == WithRanges(h, d.meta)
           r == RebuildRanges(h)
<1>1. h \in Work(F, files)
  BY OpeningOf
<1> files \in F
  OBVIOUS
<1>2. Good(h) /\ Slots(h) = {} /\ h.disk = d /\ h.mem.ranges = <<>>
  BY OpeningGood
<1>3. Reopened(d) = IF d.meta = <<>> /\ d.split = <<>> /\ DOMAIN d.rkds = {}
                    THEN CreateInitialRange(h)
                    ELSE RecoverPendingSplit(IF d.meta = <<>> THEN r ELSE g)
  BY DEF Reopened, WithRanges
<1> HIDE DEF h, F
<1>4. CASE d.meta = <<>> /\ d.split = <<>> /\ DOMAIN d.rkds = {}
  <2>1. /\ Settled(CreateInitialRange(h))
        /\ RangeSet(CreateInitialRange(h).mem.ranges) = {Bounds(NoKey, NoKey, 1)}
    BY <1>1, <1>2, <1>4, InitialGood
  <2>2. CreateInitialRange(h).mem.ranges # <<>>
    BY <2>1 DEF RangeSet
  <2> QED
    BY <1>3, <1>4, <2>1, <2>2 DEF Peopled
<1>5. r \in Work(F, files) /\ Listed(r) /\ Peopled(r) /\ Slots(r) = {}
  <2>1. r \in Work(F, files) /\ Listed(r) /\ Peopled(r)
    BY <1>1, <1>2, RebuildGood
  <2>2. PICK q : RebuildRanges(h) = SaveRangeMetadata(WithRanges(h, q))
    BY <1>1, RebuildsRanges
  <2>3. r.mem.cache = h.mem.cache
    BY <1>1, <2>2 DEF SaveRangeMetadata, Write, WithRanges, Work, Memories
  <2> QED
    BY <1>2, <2>1, <2>3 DEF Slots
<1>6. g \in Work(F, files) /\ Good(g) /\ Slots(g) = {} /\ (g.disk.split = <<>> => Listed(g))
       /\ g.mem.ranges = d.meta
  <2>1. d.meta \in Ranges
    BY DiskTables
  <2>2. g \in Work(F, files)
    BY <1>1, <2>1, RangesKeep DEF WithRanges
  <2>3. Good(g) /\ Alike(h, g) /\ g.mem.ranges = d.meta /\ g.disk = d
    BY <1>1, <1>2, RangesGood
  <2> HIDE DEF g
  <2>4. Slots(g) = {}
    BY <1>2, <2>3, AlikeFacts
  <2>5. ASSUME d.split = <<>>
        PROVE  Listed(g)
    <3>1. Names(d.meta) /\ \A i \in DOMAIN d.meta : Straight(d.meta[i]) /\ Fitting(d.meta[i], g)
      BY <2>3, <2>5 DEF DiskOK, Good, GoodBut
    <3> QED
      BY <2>3, <3>1 DEF Listed, RangeSet
  <2> QED
    BY <2>2, <2>3, <2>4, <2>5
<1>7. CASE ~(d.meta = <<>> /\ d.split = <<>> /\ DOMAIN d.rkds = {})
  <2> HIDE DEF r, g
  <2>1. CASE d.meta = <<>>
    <3>1. Settled(RecoverPendingSplit(r)) /\ Peopled(RecoverPendingSplit(r))
      BY <1>5, PendingGood DEF Listed
    <3> QED
      BY <1>3, <1>7, <2>1, <3>1
  <2>2. CASE d.meta # <<>>
    <3>0. Peopled(g)
      BY <1>6, <2>2 DEF Peopled
    <3>1. Settled(RecoverPendingSplit(g)) /\ Peopled(RecoverPendingSplit(g))
      BY <1>6, <3>0, PendingGood
    <3> QED
      BY <1>3, <1>7, <2>2, <3>1
  <2> QED
    BY <2>1, <2>2
<1> QED
  BY <1>4, <1>7

-----------------------------------------------------------------------------
(* An open with recovery.                                                    *)

\* What the scan of barrel2 has at any time: ranges it found, that are not saved yet, and the
\* entries for them; and those for the others.
ScanOK(a, m) ==
  /\ Good(a) /\ a.disk.split = <<>> /\ Names(a.mem.ranges)
  /\ RangeSet(a.disk.meta) \subseteq RangeSet(a.mem.ranges)
  /\ \A r \in RangeSet(a.mem.ranges) :
       /\ Straight(r) /\ Fits(r, Entr(a, r.name))
       /\ r.name \in DOMAIN m => Fits(r, m[r.name])
       /\ r \in RangeSet(a.disk.meta) \/ (r.name < a.mem.nextFileId /\ r.name \in DOMAIN m)
  /\ \A n \in DOMAIN m : \E r \in RangeSet(a.mem.ranges) : r.name = n
  /\ DOMAIN m = {} => a.mem.ranges = a.disk.meta

\* One more entry for a range.
MapPut(m, n, k, v) == Put(m, n, Put(IF n \in DOMAIN m THEN m[n] ELSE <<>>, k, v))

LEMMA ScanFound ==
  ASSUME NEW F, NEW files \in F, NEW a \in Work(F, files), NEW m \in Maps(files), ScanOK(a, m),
         NEW k \in Key, NEW v, NEW n, n = FindRange(a.mem.ranges, k), n # 0
  PROVE  ScanOK(Load(a, n), MapPut(m, n, k, v))
<1> DEFINE g == Load(a, n)
           p == MapPut(m, n, k, v)
<1>1. a.mem.ranges \in Ranges /\ Good(a)
  BY DEF Work, Memories, ScanOK
<1>2. PICK b \in RangeSet(a.mem.ranges) : b.name = n /\ Covers(b, k)
  BY <1>1, FindsOne
<1>3. n \in Nat
  BY <1>1, FindRangeType
<1>4. Good(g) /\ Frame(a, g, {})
  BY <1>1, <1>3, LoadGood
<1> HIDE DEF g
<1>5. /\ g.mem.ranges = a.mem.ranges /\ g.mem.nextFileId = a.mem.nextFileId
      /\ g.disk.meta = a.disk.meta /\ g.disk.split = a.disk.split
      /\ \A x : Entr(g, x) = Entr(a, x)
  BY <1>4 DEF Frame
<1>6. /\ DOMAIN p = DOMAIN m \cup {n}
      /\ \A x \in DOMAIN m : x # n => p[x] = m[x]
      /\ p[n] = Put(IF n \in DOMAIN m THEN m[n] ELSE <<>>, k, v)
  BY DEF MapPut, Put
<1> HIDE DEF p
<1>7. ASSUME NEW r \in RangeSet(a.mem.ranges), r.name \in DOMAIN p
      PROVE  Fits(r, p[r.name])
  <2>1. CASE r.name # n
    BY <1>6, <1>7, <2>1 DEF ScanOK
  <2>2. CASE r.name = n
    <3>1. r = b
      BY <1>2, <2>2, NamedOnce DEF ScanOK
    <3> DEFINE old == IF n \in DOMAIN m THEN m[n] ELSE <<>>
    <3>2. Fits(b, old)
      BY <1>2 DEF ScanOK, Fits
    <3> HIDE DEF old
    <3>3. Fits(b, Put(old, k, v))
      BY <1>2, <3>2, FitsPut
    <3> QED
      BY <1>6, <2>2, <3>1, <3>3 DEF old
  <2> QED
    BY <2>1, <2>2
<1>8. /\ a.disk.split = <<>> /\ Names(a.mem.ranges)
      /\ RangeSet(a.disk.meta) \subseteq RangeSet(a.mem.ranges)
  BY DEF ScanOK
<1>9. ASSUME NEW r \in RangeSet(a.mem.ranges)
      PROVE  /\ Straight(r) /\ Fits(r, Entr(a, r.name))
             /\ r \in RangeSet(a.disk.meta) \/ (r.name < a.mem.nextFileId /\ r.name \in DOMAIN p)
  BY <1>6 DEF ScanOK
<1>10. \A x \in DOMAIN p : \E r \in RangeSet(a.mem.ranges) : r.name = x
  BY <1>2, <1>6 DEF ScanOK
<1>11. DOMAIN p # {}
  BY <1>6
<1>12. ScanOK(g, p)
  BY <1>4, <1>5, <1>7, <1>8, <1>9, <1>10, <1>11 DEF ScanOK
<1> QED
  BY <1>12 DEF g, p

LEMMA ScanMissed ==
  ASSUME NEW F, NEW files \in F, NEW a \in Work(F, files), NEW m \in Maps(files), ScanOK(a, m),
         NEW k \in Key, NEW v, NEW n, n = a.mem.nextFileId, n \notin DOMAIN a.disk.rkds,
         NEW b, b = Bounds(k, k, n),
         NEW c, c = WithRanges(Fresh(a), WithRange(a.mem.ranges, b)), c \in Work(F, files)
  PROVE  ScanOK(Load(c, n), MapPut(m, n, k, v))
<1> DEFINE w == Fresh(a)
           q == a.mem.ranges
           new == WithRange(q, b)
           g == Load(c, n)
           p == MapPut(m, n, k, v)
<1>1. q \in Ranges /\ n \in Nat /\ Good(a) /\ n # 0 /\ k \in Nat /\ k # 0
  BY KeyFacts DEF Work, Memories, ScanOK, Good, GoodBut
<1>2. w \in Work(F, files)
  BY FreshKeeps
<1>3. /\ Good(w) /\ Alike(a, w) /\ w.disk = a.disk /\ w.mem.nextFileId = a.mem.nextFileId + 1
  BY <1>1, FreshGood
<1> HIDE DEF w, new
<1>4. /\ Good(c) /\ Alike(w, c) /\ c.mem.ranges = new /\ c.disk = a.disk
      /\ c.mem.nextFileId = n + 1
  BY <1>2, <1>3, RangesGood DEF w, new
<1>5. \A x : Entr(c, x) = Entr(a, x)
  BY <1>3, <1>4, AlikeFacts
<1>6. Good(g) /\ Frame(c, g, {})
  BY <1>1, <1>4, LoadGood
<1> HIDE DEF g
<1>7. /\ g.mem.ranges = new /\ g.mem.nextFileId = n + 1
      /\ g.disk.meta = a.disk.meta /\ g.disk.split = <<>>
      /\ \A x : Entr(g, x) = Entr(a, x)
  BY <1>4, <1>5, <1>6 DEF Frame, ScanOK
<1>8. b \in RangeRec /\ b.name = n /\ b.min = k /\ b.max = k
  BY <1>1, BoundsOf DEF Bounds
<1>9. ASSUME NEW r \in RangeSet(q)
      PROVE  /\ Straight(r) /\ Fits(r, Entr(a, r.name)) /\ r.name # n
             /\ r.name \in DOMAIN m => Fits(r, m[r.name])
             /\ r \in RangeSet(a.disk.meta) \/ (r.name < n + 1 /\ r.name \in DOMAIN m)
  <2>1. /\ Straight(r) /\ Fits(r, Entr(a, r.name))
        /\ r.name \in DOMAIN m => Fits(r, m[r.name])
        /\ r \in RangeSet(a.disk.meta) \/ (r.name < n /\ r.name \in DOMAIN m)
    BY DEF ScanOK
  <2>2. CASE r \in RangeSet(a.disk.meta)
    <3>1. r.name \in DOMAIN a.disk.rkds
      BY <2>2 DEF ScanOK, Good, GoodBut, Fitting, Kept, RangeSet
    <3> QED
      BY <2>1, <2>2, <3>1
  <2>3. CASE r.name < n /\ r.name \in DOMAIN m
    <3>1. r.name \in Nat
      BY MapsFacts, <2>3
    <3> QED
      BY <1>1, <2>1, <2>3, <3>1
  <2> QED
    BY <2>1, <2>2, <2>3
<1>10. RangeSet(new) = RangeSet(q) \cup {b} /\ Names(new)
  BY <1>1, <1>8, <1>9, WithRangeIs DEF ScanOK, new
<1>11. n \notin DOMAIN m
  BY <1>9 DEF ScanOK
<1>12. /\ DOMAIN p = DOMAIN m \cup {n}
       /\ \A x \in DOMAIN m : x # n => p[x] = m[x]
       /\ p[n] = Put(<<>>, k, v)
  BY <1>11 DEF MapPut, Put
<1> HIDE DEF p
<1>13. Straight(b) /\ Fits(b, p[n])
  <2>1. Straight(b)
    BY <1>1, <1>8 DEF Straight
  <2>2. Fits(b, <<>>)
    BY DEF Fits
  <2>3. Covers(b, k)
    BY <1>1, <1>8 DEF Covers
  <2> QED
    BY <1>12, <2>1, <2>2, <2>3, FitsPut
<1>14. Entr(a, n) = <<>>
  <2>1. \A s \in Slots(a) : s.name # n
    BY <1>1 DEF Good, GoodBut, Coherent
  <2> QED
    BY <2>1, EntrWhere
<1>15. ASSUME NEW r \in RangeSet(new)
       PROVE  /\ Straight(r) /\ Fits(r, Entr(g, r.name))
              /\ r.name \in DOMAIN p => Fits(r, p[r.name])
              /\ r \in RangeSet(a.disk.meta) \/ (r.name < n + 1 /\ r.name \in DOMAIN p)
  <2>1. CASE r \in RangeSet(q)
    BY <1>7, <1>9, <1>12, <2>1
  <2>2. CASE r = b
    <3>1. Fits(r, Entr(g, r.name))
      BY <1>7, <1>8, <1>14, <2>2 DEF Fits
    <3>2. n < n + 1
      BY <1>1
    <3> QED
      BY <1>8, <1>12, <1>13, <2>2, <3>1, <3>2
  <2> QED
    BY <1>10, <2>1, <2>2
<1>16. \A x \in DOMAIN p : \E r \in RangeSet(new) : r.name = x
  BY <1>8, <1>10, <1>12 DEF ScanOK
<1>17. RangeSet(a.disk.meta) \subseteq RangeSet(new) /\ DOMAIN p # {}
  BY <1>10, <1>12 DEF ScanOK
<1>18. ScanOK(g, p)
  BY <1>6, <1>7, <1>10, <1>15, <1>16, <1>17 DEF ScanOK
<1> QED
  BY <1>18 DEF g, p

ScanSound(st) == ~st.area.clash => ScanOK(st.area, st.map)

LEMMA ScanStepGood ==
  ASSUME NEW F, NEW files \in F, NEW a \in Work(F, files), NEW m \in Maps(files),
         NEW r \in FoundRecord(files), ScanSound([area |-> a, map |-> m])
  PROVE  LET t == ScanStep([area |-> a, map |-> m], r) IN
         ScanSound(t) /\ (a.clash => t.area.clash)
<1> DEFINE k     == r.key
           found == FindRange(a.mem.ranges, k)
           n     == IF found = 0 THEN a.mem.nextFileId ELSE found
           f     == Fresh(a)
           b     == Bounds(k, k, n)
           c     == WithRanges(f, WithRange(a.mem.ranges, b))
           g     == IF found # 0 THEN a ELSE c
           v     == EntryOf(r.file, r.pos)
           t     == ScanStep([area |-> a, map |-> m], r)
<1>1. k \in Key
  BY DEF FoundRecord
<1>2. f \in Work(F, files) /\ f.mem.ranges = a.mem.ranges
      /\ (f.clash <=> a.clash \/ a.mem.nextFileId \in DOMAIN a.disk.rkds)
  <2>1. f \in Work(F, files)
    BY FreshKeeps
  <2>2. f.mem.ranges = a.mem.ranges
        /\ (f.clash <=> a.clash \/ a.mem.nextFileId \in DOMAIN a.disk.rkds)
    BY DEF Fresh, Work, Memories
  <2> QED
    BY <2>1, <2>2
<1>3. t = [area |-> Load(g, n), map |-> MapPut(m, n, k, v)]
  BY <1>2 DEF ScanStep, MapPut, WithRanges
<1> HIDE DEF t, f, v
<1>4. found \in Nat /\ a.mem.nextFileId \in Nat /\ a.mem.ranges \in Ranges
  <2>1. a.mem.nextFileId \in Nat /\ a.mem.ranges \in Ranges
    BY DEF Work, Memories
  <2> QED
    BY <2>1, FindRangeType
<1> HIDE DEF found
<1>5. n \in Nat
  BY <1>4
<1>6. c \in Work(F, files) /\ c.clash = f.clash
  <2>1. k \in Nat
    BY <1>1, KeyFacts
  <2>2. WithRange(a.mem.ranges, b) \in Ranges
    BY <1>4, <1>5, <2>1, BoundsOf, WithRangeSorts
  <2> HIDE DEF b, n
  <2>3. c \in Work(F, files)
    BY <1>2, <2>2, RangesKeep DEF WithRanges
  <2>4. c.clash = f.clash
    BY <1>2 DEF WithRanges, Work
  <2> QED
    BY <2>3, <2>4
<1>7. g \in Work(F, files)
  BY <1>6
<1>8. Load(g, n).clash = g.clash
  BY <1>7, CachePutClash DEF Load
<1>9. t.area = Load(g, n) /\ t.map = MapPut(m, n, k, v)
  BY <1>3
<1>10. a.clash => t.area.clash
  BY <1>2, <1>6, <1>8, <1>9
<1>11. ASSUME ~t.area.clash
       PROVE  ScanOK(t.area, t.map)
  <2>1. ~a.clash /\ ScanOK(a, m)
    BY <1>10, <1>11 DEF ScanSound
  <2>2. CASE found # 0
    BY <1>1, <1>9, <2>1, <2>2, ScanFound DEF found
  <2>3. CASE found = 0
    <3>1. n = a.mem.nextFileId /\ g = c
      BY <2>3
    <3>2. n \notin DOMAIN a.disk.rkds
      BY <1>2, <1>6, <1>8, <1>9, <1>11, <3>1
    <3> HIDE DEF g, n
    <3>3. ScanOK(Load(c, n), MapPut(m, n, k, v))
      BY <1>1, <1>6, <2>1, <3>1, <3>2, ScanMissed DEF f
    <3> QED
      BY <1>9, <3>1, <3>3
  <2> QED
    BY <2>2, <2>3
<1> QED
  BY <1>10, <1>11 DEF ScanSound, t

\* A key is in the map, where nothing is marked as deleted.
InMap(m, k) == \E n \in DOMAIN m : k \in DOMAIN m[n]
Live(m)     == \A n \in DOMAIN m : \A k \in DOMAIN m[n] : ~m[n][k].del

LEMMA ScanStepMaps ==
  ASSUME NEW st, NEW r, Live(st.map)
  PROVE  LET t == ScanStep(st, r) IN
         Live(t.map) /\ InMap(t.map, r.key) /\ \A k : InMap(st.map, k) => InMap(t.map, k)
<1> DEFINE m == st.map
           t == ScanStep(st, r)
           v == EntryOf(r.file, r.pos)
<1>1. PICK n : t.map = MapPut(m, n, r.key, v)
  BY DEF ScanStep, MapPut
<1> HIDE DEF t
<1>2. ~v.del
  BY DEF EntryOf
<1> HIDE DEF v
<1> DEFINE old == IF n \in DOMAIN m THEN m[n] ELSE <<>>
<1>3. /\ DOMAIN t.map = DOMAIN m \cup {n} /\ t.map[n] = Put(old, r.key, v)
      /\ \A x \in DOMAIN m : x # n => t.map[x] = m[x]
  BY <1>1 DEF MapPut, Put
<1>4. /\ DOMAIN t.map[n] = DOMAIN old \cup {r.key} /\ t.map[n][r.key] = v
      /\ \A k \in DOMAIN old : k # r.key => t.map[n][k] = old[k]
  BY <1>3 DEF Put
<1>5. \A k \in DOMAIN old : n \in DOMAIN m /\ k \in DOMAIN m[n] /\ ~old[k].del
  BY DEF Live
<1>6. n \in DOMAIN m => old = m[n]
  OBVIOUS
<1> HIDE DEF old
<1>7. Live(t.map)
  <2> SUFFICES ASSUME NEW x \in DOMAIN t.map, NEW k \in DOMAIN t.map[x]
               PROVE  ~t.map[x][k].del
    BY DEF Live
  <2>1. CASE x = n
    BY <1>2, <1>4, <1>5, <2>1
  <2>2. CASE x # n
    BY <1>3, <2>2 DEF Live
  <2> QED
    BY <2>1, <2>2
<1>8. InMap(t.map, r.key)
  BY <1>3, <1>4 DEF InMap
<1>9. ASSUME NEW k, InMap(m, k)
      PROVE  InMap(t.map, k)
  <2>1. PICK x \in DOMAIN m : k \in DOMAIN m[x]
    BY <1>9 DEF InMap
  <2>2. x \in DOMAIN t.map /\ k \in DOMAIN t.map[x]
    BY <1>3, <1>4, <1>6, <2>1
  <2> QED
    BY <2>2 DEF InMap
<1> QED
  BY <1>7, <1>8, <1>9 DEF t

\* What the map has of a key is a record of those of q in s, and the last one if the map has the
\* key in one range only.
Latest(m, q, s) ==
  \A n \in DOMAIN m : \A k \in DOMAIN m[n] :
    \E j \in s : /\ q[j].key = k /\ m[n][k] = EntryOf(q[j].file, q[j].pos)
                 /\ \A i \in s : q[i].key = k /\ j < i =>
                      \E x \in DOMAIN m : x # n /\ k \in DOMAIN m[x]

LEMMA ScanStepLatest ==
  ASSUME NEW st, NEW q, NEW s \in SUBSET Nat, NEW i \in Nat, \A j \in s : j < i,
         Latest(st.map, q, s)
  PROVE  Latest(ScanStep(st, q[i]).map, q, s \cup {i})
<1> DEFINE m == st.map
           r == q[i]
           t == ScanStep(st, r)
           v == EntryOf(r.file, r.pos)
<1>1. PICK n : t.map = MapPut(m, n, r.key, v)
  BY DEF ScanStep, MapPut
<1> HIDE DEF t
<1> DEFINE p   == t.map
           old == IF n \in DOMAIN m THEN m[n] ELSE <<>>
<1>2. /\ DOMAIN p = DOMAIN m \cup {n} /\ p[n] = Put(old, r.key, v)
      /\ \A x \in DOMAIN m : x # n => p[x] = m[x]
  BY <1>1 DEF MapPut, Put
<1>3. /\ DOMAIN p[n] = DOMAIN old \cup {r.key} /\ p[n][r.key] = v
      /\ \A k \in DOMAIN old : k # r.key => p[n][k] = old[k]
  BY <1>2 DEF Put
<1>4. \A k \in DOMAIN old : n \in DOMAIN m /\ k \in DOMAIN m[n] /\ old[k] = m[n][k]
  OBVIOUS
<1>5. n \in DOMAIN m => old = m[n]
  OBVIOUS
<1> HIDE DEF old, p
<1>6. \A x \in DOMAIN m : x \in DOMAIN p /\ DOMAIN m[x] \subseteq DOMAIN p[x]
  BY <1>2, <1>3, <1>5
<1> SUFFICES ASSUME NEW x \in DOMAIN p, NEW k \in DOMAIN p[x]
             PROVE  \E j \in s \cup {i} :
                      /\ q[j].key = k /\ p[x][k] = EntryOf(q[j].file, q[j].pos)
                      /\ \A e \in s \cup {i} : q[e].key = k /\ j < e =>
                           \E y \in DOMAIN p : y # x /\ k \in DOMAIN p[y]
  BY DEF Latest, p, t
<1>7. CASE x = n /\ k = r.key
  <2>1. q[i].key = k /\ p[x][k] = EntryOf(q[i].file, q[i].pos)
    BY <1>3, <1>7 DEF v
  <2>2. \A e \in s \cup {i} : ~(i < e)
    OBVIOUS
  <2> QED
    BY <2>1, <2>2
<1>8. CASE ~(x = n /\ k = r.key)
  <2>1. x \in DOMAIN m /\ k \in DOMAIN m[x] /\ p[x][k] = m[x][k]
    BY <1>2, <1>3, <1>4, <1>8
  <2>2. PICK j \in s : /\ q[j].key = k /\ m[x][k] = EntryOf(q[j].file, q[j].pos)
                       /\ \A e \in s : q[e].key = k /\ j < e =>
                            \E y \in DOMAIN m : y # x /\ k \in DOMAIN m[y]
    BY <2>1 DEF Latest
  <2>3. ASSUME NEW e \in s \cup {i}, q[e].key = k, j < e
        PROVE  \E y \in DOMAIN p : y # x /\ k \in DOMAIN p[y]
    <3>1. CASE e \in s
      BY <1>6, <2>2, <2>3, <3>1
    <3>2. CASE e = i
      <4>1. k = r.key /\ x # n
        BY <1>8, <2>3, <3>2
      <4> QED
        BY <1>2, <1>3, <4>1
    <3> QED
      BY <3>1, <3>2
  <2> QED
    BY <2>1, <2>2, <2>3
<1> QED
  BY <1>7, <1>8

\* The entries of h are those of the area of a scan.
Still(h, a) == ~a.clash => \A n : Entr(a, n) = Entr(h, n)

\* The scan of barrel2: the keys of all records it reports are in the map, with the last of their
\* records, and no entry has changed yet.
Scans(h, st, files) ==
  /\ ScanSound(st) /\ Live(st.map)
  /\ \A i \in DOMAIN Scanned(files) : InMap(st.map, Scanned(files)[i].key)
  /\ Latest(st.map, Scanned(files), DOMAIN Scanned(files))
  /\ Still(h, st.area)
  /\ DOMAIN st.map = {} => st.area = h

LEMMA ScanStepStill ==
  ASSUME NEW F, NEW files \in F, NEW a \in Work(F, files), NEW m \in Maps(files),
         NEW r \in FoundRecord(files), ScanSound([area |-> a, map |-> m])
  PROVE  Still(a, ScanStep([area |-> a, map |-> m], r).area)
<1> DEFINE k     == r.key
           found == FindRange(a.mem.ranges, k)
           n     == IF found = 0 THEN a.mem.nextFileId ELSE found
           w     == Fresh(a)
           new   == WithRange(a.mem.ranges, Bounds(k, k, n))
           c     == WithRanges(w, new)
           t     == ScanStep([area |-> a, map |-> m], r)
<1>1. /\ t.area = Load(IF found # 0 THEN a ELSE c, n)
      /\ a.clash => t.area.clash
  <2>1. w.mem.ranges = a.mem.ranges
    BY DEF Fresh, Work, Memories
  <2> HIDE DEF w, new
  <2>2. t.area = Load(IF found # 0 THEN a ELSE c, n)
    BY <2>1 DEF ScanStep, WithRanges, w, new
  <2>3. a.clash => t.area.clash
    BY ScanStepGood
  <2> QED
    BY <2>2, <2>3
<1>2. a.mem.nextFileId \in Nat /\ a.mem.ranges \in Ranges /\ found \in Nat /\ k \in Key
  <2>1. a.mem.nextFileId \in Nat /\ a.mem.ranges \in Ranges
    BY DEF Work, Memories
  <2> QED
    BY <2>1, FindRangeType DEF FoundRecord
<1> SUFFICES ASSUME ~t.area.clash
             PROVE  \A x : Entr(t.area, x) = Entr(a, x)
  BY DEF Still
<1>3. Good(a)
  BY <1>1 DEF ScanSound, ScanOK
<1> HIDE DEF t
<1>4. CASE found # 0
  <2>1. t.area = Load(a, found)
    BY <1>1, <1>4
  <2> HIDE DEF found
  <2>2. Frame(a, Load(a, found), {})
    BY <1>2, <1>3, LoadGood
  <2> QED
    BY <2>1, <2>2 DEF Frame
<1>5. CASE found = 0
  <2>1. n = a.mem.nextFileId /\ n \in Nat /\ t.area = Load(c, n)
    BY <1>1, <1>2, <1>5
  <2> HIDE DEF n, found
  <2>2. w \in Work(F, files) /\ Good(w) /\ Alike(a, w)
    BY <1>3, FreshKeeps, FreshGood
  <2>3. new \in Ranges
    <3>1. k \in Nat
      BY <1>2, KeyFacts
    <3> QED
      BY <1>2, <2>1, <3>1, BoundsOf, WithRangeSorts
  <2> HIDE DEF w, new
  <2>4. c \in Work(F, files) /\ Good(c) /\ Alike(w, c)
    <3>1. c \in Work(F, files)
      BY <2>2, <2>3, RangesKeep DEF WithRanges
    <3> QED
      BY <2>2, <2>3, <3>1, RangesGood
  <2>5. \A x : Entr(c, x) = Entr(a, x)
    BY <2>2, <2>4, AlikeFacts
  <2> HIDE DEF c
  <2>6. Frame(c, Load(c, n), {})
    BY <2>1, <2>4, LoadGood
  <2> QED
    BY <2>1, <2>5, <2>6 DEF Frame
<1> QED
  BY <1>4, <1>5

LEMMA ScanGood ==
  ASSUME NEW F, NEW files \in F, files \in Files, NEW h \in Work(F, files), Settled(h)
  PROVE  Scans(h, RecoveryMap(h), files)
<1> DEFINE W == {st \in [area : Work(F, files), map : Maps(files)] : ScanSound(st)}
           base == [area |-> h, map |-> <<>>]
           q == Scanned(files)
           n == Len(q)
           IsFold(f) == f = [s \in SUBSET (1 .. n) |-> IF s = {} THEN base
                               ELSE ScanStep(f[s \ {Max(s)}], q[Max(s)])]
           G == [x \in W \X (1 .. n) |-> ScanStep(x[1], q[x[2]])]
<1>1. base \in W
  <2>1. <<>> \in [{} -> Founds(files)] /\ Bounded({}) /\ DOMAIN <<>> = {}
    BY BoundedFacts
  <2>2. <<>> \in Maps(files)
    BY <2>1 DEF Maps
  <2>3. RangeSet(h.disk.meta) = RangeSet(h.mem.ranges)
    BY DEF Settled
  <2>4. ScanOK(h, <<>>)
    BY <2>1, <2>3, SettledFacts DEF ScanOK, Settled
  <2> QED
    BY <2>2, <2>4 DEF ScanSound
<1>2. q \in Seq(FoundRecord(files))
  BY ScannedFound
<1>3. h.disk.files = files
  BY DEF Work, Disks
<1> HIDE DEF q, base
<1>4. n \in Nat /\ DOMAIN q = 1 .. n /\ \A i \in 1 .. n : q[i] \in FoundRecord(files)
  BY <1>2
<1>5. ASSUME NEW st \in W, NEW i \in 1 .. n
      PROVE  ScanStep(st, q[i]) \in W
  <2>1. st = [area |-> st.area, map |-> st.map] /\ st.area \in Work(F, files) /\ st.map \in Maps(files)
        /\ ScanSound([area |-> st.area, map |-> st.map])
    OBVIOUS
  <2>2. /\ ScanStep([area |-> st.area, map |-> st.map], q[i]) \in
             [area : Work(F, files), map : Maps(files)]
        /\ ScanSound(ScanStep([area |-> st.area, map |-> st.map], q[i]))
    BY <1>4, <2>1, ScanStepKeeps, ScanStepGood
  <2> QED
    BY <2>1, <2>2
<1> HIDE DEF n, W
<1>6. G \in [W \X (1 .. n) -> W]
  BY <1>5
<1> HIDE DEF G
<1>7. PICK f \in [SUBSET (1 .. n) -> W] : Folds(f, 1 .. n, base, G)
  BY <1>1, <1>4, <1>6, FoldOver
<1>8. IsFold(f)
  <2> SUFFICES ASSUME NEW s \in SUBSET (1 .. n), s # {}
               PROVE  f[s] = ScanStep(f[s \ {Max(s)}], q[Max(s)])
    BY <1>7 DEF Folds
  <2>1. <<f[s \ {Max(s)}], Max(s)>> \in W \X (1 .. n)
    BY <1>4, <1>7, MaxIn
  <2> QED
    BY <1>7, <2>1 DEF Folds, G
<1>9. PICK g : IsFold(g) /\ RecoveryMap(h) = g[1 .. n]
  <2>1. RecoveryMap(h) = (CHOOSE g : IsFold(g))[1 .. n]
    BY <1>3, <1>4 DEF RecoveryMap, FoldLeft, MapThenFoldSet, q, base
  <2> HIDE DEF IsFold
  <2> QED
    BY <1>8, <2>1
<1> DEFINE A == [s \in SUBSET (1 .. n) |->
                   {st \in W : /\ Live(st.map) /\ \A i \in s : InMap(st.map, q[i].key)
                               /\ Latest(st.map, q, s) /\ Still(h, st.area)}]
<1>10. g[{}] \in A[{}]
  <2>1. g[{}] = base /\ {} \in SUBSET (1 .. n)
    BY <1>9
  <2>2. Live(base.map) /\ Latest(base.map, q, {}) /\ Still(h, base.area)
    BY DEF Live, Latest, Still, base
  <2> QED
    BY <1>1, <2>1, <2>2
<1>11. ASSUME NEW s \in SUBSET (1 .. n), s # {}, g[s \ {Max(s)}] \in A[s \ {Max(s)}]
       PROVE  g[s] \in A[s]
  <2> DEFINE m == Max(s)
             x == g[s \ {m}]
  <2>1. m \in s /\ m \in 1 .. n
    <3>1. n \in Nat /\ s \in SUBSET (0 .. n)
      BY <1>4
    <3> QED
      BY <1>11, <3>1, MaxOf
  <2>2. g[s] = ScanStep(x, q[m])
    BY <1>9, <1>11
  <2>3. /\ x \in W /\ Live(x.map) /\ \A i \in s \ {m} : InMap(x.map, q[i].key)
        /\ Latest(x.map, q, s \ {m}) /\ Still(h, x.area)
    BY <1>11
  <2>7. \A i \in s \ {m} : i < m
    <3>1. n \in Nat /\ s \in SUBSET (0 .. n)
      BY <1>4
    <3>2. \A i \in s : i <= m
      BY <1>11, <3>1, MaxOf
    <3>3. s \in SUBSET Nat /\ m \in Nat
      BY <2>1, <3>1
    <3> HIDE DEF m
    <3> QED
      BY <3>2, <3>3
  <2> HIDE DEF m, x
  <2>4. g[s] \in W
    BY <1>5, <2>1, <2>2, <2>3
  <2>5. /\ Live(g[s].map) /\ InMap(g[s].map, q[m].key)
        /\ \A k : InMap(x.map, k) => InMap(g[s].map, k)
    BY <2>2, <2>3, ScanStepMaps
  <2>6. \A i \in s : InMap(g[s].map, q[i].key)
    BY <2>3, <2>5
  <2>8. Latest(g[s].map, q, s)
    <3>1. s \ {m} \in SUBSET Nat /\ m \in Nat /\ s = (s \ {m}) \cup {m}
      BY <1>4, <2>1
    <3>2. \A j \in s \ {m} : j < m
      BY <2>7
    <3>3. Latest(ScanStep(x, q[m]).map, q, (s \ {m}) \cup {m})
      BY <2>3, <3>1, <3>2, ScanStepLatest
    <3> QED
      BY <2>2, <3>1, <3>3
  <2>9. Still(h, g[s].area)
    <3>1. /\ x = [area |-> x.area, map |-> x.map] /\ x.area \in Work(F, files)
          /\ x.map \in Maps(files) /\ ScanSound([area |-> x.area, map |-> x.map])
          /\ q[m] \in FoundRecord(files)
      BY <1>4, <2>1, <2>3 DEF W
    <3>2. Still(x.area, ScanStep([area |-> x.area, map |-> x.map], q[m]).area)
          /\ (x.area.clash => ScanStep([area |-> x.area, map |-> x.map], q[m]).area.clash)
      BY <3>1, ScanStepStill, ScanStepGood
    <3>3. Still(x.area, g[s].area) /\ (x.area.clash => g[s].area.clash)
      BY <2>2, <3>1, <3>2
    <3> QED
      BY <2>3, <3>3 DEF Still
  <2> QED
    BY <2>4, <2>5, <2>6, <2>8, <2>9
<1>12. g[1 .. n] \in A[1 .. n]
  <2> HIDE DEF A
  <2>1. 1 .. n \in SUBSET (0 .. n)
    BY <1>4
  <2> QED
    BY <1>4, <1>10, <1>11, <2>1, FoldHolds
<1> DEFINE st == g[1 .. n]
<1>13. /\ st \in W /\ Live(st.map) /\ \A i \in 1 .. n : InMap(st.map, q[i].key)
       /\ Latest(st.map, q, 1 .. n) /\ Still(h, st.area)
  BY <1>12
<1>14. n = 0 => st = base
  BY <1>9
<1> HIDE DEF st
<1>15. ASSUME DOMAIN st.map = {}
       PROVE  st.area = h
  <2>1. \A i \in 1 .. n : FALSE
    BY <1>13, <1>15 DEF InMap
  <2>2. n = 0
    BY <1>4, <2>1
  <2> QED
    BY <1>14, <2>2 DEF base
<1>16. Scans(h, st, files)
  BY <1>4, <1>13, <1>15 DEF W, Scans, q, n
<1> QED
  BY <1>9, <1>16 DEF st

\* The entries t have all that e has.
Shows(t, e) == \A k \in DOMAIN e : k \in DOMAIN t /\ t[k] = e[k]

\* The entries t have of other keys than those of e what u has.
Rest(t, e, u) ==
  \A k : k \notin DOMAIN e => (k \in DOMAIN t <=> k \in DOMAIN u) /\ (k \in DOMAIN u => t[k] = u[k])

LEMMA RestLinks ==
  ASSUME NEW t, NEW e, NEW u, NEW v, Rest(t, e, u), Rest(u, e, v)
  PROVE  Rest(t, e, v)
BY DEF Rest

LEMMA MergedGood ==
  ASSUME NEW F, NEW files \in F, NEW h \in Work(F, files), NEW e \in Founds(files), NEW name,
         Hull(Loaded(h, name))
  PROVE  /\ Hull(Merged(h, e, name))
         /\ DOMAIN Merged(h, e, name).entries \subseteq DOMAIN Entr(h, name) \cup DOMAIN e
         /\ Shows(Merged(h, e, name).entries, e)
         /\ Rest(Merged(h, e, name).entries, e, Entr(h, name))
<1> DEFINE base == Loaded(h, name)
           K == DOMAIN base.entries \cup DOMAIN e
           W == {r \in Rkds(files) : /\ Hull(r) /\ DOMAIN r.entries \subseteq K
                                    /\ Rest(r.entries, e, base.entries)}
           q == Ascending(DOMAIN e)
           n == Len(q)
           IsFold(f) == f = [s \in SUBSET (1 .. n) |-> IF s = {} THEN base
                               ELSE Inserted(f[s \ {Max(s)}], q[Max(s)], e[q[Max(s)]])]
           G == [x \in W \X (1 .. n) |-> Inserted(x[1], q[x[2]], e[q[x[2]]])]
           In(r, i) == q[i] \in DOMAIN r.entries /\ r.entries[q[i]] = e[q[i]]
           A == [s \in SUBSET (1 .. n) |-> {r \in W : \A i \in s : In(r, i)}]
<1>1. base \in W
  BY LoadedOf DEF Rest
<1>2. q \in Seq(DOMAIN e) /\ \A k \in DOMAIN e : \E i \in 1 .. Len(q) : q[i] = k
  <2>1. DOMAIN e \in SUBSET Key
    BY DEF Founds, Entries
  <2>2. DOMAIN e \in SUBSET (0 .. MaxKey) /\ MaxKey \in Nat
    BY <2>1, KeysBounded, BoundFacts
  <2> QED
    BY <2>2, AscendingSorts DEF Sorted
<1> HIDE DEF q
<1>3. n \in Nat /\ DOMAIN q = 1 .. n /\ \A i \in 1 .. n : q[i] \in DOMAIN e
  BY <1>2
<1> HIDE DEF base
<1>4. ASSUME NEW r \in W, NEW i \in 1 .. n
      PROVE  /\ Inserted(r, q[i], e[q[i]]) \in W
             /\ \A j \in 1 .. n : In(r, j) \/ j = i => In(Inserted(r, q[i], e[q[i]]), j)
  <2> DEFINE k == q[i]
             g == Inserted(r, k, e[k])
  <2>1. k \in DOMAIN e /\ k \in Key
    BY <1>3, FoundFacts
  <2>2. r \in Rkds(files) /\ Hull(r) /\ DOMAIN r.entries \subseteq K
        /\ Rest(r.entries, e, base.entries)
    OBVIOUS
  <2> HIDE DEF k, g, W
  <2>3. g \in Rkds(files)
    BY <2>1, <2>2, FoundFacts, InsertedOf DEF g
  <2>4. Hull(g) /\ g.entries = Put(r.entries, k, e[k])
    BY <2>1, <2>2, InsertedHull DEF g
  <2>5. DOMAIN g.entries = DOMAIN r.entries \cup {k}
    BY <2>4 DEF Put
  <2>8. Rest(g.entries, e, base.entries)
    <3>1. Rest(g.entries, e, r.entries)
      BY <2>1, <2>4, <2>5 DEF Rest, Put
    <3> QED
      BY <2>2, <3>1, RestLinks
  <2>6. g \in W
    BY <2>1, <2>2, <2>3, <2>4, <2>5, <2>8 DEF W
  <2>7. \A j \in 1 .. n : In(r, j) \/ j = i => In(g, j)
    BY <2>4 DEF Put, k
  <2> QED
    BY <2>6, <2>7 DEF g, k
<1> HIDE DEF n, W
<1>5. G \in [W \X (1 .. n) -> W]
  BY <1>4
<1> HIDE DEF G
<1>6. PICK f \in [SUBSET (1 .. n) -> W] : Folds(f, 1 .. n, base, G)
  BY <1>1, <1>3, <1>5, FoldOver
<1>7. IsFold(f)
  <2> SUFFICES ASSUME NEW s \in SUBSET (1 .. n), s # {}
               PROVE  f[s] = Inserted(f[s \ {Max(s)}], q[Max(s)], e[q[Max(s)]])
    BY <1>6 DEF Folds
  <2>1. <<f[s \ {Max(s)}], Max(s)>> \in W \X (1 .. n)
    BY <1>3, <1>6, MaxIn
  <2> QED
    BY <1>6, <2>1 DEF Folds, G
<1>8. PICK g : IsFold(g) /\ Merged(h, e, name) = g[1 .. n]
  BY <1>3, <1>7 DEF Merged, FoldLeft, MapThenFoldSet, q, base
<1> HIDE DEF In
<1>9. g[{}] \in A[{}]
  BY <1>1, <1>8
<1>10. ASSUME NEW s \in SUBSET (1 .. n), s # {}, g[s \ {Max(s)}] \in A[s \ {Max(s)}]
       PROVE  g[s] \in A[s]
  <2> DEFINE m == Max(s)
             x == g[s \ {m}]
  <2>1. m \in s /\ m \in 1 .. n
    <3>1. n \in Nat /\ s \in SUBSET (0 .. n)
      BY <1>3
    <3> QED
      BY <1>10, <3>1, MaxOf
  <2>2. g[s] = Inserted(x, q[m], e[q[m]])
    BY <1>8, <1>10
  <2>3. x \in W /\ \A i \in s \ {m} : In(x, i)
    BY <1>10
  <2> HIDE DEF m, x
  <2>4. g[s] \in W /\ \A j \in 1 .. n : In(x, j) \/ j = m => In(g[s], j)
    BY <1>4, <2>1, <2>2, <2>3
  <2>5. \A i \in s : In(g[s], i)
    BY <1>10, <2>3, <2>4
  <2> QED
    BY <2>4, <2>5
<1>11. g[1 .. n] \in A[1 .. n]
  <2> HIDE DEF A
  <2>1. 1 .. n \in SUBSET (0 .. n)
    BY <1>3
  <2> QED
    BY <1>3, <1>9, <1>10, <2>1, FoldHolds
<1>12. g[1 .. n] \in W /\ \A i \in 1 .. n : In(g[1 .. n], i)
  BY <1>11
<1>13. Shows(g[1 .. n].entries, e)
  BY <1>2, <1>12 DEF Shows, In, n
<1> QED
  BY <1>8, <1>12, <1>13 DEF W, Entr, base

\* g has the entries of h, in the ranges D with those of the map in their places.
Spared(h, g, m, D) ==
  \A n : IF n \in D THEN Rest(Entr(g, n), m[n], Entr(h, n)) ELSE Entr(g, n) = Entr(h, n)

\* The ranges of the scan, those in D with their entries.
Recovering(h, g, m, D) ==
  /\ Good(g) /\ g.disk.split = <<>>
  /\ g.mem.ranges = h.mem.ranges /\ g.disk.meta = h.disk.meta
  /\ \A r \in RangeSet(h.mem.ranges) :
       /\ Fits(r, Entr(g, r.name))
       /\ r \in RangeSet(h.disk.meta) \/ r.name \in D => Fitting(r, g)
  /\ \A n \in D : Shows(Entr(g, n), m[n])
  /\ Spared(h, g, m, D)

LEMMA RecoverRangeGood ==
  ASSUME NEW F, NEW files \in F, NEW h \in Work(F, files), NEW m \in Maps(files), ScanOK(h, m),
         NEW g \in Work(F, files), NEW D, Recovering(h, g, m, D), NEW n \in DOMAIN m
  PROVE  Recovering(h, RecoverRange(g, m[n], n), m, D \cup {n})
<1> DEFINE l   == Load(g, n)
           rkd == Merged(g, m[n], n)
           x   == Flushed(rkd)
           z   == SaveRangeKeyDir(l, n, x)
<1>1. PICK b \in RangeSet(h.mem.ranges) : b.name = n
  BY DEF ScanOK
<1>2. n \in Nat /\ n # 0 /\ m[n] \in Founds(files) /\ Fits(b, m[n]) /\ Fits(b, Entr(g, n))
  BY <1>1, MapsFacts DEF ScanOK, Straight, Recovering
<1>3. l \in Work(F, files) /\ Good(l) /\ Frame(g, l, {}) /\ Hull(Loaded(g, n))
  BY <1>2, LoadKeeps, LoadGood DEF Recovering
<1>4. rkd \in Rkds(files) /\ Hull(rkd) /\ Shows(rkd.entries, m[n])
      /\ DOMAIN rkd.entries \subseteq DOMAIN Entr(g, n) \cup DOMAIN m[n]
      /\ Rest(rkd.entries, m[n], Entr(g, n))
  BY <1>2, <1>3, MergedOf, MergedGood
<1> HIDE DEF rkd, l
<1>5. x \in Rkds(files) /\ Hull(x) /\ x.entries = rkd.entries
  BY <1>4, FlushedOf, FlushedHull
<1>6. Fits(b, x.entries)
  BY <1>2, <1>4, <1>5 DEF Fits
<1> HIDE DEF x
<1>7. /\ l.mem.ranges = h.mem.ranges /\ l.disk.meta = h.disk.meta /\ l.disk.split = <<>>
      /\ \A y : Entr(l, y) = Entr(g, y)
      /\ \A r : Fitting(r, g) => Fitting(r, l)
  BY <1>3 DEF Frame, Recovering
<1>8. \A r \in RangeSet(h.mem.ranges) : r.name = n => r = b
  BY <1>1, NamedOnce DEF ScanOK
<1>9. Savable(l, n, x)
  <2> SUFFICES ASSUME NEW i \in DOMAIN l.disk.meta, l.disk.meta[i].name = n
               PROVE  Fits(l.disk.meta[i], x.entries)
    BY DEF Savable
  <2>1. l.disk.meta[i] \in RangeSet(h.mem.ranges)
    BY <1>7 DEF RangeSet, ScanOK
  <2> QED
    BY <1>6, <1>8, <2>1
<1>10. Saved(l, z, n, x)
  BY <1>2, <1>3, <1>5, <1>9, SaveGood
<1> HIDE DEF z
<1>11. /\ Good(z) /\ z.mem.ranges = h.mem.ranges /\ z.disk.meta = h.disk.meta
       /\ z.disk.split = <<>> /\ Entr(z, n) = x.entries
       /\ \A y : y # n => Entr(z, y) = Entr(g, y)
       /\ \A r : r.name # n /\ Fitting(r, g) => Fitting(r, z)
       /\ \A r : r.name = n /\ Fits(r, x.entries) => Fitting(r, z)
  BY <1>7, <1>10 DEF Saved, Frame
<1>12. ASSUME NEW r \in RangeSet(h.mem.ranges)
       PROVE  /\ Fits(r, Entr(z, r.name))
              /\ r \in RangeSet(h.disk.meta) \/ r.name \in D \cup {n} => Fitting(r, z)
  <2>1. CASE r.name = n
    BY <1>6, <1>8, <1>11, <2>1
  <2>2. CASE r.name # n
    BY <1>11, <2>2 DEF Recovering
  <2> QED
    BY <2>1, <2>2
<1>13. ASSUME NEW y \in D \cup {n}
       PROVE  Shows(Entr(z, y), m[y])
  <2>1. CASE y = n
    BY <1>4, <1>5, <1>11, <2>1
  <2>2. CASE y # n
    BY <1>11, <2>2 DEF Recovering
  <2> QED
    BY <2>1, <2>2
<1>15. Spared(h, z, m, D \cup {n})
  <2> SUFFICES ASSUME NEW y
               PROVE  IF y \in D \cup {n} THEN Rest(Entr(z, y), m[y], Entr(h, y))
                      ELSE Entr(z, y) = Entr(h, y)
    BY DEF Spared
  <2>1. IF y \in D THEN Rest(Entr(g, y), m[y], Entr(h, y)) ELSE Entr(g, y) = Entr(h, y)
    BY DEF Recovering, Spared
  <2>2. CASE y = n
    <3>1. Rest(Entr(z, y), m[y], Entr(g, y))
      BY <1>4, <1>5, <1>11, <2>2
    <3> QED
      BY <2>1, <2>2, <3>1, RestLinks
  <2>3. CASE y # n
    BY <1>11, <2>1, <2>3
  <2> QED
    BY <2>2, <2>3
<1>14. Recovering(h, z, m, D \cup {n})
  BY <1>11, <1>12, <1>13, <1>15 DEF Recovering
<1> QED
  BY <1>14 DEF RecoverRange, z, x, l, rkd

LEMMA RecoverClash ==
  ASSUME NEW F, NEW files \in F, NEW g \in Work(F, files), NEW e \in Founds(files), NEW n \in Nat
  PROVE  RecoverRange(g, e, n) \in Work(F, files) /\ RecoverRange(g, e, n).clash = g.clash
<1> DEFINE l == Load(g, n)
           x == Flushed(Merged(g, e, n))
           p == PutBlob(l, n, x)
           y == [x EXCEPT !.dirty = FALSE]
<1>1. x \in Rkds(files)
  BY MergedOf, FlushedOf
<1>2. l \in Work(F, files) /\ l.clash = g.clash
  BY LoadKeeps, CachePutClash DEF Load
<1>3. RecoverRange(g, e, n) = SaveRangeKeyDir(l, n, x)
  BY DEF RecoverRange
<1> HIDE DEF x, l
<1>4. p \in Work(F, files) /\ p.clash = l.clash
  BY <1>1, <1>2, PutBlobKeeps, WriteClash DEF PutBlob
<1> HIDE DEF p
<1>5. CachePut(p, n, y).clash = p.clash
  BY <1>4, CachePutClash
<1>6. SaveRangeKeyDir(l, n, x) = CachePut(p, n, y)
  BY DEF SaveRangeKeyDir, p
<1>7. SaveRangeKeyDir(l, n, x) \in Work(F, files)
  BY <1>1, <1>2, SaveKeeps
<1> QED
  BY <1>2, <1>3, <1>4, <1>5, <1>6, <1>7

\* What the scan found is there, and nothing was done if it found nothing.
Rescued(h, m, g) ==
  /\ Settled(g) /\ g.mem.ranges = h.mem.ranges
  /\ DOMAIN m = {} => g = h
  /\ \A n \in DOMAIN m : Shows(Entr(g, n), m[n])
  /\ Spared(h, g, m, DOMAIN m)
Recovered(h, m, g) == g.clash = h.clash /\ (~g.clash /\ ScanOK(h, m) => Rescued(h, m, g))

LEMMA RecoverGood ==
  ASSUME NEW F, NEW files \in F, NEW h \in Work(F, files), NEW m \in Maps(files),
         NEW order \in SetToSeqs(DOMAIN m)
  PROVE  Recovered(h, m, RebuildFromBarrel2(h, m, order))
<1> DEFINE W == {g \in Work(F, files) : g.clash = h.clash}
           n == Len(order)
           R == FoldLeft(LAMBDA g, name : RecoverRange(g, m[name], name), h, order)
           IsFold(f) == f = [s \in SUBSET (1 .. n) |-> IF s = {} THEN h
                               ELSE RecoverRange(f[s \ {Max(s)}], m[order[Max(s)]], order[Max(s)])]
           G == [x \in W \X (1 .. n) |-> RecoverRange(x[1], m[order[x[2]]], order[x[2]])]
           S(s) == {order[i] : i \in s}
           A == [s \in SUBSET (1 .. n) |->
                   {g \in W : ScanOK(h, m) => Recovering(h, g, m, S(s))}]
<1>1. order \in Seq(DOMAIN m) /\ S(1 .. n) = DOMAIN m
  <2> DEFINE c == Cardinality(DOMAIN m)
  <2>1. c \in Nat /\ IsFiniteSet(DOMAIN m)
    BY MapsFacts, BoundedFacts, FS_CardinalityType
  <2>2. order \in [1 .. c -> DOMAIN m] /\ \A i, j \in 1 .. c : i # j => order[i] # order[j]
    BY DEF SetToSeqs
  <2>3. order \in Injection(1 .. c, DOMAIN m)
    BY <2>2 DEF Injection, IsInjective
  <2>4. Cardinality(1 .. c) = c
    BY <2>1, FS_Interval
  <2>5. order \in Surjection(1 .. c, DOMAIN m)
    BY <2>1, <2>3, <2>4, FS_Injection
  <2> HIDE DEF c
  <2>6. n = c /\ order \in Seq(DOMAIN m)
    BY <2>1, <2>2
  <2>7. \A x \in DOMAIN m : \E i \in 1 .. c : order[i] = x
    BY <2>2, <2>5 DEF Surjection
  <2> HIDE DEF n
  <2>8. \A x \in S(1 .. n) : x \in DOMAIN m
    BY <2>2, <2>6
  <2>9. \A x \in DOMAIN m : x \in S(1 .. n)
    BY <2>6, <2>7
  <2> HIDE DEF S
  <2> QED
    BY <2>6, <2>8, <2>9
<1>2. n \in Nat /\ DOMAIN order = 1 .. n
      /\ \A i \in 1 .. n : order[i] \in DOMAIN m
  BY <1>1
<1>3. ASSUME NEW g \in W, NEW i \in 1 .. n
      PROVE  RecoverRange(g, m[order[i]], order[i]) \in W
  <2>1. order[i] \in Nat /\ m[order[i]] \in Founds(files)
    BY <1>2, MapsFacts
  <2> QED
    BY <2>1, RecoverClash
<1> HIDE DEF n
<1>4. h \in W /\ G \in [W \X (1 .. n) -> W]
  <2>1. h \in W
    OBVIOUS
  <2> HIDE DEF W
  <2> QED
    BY <1>3, <2>1
<1> HIDE DEF G
<1>5. PICK f \in [SUBSET (1 .. n) -> W] : Folds(f, 1 .. n, h, G)
  <2> HIDE DEF W
  <2> QED
    BY <1>2, <1>4, FoldOver
<1>6. IsFold(f)
  <2> HIDE DEF W
  <2> SUFFICES ASSUME NEW s \in SUBSET (1 .. n), s # {}
               PROVE  f[s] = RecoverRange(f[s \ {Max(s)}], m[order[Max(s)]], order[Max(s)])
    BY <1>5 DEF Folds
  <2>1. <<f[s \ {Max(s)}], Max(s)>> \in W \X (1 .. n)
    BY <1>2, <1>5, MaxIn
  <2> QED
    BY <1>5, <2>1 DEF Folds, G
<1>7. PICK g : IsFold(g) /\ R = g[1 .. n]
  BY <1>2, <1>6 DEF FoldLeft, MapThenFoldSet
<1> HIDE DEF R
<1>8. g[{}] \in A[{}]
  <2>1. g[{}] = h /\ {} \in SUBSET (1 .. n)
    BY <1>7
  <2>2. ASSUME ScanOK(h, m)
        PROVE  Recovering(h, h, m, {})
    <3>1. \A r \in RangeSet(h.disk.meta) : Fitting(r, h)
      BY <2>2 DEF ScanOK, Good, GoodBut, RangeSet
    <3> QED
      BY <2>2, <3>1 DEF ScanOK, Recovering, Spared
  <2>3. S({}) = {}
    OBVIOUS
  <2> QED
    BY <1>4, <2>1, <2>2, <2>3
<1>9. ASSUME NEW s \in SUBSET (1 .. n), s # {}, g[s \ {Max(s)}] \in A[s \ {Max(s)}]
      PROVE  g[s] \in A[s]
  <2> DEFINE i == Max(s)
             x == g[s \ {i}]
  <2>1. i \in s /\ i \in 1 .. n
    <3>1. n \in Nat /\ s \in SUBSET (0 .. n)
      BY <1>2
    <3> QED
      BY <1>9, <3>1, MaxOf
  <2>2. g[s] = RecoverRange(x, m[order[i]], order[i])
    BY <1>7, <1>9
  <2>3. x \in W /\ (ScanOK(h, m) => Recovering(h, x, m, S(s \ {i})))
    BY <1>9
  <2>4. g[s] \in W
    BY <1>3, <2>1, <2>2, <2>3
  <2> HIDE DEF i, x
  <2>5. S(s) = S(s \ {i}) \cup {order[i]}
    BY <2>1
  <2>6. order[i] \in DOMAIN m /\ x \in Work(F, files)
    BY <1>2, <2>1, <2>3
  <2> HIDE DEF S, W
  <2>7. ASSUME ScanOK(h, m)
        PROVE  Recovering(h, g[s], m, S(s))
    <3> DEFINE D == S(s \ {i})
               y == order[i]
               z == RecoverRange(x, m[y], y)
    <3>1. Recovering(h, x, m, D) /\ y \in DOMAIN m
      BY <2>3, <2>6, <2>7
    <3> HIDE DEF D, y
    <3>2. Recovering(h, z, m, D \cup {y})
      BY <2>6, <2>7, <3>1, RecoverRangeGood
    <3> QED
      BY <2>2, <2>5, <3>2 DEF D, y
  <2> QED
    BY <2>4, <2>7
<1>10. g[1 .. n] \in A[1 .. n]
  <2> HIDE DEF A
  <2>1. 1 .. n \in SUBSET (0 .. n)
    BY <1>2
  <2> QED
    BY <1>2, <1>8, <1>9, <2>1, FoldHolds
<1>11. R \in Work(F, files) /\ R.clash = h.clash /\ (ScanOK(h, m) => Recovering(h, R, m, DOMAIN m))
  BY <1>1, <1>7, <1>10 DEF n
<1> DEFINE z == RebuildFromBarrel2(h, m, order)
<1>12. z = IF order = <<>> THEN h ELSE SaveRangeMetadata(R)
  BY DEF RebuildFromBarrel2, R
<1>13. z.clash = h.clash
  BY <1>11, <1>12, WriteClash DEF SaveRangeMetadata
<1>14. ASSUME ScanOK(h, m)
       PROVE  Rescued(h, m, z)
  <2>1. CASE order = <<>>
    <3>1. n = 0
      BY <2>1 DEF n
    <3>2. 1 .. n = {}
      BY <3>1
    <3>3. S({}) = {}
      OBVIOUS
    <3> HIDE DEF S
    <3>4. DOMAIN m = {}
      BY <1>1, <3>2, <3>3
    <3>5. Spared(h, h, m, DOMAIN m)
      BY <3>4 DEF Spared
    <3> QED
      BY <1>12, <1>14, <2>1, <3>4, <3>5 DEF ScanOK, Settled, Rescued
  <2>2. CASE order # <<>>
    <3>1. Good(R) /\ R.disk.split = <<>> /\ R.mem.ranges = h.mem.ranges /\ Names(h.mem.ranges)
      BY <1>11, <1>14 DEF Recovering, ScanOK
    <3>2. \A r \in RangeSet(R.mem.ranges) : Straight(r) /\ Fitting(r, R)
      BY <1>11, <1>14, <3>1 DEF Recovering, ScanOK
    <3> DEFINE y == SaveRangeMetadata(R)
    <3>3. /\ Good(y) /\ y.mem = R.mem /\ y.disk.split = R.disk.split /\ y.disk.meta = R.mem.ranges
          /\ Alike(R, y)
      BY <1>11, <3>1, <3>2, MetaGood
    <3> HIDE DEF y
    <3>4. DOMAIN m # {}
      BY <1>1, <1>2, <2>2 DEF n
    <3>5. \A x \in DOMAIN m : Shows(Entr(y, x), m[x])
      BY <1>11, <1>14, <3>3, AlikeFacts DEF Recovering
    <3>6. Spared(h, y, m, DOMAIN m)
      <4>1. \A x : Entr(y, x) = Entr(R, x)
        BY <3>3, AlikeFacts
      <4>2. Spared(h, R, m, DOMAIN m)
        BY <1>11, <1>14 DEF Recovering
      <4> QED
        BY <4>1, <4>2 DEF Spared
    <3> QED
      BY <1>12, <2>2, <3>1, <3>3, <3>4, <3>5, <3>6 DEF Settled, Rescued, y
  <2> QED
    BY <2>1, <2>2
<1> HIDE DEF z
<1> QED
  BY <1>13, <1>14 DEF Recovered, z

-----------------------------------------------------------------------------
(* The steps.                                                                *)

\* As long as the ranges are sound, whatever the disk is an open can go on from it; and an open
\* barrel reads what the last call made of a key.
RInv ==
  /\ IInv
  /\ sound => /\ DiskOK(disk)
              /\ mem.isOpen => Steady(Area) /\ \A k \in Key : Read(Area, k) = want[k]

Landed(h) == [mem |-> h.mem, disk |-> h.disk, trace |-> <<>>, clash |-> FALSE]

LEMMA Lands ==
  ASSUME NEW h, Steady(h)
  PROVE  Steady(Landed(h)) /\ \A k : Read(Landed(h), k) = Read(h, k)
<1> DEFINE a == Landed(h)
<1>1. a.mem = h.mem /\ a.disk = h.disk /\ a.trace = <<>> /\ Alike(h, a)
  BY DEF Landed, Alike
<1> HIDE DEF a
<1>2. Good(a)
  BY <1>1, AlikeFacts DEF Steady, Settled, Good, GoodBut
<1>3. Steady(a)
  BY <1>1, <1>2 DEF Steady, Settled
<1>4. \A n : Entr(a, n) = Entr(h, n)
  BY <1>1, AlikeFacts
<1>5. ASSUME NEW k
      PROVE  Read(a, k) = Read(h, k)
  BY <1>1, <1>4, ReadSame
<1> QED
  BY <1>3, <1>5 DEF a

\* What a finished call, or one that the process died in, leaves.
Lasting(h) ==
  /\ DiskOK(disk')
  /\ mem'.isOpen => /\ Steady(Area') /\ disk' = h.disk
                    /\ \A k : Read(Area', k) = Read(h, k)

LEMMA FinishGood ==
  ASSUME NEW h, Finish(h), sound', DisksOK(h), h.mem.isOpen => Steady(h)
  PROVE  Lasting(h)
<1>1. CASE disk' = h.disk /\ mem' = h.mem
  <2>1. Area' = Landed(h)
    BY <1>1 DEF Area, Landed
  <2>2. Steady(h) => Steady(Area') /\ \A k : Read(Area', k) = Read(h, k)
    BY <2>1, Lands
  <2> QED
    BY <1>1, <2>2 DEF Lasting, DisksOK
<1>2. ASSUME NEW i \in DOMAIN h.trace, disk' = h.trace[i], mem' = Closed
      PROVE  Lasting(h)
  <2>1. mem'.isOpen = FALSE
    BY <1>2 DEF Closed
  <2> QED
    BY <1>2, <2>1 DEF Lasting, DisksOK
<1> QED
  BY <1>1, <1>2 DEF Finish

\* The same for a call that ends with a sound barrel, if its ranges are.
LEMMA SettledFinish ==
  ASSUME NEW h, Finish(h), sound', ~h.clash => Settled(h)
  PROVE  Lasting(h)
<1>1. ~h.clash /\ ~Overlap(h.mem.ranges)
  BY DEF Finish
<1>2. Steady(h)
  BY <1>1 DEF Steady
<1>3. DisksOK(h)
  BY <1>2 DEF Steady, Settled, Good, GoodBut, DisksOK
<1> QED
  BY <1>2, <1>3, FinishGood

LEMMA RInitHolds == Init => RInv
<1> SUFFICES ASSUME Init
             PROVE  RInv
  OBVIOUS
<1>1. disk.rkds = <<>> /\ disk.meta = <<>> /\ mem.isOpen = FALSE
  BY DEF Init, EmptyDisk, Closed
<1>2. DiskOK(disk)
  BY <1>1 DEF DiskOK, Names
<1> QED
  BY <1>1, <1>2, InitKeeps DEF RInv

LEMMA NowSteady ==
  ASSUME RInv, sound, mem.isOpen
  PROVE  /\ Area \in Work({disk.files}, disk.files) /\ Steady(Area) /\ Settled(Area)
         /\ \A k \in Key : Read(Area, k) = want[k]
BY AreaOf DEF RInv, Steady

\* The record that a call appended, if its end is on disk.
LEMMA NoteIs ==
  ASSUME NEW k \in Key, NotesRecord(k), NEW f,
         f \in DOMAIN disk'.files, f \in DOMAIN disk.files => disk'.files[f] # disk.files[f],
         \A x \in DOMAIN disk'.files : x # f =>
           x \in DOMAIN disk.files /\ disk'.files[x] = disk.files[x]
  PROVE  want' = [want EXCEPT ![k] = <<f, Len(disk'.files[f])>>]
<1> DEFINE old == disk.files
           new == disk'.files
           grown == {x \in DOMAIN new : x \notin DOMAIN old \/ new[x] # old[x]}
<1>1. grown = {f}
  <2>1. \A x \in grown : x = f
    OBVIOUS
  <2>2. f \in grown
    OBVIOUS
  <2> HIDE DEF grown
  <2> QED
    BY <2>1, <2>2
<1>2. (CHOOSE x \in grown : TRUE) = f
  BY <1>1
<1> QED
  BY <1>1, <1>2 DEF NotesRecord

LEMMA RSetStep ==
  ASSUME RInv, NEW k \in Key, NEW packed \in BOOLEAN, NEW flush \in BOOLEAN, Set(k, packed, flush)
  PROVE  RInv' /\ (sound' /\ mem'.isOpen => Read(Area', k) # NoRecord)
<1>1. IInv /\ IInv'
  BY SetStep DEF RInv
<1>2. SUFFICES ASSUME sound'
               PROVE  /\ DiskOK(disk')
                      /\ mem'.isOpen => /\ Steady(Area') /\ Read(Area', k) # NoRecord
                                        /\ \A j \in Key : Read(Area', j) = want'[j]
  BY <1>1 DEF RInv, Area, Steady, Settled, Good, GoodBut
<1> DEFINE c == Count(LAMBDA rec : TRUE)
           rec == [key |-> k, packed |-> packed]
           g == SetOp(Area, k, packed, flush)
<1>3. c \in Nat /\ (\A x \in DOMAIN disk.files : Len(disk.files[x]) <= c) /\ c < MaxWrites
  BY <1>1, CountCovers DEF IInv, Set
<1> HIDE DEF c
<1>4. disk.files \in Files /\ want \in [Key -> {NoRecord} \cup (Nat \X (1 .. MaxWrites))]
  BY <1>1 DEF IInv
<1>5. 0 < MaxWrites /\ \A x \in DOMAIN disk.files : Len(disk.files[x]) < MaxWrites
  <2>1. \A x \in DOMAIN disk.files : disk.files[x] \in File
    BY <1>4 DEF Files
  <2>2. \A x \in DOMAIN disk.files : Len(disk.files[x]) \in Nat
    BY <2>1 DEF File
  <2> QED
    BY <1>3, <2>2, BoundFacts
<1>6. /\ Area \in Work({disk.files}, disk.files) /\ Steady(Area)
      /\ \A j \in Key : Read(Area, j) = want[j]
  BY <1>2, NowSteady DEF Set, Finish
<1> HIDE DEF g
<1>7. PICK f \in Nat :
        LET more == FilesWith(disk.files, f, rec)
        IN  /\ more \in Files /\ g \in Work({disk.files, more}, more)
            /\ Sets(Area, g, k, f, Len(more[f]))
  BY <1>4, <1>5, <1>6, SetGood DEF g
<1> DEFINE more == FilesWith(disk.files, f, rec)
<1>8. rec \in Record
  BY DEF Record
<1> HIDE DEF rec
<1>9. /\ f \in DOMAIN more /\ (f \in DOMAIN disk.files => more[f] # disk.files[f])
      /\ \A x \in DOMAIN more : x # f => x \in DOMAIN disk.files /\ more[x] = disk.files[x]
  BY <1>4, <1>5, <1>8, FilesGrow
<1>10. g.disk.files = more
  BY <1>7 DEF Work, Disks
<1>11. Finish(g) /\ NotesRecord(k)
  BY DEF Set, g
<1> HIDE DEF more
<1>12. /\ Steady(g)
       /\ \A j \in Key : Read(g, j) = IF j = k THEN <<f, Len(more[f])>> ELSE Read(Area, j)
  BY <1>2, <1>7, <1>11 DEF Finish, Sets, more
<1>13. Lasting(g)
  BY <1>2, <1>11, <1>12, SettledFinish DEF Steady
<1>14. ASSUME mem'.isOpen
       PROVE  /\ Steady(Area') /\ Read(Area', k) # NoRecord
              /\ \A j \in Key : Read(Area', j) = want'[j]
  <2>1. /\ Steady(Area') /\ disk'.files = more /\ \A j : Read(Area', j) = Read(g, j)
    BY <1>10, <1>13, <1>14 DEF Lasting
  <2>2. want' = [want EXCEPT ![k] = <<f, Len(more[f])>>]
    BY <1>9, <1>11, <2>1, NoteIs
  <2>3. ASSUME NEW j \in Key
        PROVE  Read(Area', j) = want'[j]
    BY <1>4, <1>6, <1>12, <2>1, <2>2
  <2>4. Read(Area', k) # NoRecord
    BY <1>12, <2>1 DEF NoRecord
  <2> QED
    BY <2>1, <2>3, <2>4
<1> QED
  BY <1>13, <1>14 DEF Lasting

\* A call that appends nothing.
LEMMA QuietReads ==
  ASSUME IInv', NEW h, Lasting(h),
         mem'.isOpen => \A k \in Key : Read(h, k) = want'[k]
  PROVE  RInv'
<1>1. mem'.isOpen => Steady(Area') /\ \A k \in Key : Read(Area', k) = want'[k]
  BY DEF Lasting
<1>2. DiskOK(disk')
  BY DEF Lasting
<1> QED
  BY <1>1, <1>2 DEF RInv, Area, Steady, Settled, Good, GoodBut

LEMMA Unsound ==
  ASSUME IInv', ~sound'
  PROVE  RInv'
BY DEF RInv

LEMMA RDeleteStep ==
  ASSUME RInv, NEW k \in Key, Delete(k)
  PROVE  RInv'
<1>1. IInv /\ IInv'
  BY DeleteStep DEF RInv
<1>2. CASE ~sound'
  BY <1>1, <1>2, Unsound
<1>3. CASE sound'
  <2> DEFINE g == DeleteOp(Area, k)
             F == {disk.files}
  <2>1. Finish(g) /\ mem.isOpen /\ want' = [want EXCEPT ![k] = NoRecord]
    BY DEF Delete
  <2>2. sound
    BY <1>3, <2>1 DEF Finish
  <2>3. Area \in Work(F, disk.files) /\ Settled(Area) /\ \A j \in Key : Read(Area, j) = want[j]
    BY <2>1, <2>2, NowSteady
  <2> disk.files \in F
    OBVIOUS
  <2> HIDE DEF F
  <2>4. Settled(g) /\ \A j \in Key : Read(g, j) = IF j = k THEN NoRecord ELSE Read(Area, j)
    BY <2>3, DeleteGood
  <2> HIDE DEF g
  <2>5. Lasting(g)
    BY <1>3, <2>1, <2>4, SettledFinish
  <2>6. want \in [Key -> {NoRecord} \cup (Nat \X (1 .. MaxWrites))]
    BY <1>1 DEF IInv
  <2>7. \A j \in Key : Read(g, j) = want'[j]
    BY <2>1, <2>3, <2>4, <2>6
  <2> QED
    BY <1>1, <2>5, <2>7, QuietReads
<1> QED
  BY <1>2, <1>3

\* get and flushDirtyRanges.
LEMMA SameReads ==
  ASSUME RInv, IInv', mem.isOpen, NEW g, Finish(g), want' = want,
         Settled(Area) => Settled(g) /\ Frame(Area, g, {})
  PROVE  RInv'
<1>1. CASE ~sound'
  BY <1>1, Unsound
<1>2. CASE sound'
  <2>1. sound
    BY <1>2 DEF Finish
  <2>2. Settled(Area) /\ \A j \in Key : Read(Area, j) = want[j]
    BY <2>1, NowSteady
  <2>3. Lasting(g)
    BY <1>2, <2>2, SettledFinish
  <2>4. \A j \in Key : Read(g, j) = want'[j]
    BY <2>2, FrameReads
  <2> QED
    BY <2>3, <2>4, QuietReads
<1> QED
  BY <1>1, <1>2

LEMMA RGetStep ==
  ASSUME RInv, NEW k \in Key, Get(k)
  PROVE  RInv'
<1> DEFINE g == GetOp(Area, k)
<1>1. IInv /\ IInv'
  BY GetStep DEF RInv
<1>2. Area \in Work({disk.files}, disk.files)
  BY <1>1, AreaOf
<1>3. Settled(Area) => Settled(g) /\ Frame(Area, g, {})
  BY <1>2, GetGood
<1>4. Finish(g) /\ mem.isOpen /\ want' = want
  BY DEF Get
<1> HIDE DEF g
<1> QED
  BY <1>1, <1>3, <1>4, SameReads

LEMMA RFlushStep ==
  ASSUME RInv, FlushDirtyRanges
  PROVE  RInv'
<1> DEFINE g == FlushOp(Area)
<1>1. IInv /\ IInv'
  BY FlushDirtyRangesStep DEF RInv
<1>2. Area \in Work({disk.files}, disk.files)
  BY <1>1, AreaOf
<1>3. Settled(Area) => Settled(g) /\ Frame(Area, g, {})
  BY <1>2, FlushGood
<1>4. Finish(g) /\ mem.isOpen /\ want' = want
  BY DEF FlushDirtyRanges
<1> HIDE DEF g
<1> QED
  BY <1>1, <1>3, <1>4, SameReads

LEMMA RCloseStep ==
  ASSUME RInv, Close
  PROVE  RInv'
<1> DEFINE c == CloseOp(Area)
           g == [c EXCEPT !.mem = Closed]
<1>1. IInv /\ IInv'
  BY CloseStep DEF RInv
<1>2. CASE ~sound'
  BY <1>1, <1>2, Unsound
<1>3. CASE sound'
  <2>1. Finish(g) /\ mem.isOpen
    BY DEF Close
  <2>2. sound
    BY <1>3, <2>1 DEF Finish
  <2>3. Area \in Work({disk.files}, disk.files) /\ Settled(Area)
    BY <2>1, <2>2, NowSteady
  <2>4. c \in Work({disk.files}, disk.files) /\ DisksOK(c)
    BY <2>3, CloseKeeps, CloseGood
  <2> HIDE DEF c
  <2>5. g.disk = c.disk /\ g.trace = c.trace /\ g.mem = Closed
    BY <2>4 DEF Work
  <2> HIDE DEF g
  <2>6. DisksOK(g) /\ ~g.mem.isOpen
    BY <2>4, <2>5 DEF DisksOK, Closed
  <2>7. Lasting(g)
    BY <1>3, <2>1, <2>6, FinishGood
  <2>8. ~mem'.isOpen
    BY <2>1, <2>5 DEF Finish, Closed
  <2> QED
    BY <1>1, <2>7, <2>8, QuietReads
<1> QED
  BY <1>2, <1>3

LEMMA RCrashStep ==
  ASSUME RInv, Crash
  PROVE  RInv'
<1>1. IInv'
  BY CrashStep DEF RInv
<1>2. disk' = disk /\ sound' = sound /\ ~mem'.isOpen
  BY DEF Crash, Closed
<1> QED
  BY <1>1, <1>2 DEF RInv

LEMMA OpenReads ==
  ASSUME IInv', NEW h, OpenAs(h), sound' => (~h.clash => Settled(h))
  PROVE  RInv'
<1>1. CASE ~sound'
  BY <1>1, Unsound
<1>2. CASE sound'
  <2>1. Lasting(h)
    BY <1>2, SettledFinish DEF OpenAs
  <2>2. \A k \in Key : Read(h, k) = want'[k]
    BY DEF OpenAs
  <2> QED
    BY <2>1, <2>2, QuietReads
<1> QED
  BY <1>1, <1>2

LEMMA ROpenStep ==
  ASSUME RInv, Open
  PROVE  RInv'
<1>1. IInv /\ IInv'
  BY OpenStep DEF RInv
<1>2. OpenAs(Reopened(disk))
  BY DEF Open
<1>3. ASSUME sound'
      PROVE  Settled(Reopened(disk))
  <2>1. sound
    BY <1>2, <1>3 DEF OpenAs, Finish
  <2>2. disk \in Disks(disk.files) /\ DiskOK(disk)
    BY <1>1, <2>1 DEF IInv, RInv
  <2> QED
    BY <2>2, ReopenedGood
<1> QED
  BY <1>1, <1>2, <1>3, OpenReads

\* What an open with recovery has done.
RecoveryDone(z, st) ==
  /\ st = RecoveryMap(Reopened(disk)) /\ ~st.area.clash
  /\ st.map \in Maps(disk.files) /\ z \in Work({disk.files}, disk.files)
  /\ Settled(Reopened(disk)) /\ Peopled(Reopened(disk))
  /\ Scans(Reopened(disk), st, disk.files)
  /\ ScanOK(st.area, st.map) /\ Rescued(st.area, st.map, z)

LEMMA RecoveryRescues ==
  ASSUME RInv, OpenAndRecover
  PROVE  \E z, st : OpenAs(z) /\ (sound' => RecoveryDone(z, st))
<1> DEFINE h == Reopened(disk)
           m == RecoveryMap(h)
           F == {disk.files}
<1>1. IInv
  BY DEF RInv
<1>2. disk \in Disks(disk.files) /\ disk.files \in Files
  BY <1>1 DEF IInv
<1>3. h \in Work(F, disk.files)
  BY <1>2, ReopenedOf
<1> disk.files \in F
  OBVIOUS
<1>4. PICK order \in SetToSeqs(DOMAIN m.map) : OpenAs(RebuildFromBarrel2(m.area, m.map, order))
  BY DEF OpenAndRecover
<1> HIDE DEF F, h
<1>5. m.area \in Work(F, disk.files) /\ m.map \in Maps(disk.files)
  BY <1>2, <1>3, RecoveryMapKeeps
<1> HIDE DEF m
<1> DEFINE z == RebuildFromBarrel2(m.area, m.map, order)
<1>6. Recovered(m.area, m.map, z)
  BY <1>4, <1>5, RecoverGood
<1>7. z \in Work(F, disk.files)
  BY <1>4, <1>5, RecoverKeeps
<1> HIDE DEF z
<1>8. OpenAs(z)
  BY <1>4 DEF z
<1>9. ASSUME sound'
      PROVE  RecoveryDone(z, m)
  <2>1. sound /\ ~z.clash
    BY <1>8, <1>9 DEF OpenAs, Finish
  <2>2. DiskOK(disk)
    BY <2>1 DEF RInv
  <2>3. Settled(h) /\ Peopled(h)
    BY <1>2, <2>2, ReopenedGood DEF h
  <2>4. Scans(h, m, disk.files)
    BY <1>2, <1>3, <2>3, ScanGood DEF m
  <2>5. ~m.area.clash
    BY <1>6, <2>1 DEF Recovered
  <2>6. ScanOK(m.area, m.map) /\ Rescued(m.area, m.map, z)
    BY <1>6, <2>1, <2>4, <2>5 DEF Recovered, Scans, ScanSound
  <2>7. m = RecoveryMap(Reopened(disk))
    BY DEF m, h
  <2> QED
    BY <1>5, <1>7, <2>3, <2>4, <2>5, <2>6, <2>7 DEF RecoveryDone, h, F
<1> QED
  BY <1>8, <1>9

LEMMA ROpenAndRecoverStep ==
  ASSUME RInv, OpenAndRecover
  PROVE  RInv'
<1>1. IInv'
  BY OpenAndRecoverStep DEF RInv
<1>2. PICK z, st : OpenAs(z) /\ (sound' => RecoveryDone(z, st))
  BY RecoveryRescues
<1>3. sound' => Settled(z)
  BY <1>2 DEF RecoveryDone, Rescued
<1> QED
  BY <1>1, <1>2, <1>3, OpenReads

LEMMA RStepHolds == RInv /\ [Next]_vars => RInv'
<1> SUFFICES ASSUME RInv, [Next]_vars
             PROVE  RInv'
  OBVIOUS
<1>1. ASSUME NEW k \in Key, NEW packed \in BOOLEAN, NEW flush \in BOOLEAN, Set(k, packed, flush)
      PROVE  RInv'
  BY <1>1, RSetStep
<1>2. ASSUME NEW k \in Key, Delete(k)
      PROVE  RInv'
  BY <1>2, RDeleteStep
<1>3. ASSUME NEW k \in Key, Get(k)
      PROVE  RInv'
  BY <1>3, RGetStep
<1>4. CASE FlushDirtyRanges
  BY <1>4, RFlushStep
<1>5. CASE Close
  BY <1>5, RCloseStep
<1>6. CASE Crash
  BY <1>6, RCrashStep
<1>7. CASE Open
  BY <1>7, ROpenStep
<1>8. CASE OpenAndRecover
  BY <1>8, ROpenAndRecoverStep
<1>9. CASE UNCHANGED vars
  <2>1. IInv'
    BY <1>9, StepKeeps DEF RInv
  <2>2. Area' = Area /\ disk' = disk /\ mem' = mem /\ want' = want /\ sound' = sound
    BY <1>9 DEF vars, Area
  <2>3. \A k : Read(Area', k) = Read(Area, k)
    BY <2>2
  <2>4. Steady(Area') <=> Steady(Area)
    BY <2>2
  <2> HIDE DEF Area
  <2> QED
    BY <2>1, <2>2, <2>3, <2>4 DEF RInv
<1> QED
  BY <1>1, <1>2, <1>3, <1>4, <1>5, <1>6, <1>7, <1>8, <1>9 DEF Next

-----------------------------------------------------------------------------
(* The theorem.                                                              *)

\* As long as no two ranges overlap and none took the name of another one, a
\* get of a key finds the record of its last set, nothing after a delete, and
\* what the open found before any: whatever splits, evictions, reloads, late
\* writes, crashes and recoveries its range went through.
THEOREM ReadsAreRight == Spec => []ReadsFindTheLastWrite
<1>1. RInv => ReadsFindTheLastWrite
  BY DEF RInv, ReadsFindTheLastWrite
<1>2. QED
  BY <1>1, RInitHolds, RStepHolds, PTL DEF Spec

-----------------------------------------------------------------------------
(* After a close.                                                            *)

\* An open that finds what close has saved reads what was read before.
LEMMA SavedReads ==
  ASSUME NEW F, NEW files \in F, NEW h \in Work(F, files), Good(h), Peopled(h),
         NEW d \in Disks(files), DiskOK(d), Saves(h, d), NEW k
  PROVE  Read(Reopened(d), k) = Read(h, k)
<1> DEFINE o == Opening(d)
           g == WithRanges(o, d.meta)
           z == CreateInitialRange(o)
<1>1. d.meta = h.mem.ranges /\ d.split = <<>> /\ DOMAIN d.rkds = DOMAIN h.disk.rkds
  BY DEF Saves
<1>2. Reopened(d) = IF d.meta = <<>> /\ d.split = <<>> /\ DOMAIN d.rkds = {}
                    THEN z
                    ELSE RecoverPendingSplit(IF d.meta = <<>> THEN RebuildRanges(o) ELSE g)
  BY DEF Reopened, WithRanges
<1>3. o \in Work({files}, files) /\ Good(o) /\ Slots(o) = {} /\ o.disk = d /\ o.mem.ranges = <<>>
  BY OpeningOf, OpeningGood
<1> HIDE DEF o
<1>4. CASE d.meta = <<>>
  <2>1. DOMAIN d.rkds = {}
    BY <1>1, <1>4 DEF Peopled
  <2>2. Reopened(d) = z
    BY <1>1, <1>2, <1>4, <2>1
  <2>3. Settled(z) /\ RangeSet(z.mem.ranges) = {Bounds(NoKey, NoKey, 1)} /\ Entr(z, 1) = <<>>
    BY <1>1, <1>3, <1>4, InitialGood
  <2>4. z \in Work({files}, files)
    BY <2>2, ReopenedOf
  <2> HIDE DEF z
  <2>5. z.mem.ranges \in Ranges
    BY <2>4 DEF Work, Memories
  <2>6. Read(z, k) = NoRecord
    <3>1. FindRange(z.mem.ranges, k) # 0 => FindRange(z.mem.ranges, k) = 1
      BY <2>3, <2>5, FindsOne DEF Bounds
    <3>2. Answer(<<>>, k) = NoRecord
      BY DEF Answer
    <3> QED
      BY <2>3, <3>1, <3>2, ReadIs
  <2>7. Read(h, k) = NoRecord
    <3>1. RangeSet(h.mem.ranges) = {}
      BY <1>1, <1>4 DEF RangeSet
    <3> QED
      BY <3>1, ReadUncovered
  <2> QED
    BY <2>2, <2>6, <2>7
<1>5. CASE d.meta # <<>>
  <2>1. d.meta \in Ranges
    BY DiskTables
  <2>2. g \in Work({files}, files)
    BY <1>3, <2>1, RangesKeep DEF WithRanges
  <2>3. Alike(o, g) /\ g.mem.ranges = d.meta /\ g.disk = d
    BY <1>3, <2>1, RangesGood
  <2> HIDE DEF g
  <2>4. Slots(g) = {}
    BY <1>3, <2>3, AlikeFacts
  <2>5. Reopened(d) = g
    BY <1>1, <1>2, <1>5, <2>3 DEF RecoverPendingSplit
  <2>6. ASSUME NEW n
        PROVE  Entr(g, n) = Entr(h, n)
    <3>1. CASE n \in DOMAIN d.rkds
      <4>1. Entr(g, n) = d.rkds[n].entries
        BY <2>2, <2>3, <2>4, <3>1, EntrWhere
      <4> QED
        BY <3>1, <4>1 DEF Saves
    <3>2. CASE n \notin DOMAIN d.rkds
      <4>1. Entr(g, n) = <<>>
        BY <2>2, <2>3, <2>4, <3>2, EntrWhere
      <4>2. \A c \in Slots(h) : c.name # n
        BY <1>1, <3>2 DEF Good, GoodBut, Coherent
      <4>3. Entr(h, n) = <<>>
        BY <1>1, <3>2, <4>2, EntrWhere
      <4> QED
        BY <4>1, <4>3
    <3> QED
      BY <3>1, <3>2
  <2>7. Read(g, k) = Read(h, k)
    BY <1>1, <2>3, <2>6, ReadSame
  <2> QED
    BY <2>5, <2>7
<1> QED
  BY <1>4, <1>5

\* The ranges of a sound, open barrel are those that its RangeKeyDirs are in.
CInv == RInv /\ (sound /\ mem.isOpen => Peopled(Area))

LEMMA FinishPeopled ==
  ASSUME RInv', NEW h, Finish(h), sound' => Peopled(h)
  PROVE  CInv'
<1>1. ASSUME sound', mem'.isOpen
      PROVE  Peopled(Area')
  <2>1. mem' # Closed
    BY <1>1 DEF Closed
  <2>2. disk' = h.disk /\ mem' = h.mem
    BY <2>1 DEF Finish
  <2>3. Area'.mem = mem' /\ Area'.disk = disk'
    BY DEF Area
  <2> QED
    BY <1>1, <2>2, <2>3 DEF Peopled
<1> QED
  BY <1>1 DEF CInv, Area, Peopled

LEMMA FramePeopled ==
  ASSUME NEW h, NEW g, Frame(h, g, {}), Peopled(h)
  PROVE  Peopled(g)
BY DEF Frame, Peopled

LEMMA CQuietStep ==
  ASSUME CInv, RInv', mem.isOpen, NEW g, Finish(g), Settled(Area) => Frame(Area, g, {})
  PROVE  CInv'
<1>1. ASSUME sound'
      PROVE  Peopled(g)
  <2>1. sound
    BY <1>1 DEF Finish
  <2>2. Settled(Area) /\ Peopled(Area)
    BY <2>1, NowSteady DEF CInv
  <2> QED
    BY <2>2, FramePeopled
<1> QED
  BY <1>1, FinishPeopled

LEMMA NoneFound == \A k : FindRange(<<>>, k) = 0
<1> TAKE k
<1>1. <<>> \in Ranges /\ RangeSet(<<>>) = {}
  BY DEF Ranges, RangeSet
<1> QED
  BY <1>1, FindsOne

LEMMA CSetStep ==
  ASSUME CInv, NEW k \in Key, NEW packed \in BOOLEAN, NEW flush \in BOOLEAN, Set(k, packed, flush)
  PROVE  CInv'
<1>1. RInv' /\ (sound' /\ mem'.isOpen => Read(Area', k) # NoRecord)
  BY RSetStep DEF CInv
<1>2. ASSUME sound', mem'.isOpen
      PROVE  Peopled(Area')
  <2> DEFINE a == Area'
  <2>1. Read(a, k) # NoRecord /\ Steady(a)
    BY <1>1, <1>2 DEF RInv, Area
  <2> HIDE DEF a
  <2>2. a.mem.ranges # <<>>
    <3>1. ASSUME a.mem.ranges = <<>> PROVE FALSE
      <4>1. Read(a, k) = NoRecord
        BY <3>1, NoneFound, ReadIs
      <4> QED
        BY <2>1, <4>1
    <3> QED
      BY <3>1
  <2> QED
    BY <2>2 DEF Peopled, a
<1> QED
  BY <1>1, <1>2 DEF CInv, Area, Peopled

LEMMA CDeleteStep ==
  ASSUME CInv, NEW k \in Key, Delete(k)
  PROVE  CInv'
<1> DEFINE g == DeleteOp(Area, k)
<1>1. RInv' /\ Finish(g) /\ mem.isOpen
  BY RDeleteStep DEF CInv, Delete
<1>2. ASSUME sound'
      PROVE  Peopled(g)
  <2>1. sound
    BY <1>1, <1>2 DEF Finish
  <2>2. Area \in Work({disk.files}, disk.files) /\ Settled(Area) /\ Peopled(Area)
    BY <1>1, <2>1, NowSteady DEF CInv
  <2>3. g.mem.ranges = Area.mem.ranges
    BY <2>2, DeleteGood
  <2>4. Area.mem.ranges = <<>> => g = Area
    BY NoneFound DEF DeleteOp
  <2> QED
    BY <2>2, <2>3, <2>4 DEF Peopled
<1> HIDE DEF g
<1> QED
  BY <1>1, <1>2, FinishPeopled

LEMMA COpenAndRecoverStep ==
  ASSUME CInv, OpenAndRecover
  PROVE  CInv'
<1>1. RInv /\ RInv'
  BY ROpenAndRecoverStep DEF CInv
<1>2. PICK z, st : OpenAs(z) /\ (sound' => RecoveryDone(z, st))
  BY <1>1, RecoveryRescues
<1>3. ASSUME sound'
      PROVE  Peopled(z)
  <2>1. /\ Peopled(Reopened(disk)) /\ ScanOK(st.area, st.map) /\ Rescued(st.area, st.map, z)
        /\ DOMAIN st.map = {} => st.area = Reopened(disk)
    BY <1>2, <1>3 DEF RecoveryDone, Scans
  <2>2. CASE DOMAIN st.map = {}
    <3>1. z = Reopened(disk)
      BY <2>1, <2>2 DEF Rescued
    <3> QED
      BY <2>1, <3>1
  <2>3. CASE DOMAIN st.map # {}
    <3>1. RangeSet(z.mem.ranges) # {}
      BY <2>1, <2>3 DEF ScanOK, Rescued
    <3> QED
      BY <3>1 DEF RangeSet, Peopled
  <2> QED
    BY <2>2, <2>3
<1> QED
  BY <1>1, <1>2, <1>3, FinishPeopled DEF OpenAs

LEMMA COpenStep ==
  ASSUME CInv, Open
  PROVE  CInv'
<1>1. IInv /\ RInv /\ RInv'
  BY ROpenStep DEF CInv, RInv
<1>2. Finish(Reopened(disk))
  BY DEF Open, OpenAs
<1>3. ASSUME sound'
      PROVE  Peopled(Reopened(disk))
  <2>1. disk \in Disks(disk.files) /\ DiskOK(disk)
    BY <1>1, <1>2, <1>3 DEF IInv, RInv, Finish
  <2> QED
    BY <2>1, ReopenedGood
<1> QED
  BY <1>1, <1>2, <1>3, FinishPeopled

LEMMA CStepHolds == CInv /\ [Next]_vars => CInv'
<1> SUFFICES ASSUME CInv, [Next]_vars
             PROVE  CInv'
  OBVIOUS
<1>0. RInv'
  BY RStepHolds DEF CInv
<1> IInv
  BY DEF CInv, RInv
<1> Area \in Work({disk.files}, disk.files)
  BY AreaOf
<1>1. ASSUME NEW k \in Key, NEW packed \in BOOLEAN, NEW flush \in BOOLEAN, Set(k, packed, flush)
      PROVE  CInv'
  BY <1>1, CSetStep
<1>2. ASSUME NEW k \in Key, Delete(k)
      PROVE  CInv'
  BY <1>2, CDeleteStep
<1>3. ASSUME NEW k \in Key, Get(k)
      PROVE  CInv'
  <2>1. Finish(GetOp(Area, k)) /\ mem.isOpen
    BY <1>3 DEF Get
  <2>2. Settled(Area) => Frame(Area, GetOp(Area, k), {})
    BY GetGood
  <2> QED
    BY <1>0, <2>1, <2>2, CQuietStep
<1>4. CASE FlushDirtyRanges
  <2>1. Finish(FlushOp(Area)) /\ mem.isOpen
    BY <1>4 DEF FlushDirtyRanges
  <2>2. Settled(Area) => Frame(Area, FlushOp(Area), {})
    BY FlushGood
  <2> QED
    BY <1>0, <2>1, <2>2, CQuietStep
<1>5. CASE Close \/ Crash
  <2>1. CASE Crash
    BY <1>0, <2>1 DEF Crash, Closed, CInv
  <2>2. CASE Close
    <3> DEFINE c == CloseOp(Area)
    <3>1. c \in Work({disk.files}, disk.files)
      BY CloseKeeps
    <3>2. Finish([c EXCEPT !.mem = Closed])
      BY <2>2 DEF Close
    <3> HIDE DEF c
    <3>3. [c EXCEPT !.mem = Closed].mem = Closed
      BY <3>1 DEF Work
    <3>4. mem' = Closed
      BY <3>2, <3>3 DEF Finish
    <3> QED
      BY <1>0, <3>4 DEF Closed, CInv
  <2> QED
    BY <1>5, <2>1, <2>2
<1>6. CASE Open
  BY <1>6, COpenStep
<1>7. CASE OpenAndRecover
  BY <1>7, COpenAndRecoverStep
<1>8. CASE UNCHANGED vars
  <2>1. Area' = Area /\ sound' = sound /\ mem' = mem
    BY <1>8 DEF vars, Area
  <2> HIDE DEF Area
  <2> QED
    BY <1>0, <2>1 DEF CInv
<1> QED
  BY <1>1, <1>2, <1>3, <1>4, <1>5, <1>6, <1>7, <1>8 DEF Next

LEMMA CInitHolds == Init => CInv
BY RInitHolds DEF Init, Closed, CInv

LEMMA CloseSaves ==
  ASSUME CInv, Close, disk' = CloseOp(Area).disk, sound'
  PROVE  Durable(disk') = want
<1> DEFINE d == CloseOp(Area).disk
<1>1. IInv /\ RInv /\ mem.isOpen /\ sound
  BY DEF CInv, RInv, Close, Finish
<1>2. /\ Area \in Work({disk.files}, disk.files) /\ Settled(Area) /\ Peopled(Area)
      /\ \A k \in Key : Read(Area, k) = want[k]
  BY <1>1, NowSteady DEF CInv
<1>3. CloseOp(Area) \in Work({disk.files}, disk.files)
  BY <1>2, CloseKeeps
<1>4. d \in Disks(disk.files) /\ DiskOK(d) /\ Saves(Area, d)
  BY <1>2, <1>3, CloseGood DEF DisksOK, Work
<1> HIDE DEF d
<1>5. \A k \in Key : Read(Reopened(d), k) = want[k]
  BY <1>2, <1>4, SavedReads DEF Settled
<1>6. want = [k \in Key |-> want[k]]
  BY <1>1 DEF IInv
<1>7. Durable(d) = [k \in Key |-> Read(Reopened(d), k)]
  BY DEF Durable
<1> QED
  BY <1>5, <1>6, <1>7 DEF d

\* After a close, the next open finds in barrel1 alone what every key had, dirty ranges and
\* those that were never evicted included.
THEOREM ClosesSaveAll == Spec => CloseSavesEverything
<1> DEFINE P == Close /\ disk' = CloseOp(Area).disk /\ sound' => Durable(disk') = want
<1>1. CInv /\ [Next]_vars => [P]_vars
  BY CloseSaves
<1> QED
  BY <1>1, CInitHolds, CStepHolds, PTL DEF Spec, CloseSavesEverything, P

=============================================================================
