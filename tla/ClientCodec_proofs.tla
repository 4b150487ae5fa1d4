------------------------ MODULE ClientCodec_proofs ------------------------
(***************************************************************************)
(* Proofs about ClientCodec, for any number of values of a byte, any strings *)
(* and any sequence numbers: what is written is read as it was meant, and    *)
(* what is torn is refused.                                                *)
(***************************************************************************)
EXTENDS ClientCodec, SequenceTheorems, NaturalsInduction, WellFoundedInduction, TLAPS

-----------------------------------------------------------------------------
(* Recursion over numbers.                                                   *)

LEMMA Least ==
  ASSUME NEW T \in SUBSET Nat, T # {}
  PROVE  \E x \in T : \A y \in T : x <= y
<1> DEFINE R == OpToRel(<, Nat)
<1>1. PICK x \in T : \A y \in T : ~ (<<y, x>> \in R)
  <2>1. IsWellFoundedOn(R, Nat)
    BY NatLessThanWellFounded
  <2> HIDE DEF R
  <2> QED
    BY <2>1, WFMin
<1>2. \A y \in T : ~(y < x)
  BY <1>1 DEF OpToRel
<1> QED
  BY <1>2

\* What holds at the start and is handed on by each step holds for all.
LEMMA Climb ==
  ASSUME NEW n \in Nat, NEW T, 0 \in T, \A i \in 1 .. n : i - 1 \in T => i \in T
  PROVE  \A i \in 0 .. n : i \in T
<1> SUFFICES ASSUME NEW i \in 0 .. n, i \notin T
             PROVE  FALSE
  OBVIOUS
<1> DEFINE U == {j \in 0 .. n : j \notin T}
<1>1. U \in SUBSET Nat /\ U # {}
  OBVIOUS
<1>2. PICK j \in U : \A k \in U : j <= k
  <2> HIDE DEF U
  <2> QED
    BY <1>1, Least
<1>3. j # 0 /\ j - 1 \in 0 .. n /\ j \in 1 .. n
  BY <1>2
<1>4. j - 1 \notin U
  BY <1>2, <1>3
<1> QED
  BY <1>2, <1>3, <1>4

\* A function given by its first value and by what G makes of the one before.
Steps(f, n, start, G) == f[0] = start /\ \A i \in 1 .. n : f[i] = G[<<i, f[i - 1]>>]

LEMMA StepsExist ==
  ASSUME NEW X, NEW start \in X, NEW n \in Nat, NEW G \in [(1 .. n) \X X -> X]
  PROVE  \E f \in [0 .. n -> X] : Steps(f, n, start, G)
<1> DEFINE Up(f, m) == f \in [0 .. n -> X] /\ f[0] = start
                       /\ \A i \in 1 .. m : f[i] = G[<<i, f[i - 1]>>]
           T == {m \in 0 .. n : \E f : Up(f, m)}
<1>1. 0 \in T
  <2>1. Up([i \in 0 .. n |-> start], 0)
    OBVIOUS
  <2> HIDE DEF Up
  <2>2. 0 \in 0 .. n /\ \E f : Up(f, 0)
    BY <2>1
  <2> QED
    BY <2>2
<1>2. ASSUME NEW m \in 1 .. n, m - 1 \in T
      PROVE  m \in T
  <2>1. PICK f : Up(f, m - 1)
    BY <1>2
  <2> DEFINE g == [f EXCEPT ![m] = G[<<m, f[m - 1]>>]]
  <2>2. <<m, f[m - 1]>> \in (1 .. n) \X X
    BY <2>1
  <2>3. g \in [0 .. n -> X] /\ g[m] = G[<<m, f[m - 1]>>] /\ \A i \in 0 .. n : i # m => g[i] = f[i]
    BY <2>1, <2>2
  <2> HIDE DEF g
  <2>4. \A i \in 1 .. m : g[i] = G[<<i, g[i - 1]>>]
    <3> SUFFICES ASSUME NEW i \in 1 .. m
                 PROVE  g[i] = G[<<i, g[i - 1]>>]
      OBVIOUS
    <3>1. i - 1 \in 0 .. n /\ i - 1 # m /\ i \in 0 .. n
      OBVIOUS
    <3>2. g[i - 1] = f[i - 1]
      BY <2>3, <3>1
    <3>3. CASE i = m
      BY <2>3, <3>2, <3>3
    <3>4. CASE i # m
      BY <2>1, <2>3, <3>1, <3>2, <3>4
    <3> QED
      BY <3>3, <3>4
  <2>5. Up(g, m)
    BY <2>1, <2>3, <2>4
  <2> QED
    BY <2>5
<1> HIDE DEF T
<1>3. n \in T
  BY <1>1, <1>2, Climb
<1> QED
  BY <1>3 DEF T, Steps

-----------------------------------------------------------------------------
(* Numbers and their bytes.                                                  *)

LEMMA DivIs ==
  ASSUME NEW a \in Nat, NEW b \in Nat \ {0}
  PROVE  /\ a \div b \in Nat /\ a % b \in 0 .. b - 1 /\ a = b * (a \div b) + (a % b)
<1>1. a \in Int /\ b \in Int /\ b > 0
  OBVIOUS
<1>2. a \div b \in Int /\ a % b \in 0 .. b - 1
  BY <1>1
<1>3. a = b * (a \div b) + (a % b)
  BY <1>1
<1>4. a \div b >= 0
  BY <1>1, <1>2, <1>3
<1> QED
  BY <1>2, <1>3, <1>4

\* The quotient of a number is the only one.
LEMMA DivOnly ==
  ASSUME NEW b \in Nat \ {0}, NEW q \in Nat, NEW r \in Nat, r < b
  PROVE  (b * q + r) \div b = q
<1> DEFINE a == b * q + r
           p == a \div b
           t == a % b
<1>1. a \in Nat
  OBVIOUS
<1> HIDE DEF a
<1>2. p \in Nat /\ t \in Nat /\ t < b /\ a = b * p + t
  BY <1>1, DivIs
<1> HIDE DEF p, t
<1>3. b * q + r = b * p + t
  BY <1>2 DEF a
<1>4. ASSUME p < q PROVE FALSE
  <2>1. q = p + (q - p) /\ q - p \in Nat /\ q - p >= 1
    BY <1>2, <1>4
  <2> DEFINE e == q - p
  <2> HIDE DEF e
  <2>2. q = p + e /\ e \in Nat /\ e >= 1
    BY <2>1 DEF e
  <2>3. b * q = b * p + b * e
    BY <1>2, <2>2
  <2>4. b * e >= b
    BY <2>2
  <2> DEFINE x == b * q
             y == b * p
             z == b * e
  <2>5. x \in Nat /\ y \in Nat /\ z \in Nat /\ x + r = y + t /\ (x = y + z \/ y = x + z) /\ z >= b
    BY <1>2, <1>3, <2>2, <2>3, <2>4
  <2> HIDE DEF x, y, z
  <2> QED
    BY <1>2, <2>5
<1>5. ASSUME q < p PROVE FALSE
  <2>1. p = q + (p - q) /\ p - q \in Nat /\ p - q >= 1
    BY <1>2, <1>5
  <2> DEFINE e == p - q
  <2> HIDE DEF e
  <2>2. p = q + e /\ e \in Nat /\ e >= 1
    BY <2>1 DEF e
  <2>3. b * p = b * q + b * e
    BY <1>2, <2>2
  <2>4. b * e >= b
    BY <2>2
  <2> DEFINE x == b * q
             y == b * p
             z == b * e
  <2>5. x \in Nat /\ y \in Nat /\ z \in Nat /\ x + r = y + t /\ (x = y + z \/ y = x + z) /\ z >= b
    BY <1>2, <1>3, <2>2, <2>3, <2>4
  <2> HIDE DEF x, y, z
  <2> QED
    BY <1>2, <2>5
<1>6. p = q
  BY <1>2, <1>4, <1>5
<1> QED
  BY <1>6 DEF p, a

\* What is left of n after k and then b are divided out.
LEMMA DivDiv ==
  ASSUME NEW n \in Nat, NEW k \in Nat \ {0}, NEW b \in Nat \ {0}
  PROVE  (n \div k) \div b = n \div (k * b)
<1> DEFINE q == n \div k
           r == n % k
           p == q \div b
           t == q % b
<1>1. q \in Nat /\ r \in Nat /\ r < k /\ n = k * q + r
  BY DivIs
<1> HIDE DEF q, r
<1>2. p \in Nat /\ t \in Nat /\ t < b /\ q = b * p + t
  BY <1>1, DivIs
<1> HIDE DEF p, t
<1>3. k * b \in Nat \ {0}
  OBVIOUS
<1>4. n = (k * b) * p + (k * t + r)
  <2>1. k * q = k * (b * p) + k * t
    BY <1>1, <1>2
  <2>2. k * (b * p) = (k * b) * p
    BY <1>2
  <2> QED
    BY <1>1, <1>2, <2>1, <2>2
<1>5. k * t + r \in Nat /\ k * t + r < k * b
  <2> DEFINE e == b - t
  <2>1. e \in Nat /\ e >= 1 /\ b = t + e
    BY <1>2
  <2> HIDE DEF e
  <2>2. k * b = k * t + k * e
    BY <1>2, <2>1
  <2>3. k * e >= k
    BY <2>1
  <2> DEFINE u == k * t
             v == k * e
             w == k * b
  <2>4. u \in Nat /\ v \in Nat /\ w \in Nat /\ w = u + v /\ v >= k
    BY <1>2, <2>1, <2>2, <2>3
  <2> HIDE DEF u, v, w
  <2>5. u + r \in Nat /\ u + r < w
    BY <1>1, <2>4
  <2> QED
    BY <2>5 DEF u, w
<1> DEFINE m == k * b
           c == k * t + r
<1>6. n = m * p + c /\ m \in Nat \ {0} /\ c \in Nat /\ c < m
  BY <1>3, <1>4, <1>5
<1> HIDE DEF m, c
<1>7. n \div m = p
  BY <1>2, <1>6, DivOnly
<1> QED
  BY <1>7 DEF m, p, q

\* One byte more.
LEMMA Horner ==
  ASSUME NEW q \in Nat, NEW b \in Nat \ {0}
  PROVE  (q \div b) * b + (q % b) = q
<1>1. q = b * (q \div b) + (q % b) /\ q \div b \in Nat /\ q % b \in Nat
  BY DivIs
<1>2. b * (q \div b) = (q \div b) * b
  BY <1>1
<1> QED
  BY <1>1, <1>2

LEMMA DivSmall ==
  ASSUME NEW n \in Nat, NEW b \in Nat \ {0}, NEW c \in Nat, n < b * c
  PROVE  n \div b < c
<1> DEFINE q == n \div b
           r == n % b
<1>1. q \in Nat /\ r \in Nat /\ n = b * q + r
  BY DivIs
<1> HIDE DEF q, r
<1>2. CASE q >= c
  <2> DEFINE e == q - c
  <2>1. e \in Nat /\ q = c + e
    BY <1>1, <1>2
  <2> HIDE DEF e
  <2>2. b * q = b * c + b * e /\ b * e \in Nat
    BY <1>1, <2>1
  <2> QED
    BY <1>1, <2>2
<1> QED
  BY <1>1, <1>2 DEF q

LEMMA Sizes ==
  /\ Base \in Nat /\ Base > 9 /\ Short \in Nat /\ Short >= 10 * Base /\ Long \in Nat
  /\ Long >= 100 * Short /\ Short * Base \in Nat /\ Short * Base >= 10 * Short
  /\ Long = (Short * Base) * Base
<1>1. Base \in Nat /\ Base > 9
  BY BaseAssumption
<1>2. Short \in Nat /\ Short >= 10 * Base
  BY <1>1 DEF Short
<1>3. Short * Base \in Nat /\ Short * Base >= 10 * Short
  BY <1>1, <1>2
<1>4. Long = (Short * Base) * Base
  <2>1. Short * (Base * Base) = (Short * Base) * Base
    BY <1>1, <1>2
  <2> QED
    BY <2>1 DEF Long, Short
<1>5. (Short * Base) * Base >= 10 * (Short * Base)
  BY <1>1, <1>3
<1> QED
  BY <1>1, <1>2, <1>3, <1>4, <1>5

LEMMA Weights ==
  /\ Weight(0) = 1 /\ Weight(1) = Base /\ Weight(2) = Short /\ Weight(3) = Short * Base
  /\ \A i \in 0 .. 3 : Weight(i) \in Nat \ {0}
  /\ \A i \in 0 .. 2 : Weight(i + 1) = Weight(i) * Base
<1>1. /\ Weight(0) = 1 /\ Weight(1) = Base /\ Weight(2) = Short /\ Weight(3) = Short * Base
  BY DEF Weight
<1>2. \A i \in 0 .. 3 : i = 0 \/ i = 1 \/ i = 2 \/ i = 3
  OBVIOUS
<1>3. \A i \in 0 .. 3 : Weight(i) \in Nat \ {0}
  BY <1>1, <1>2, Sizes
<1>4. Weight(1) = Weight(0) * Base /\ Weight(2) = Weight(1) * Base /\ Weight(3) = Weight(2) * Base
  BY <1>1, Sizes DEF Short
<1>5. \A i \in 0 .. 2 : Weight(i + 1) = Weight(i) * Base
  BY <1>4
<1> QED
  BY <1>1, <1>3, <1>5

\* A number is put together byte by byte.
Sums(f, d, at, w) ==
  f \in [0 .. w -> Nat] /\ f[0] = 0 /\ \A i \in 1 .. w : f[i] = f[i - 1] * Base + d[at + i]

LEMMA NumberIs ==
  ASSUME NEW w \in Nat, NEW at, NEW d, \A i \in 1 .. w : d[at + i] \in Nat
  PROVE  \E f : Sums(f, d, at, w) /\ Number(d, at, w) = f[w]
<1> DEFINE F(f) == [i \in 0 .. w |-> IF i = 0 THEN 0 ELSE f[i - 1] * Base + d[at + i]]
           G == [p \in (1 .. w) \X Nat |-> p[2] * Base + d[at + p[1]]]
           v == CHOOSE f : f = F(f)
<1>1. \E f : f = F(f)
  <2>1. G \in [(1 .. w) \X Nat -> Nat]
    <3>1. \A p \in (1 .. w) \X Nat : p[2] * Base + d[at + p[1]] \in Nat
      BY Sizes
    <3> QED
      BY <3>1
  <2>2. \A i \in 1 .. w, x \in Nat : G[<<i, x>>] = x * Base + d[at + i]
    OBVIOUS
  <2> HIDE DEF G
  <2>3. PICK f \in [0 .. w -> Nat] : Steps(f, w, 0, G)
    BY <2>1, StepsExist
  <2>a. ASSUME NEW i \in 1 .. w
        PROVE  f[i] = f[i - 1] * Base + d[at + i]
    <3>1. i - 1 \in 0 .. w /\ f[i - 1] \in Nat
      BY <2>3
    <3> QED
      BY <2>2, <2>3, <3>1 DEF Steps
  <2>b. f[0] = 0
    BY <2>3 DEF Steps
  <2>4. \A i \in 0 .. w : f[i] = IF i = 0 THEN 0 ELSE f[i - 1] * Base + d[at + i]
    BY <2>a, <2>b
  <2>5. f = F(f)
    BY <2>4
  <2> HIDE DEF F
  <2> QED
    BY <2>5
<1>2. v = F(v)
  <2> HIDE DEF F
  <2> QED
    BY <1>1
<1>3. Number(d, at, w) = v[w]
  BY DEF Number
<1> HIDE DEF v
<1>4. v[0] = 0 /\ \A i \in 1 .. w : v[i] = v[i - 1] * Base + d[at + i]
  BY <1>2
<1> DEFINE T == {i \in 0 .. w : v[i] \in Nat}
<1>5. \A i \in 0 .. w : i \in T
  <2>1. 0 \in T
    BY <1>4
  <2>2. \A i \in 1 .. w : i - 1 \in T => i \in T
    <3> SUFFICES ASSUME NEW i \in 1 .. w, i - 1 \in T
                 PROVE  i \in T
      OBVIOUS
    <3> DEFINE x == v[i - 1]
               y == d[at + i]
    <3>1. i \in 0 .. w /\ x \in Nat /\ y \in Nat
      OBVIOUS
    <3>2. v[i] = x * Base + y
      BY <1>4
    <3> HIDE DEF x, y
    <3>3. x * Base \in Nat
      BY <3>1, Sizes
    <3>4. x * Base + y \in Nat
      BY <3>1, <3>3
    <3> QED
      BY <3>1, <3>2, <3>4
  <2> HIDE DEF T
  <2> QED
    BY <2>1, <2>2, Climb
<1>6. DOMAIN v = 0 .. w /\ v = [i \in 0 .. w |-> v[i]]
  BY <1>2
<1>7. v \in [0 .. w -> Nat]
  BY <1>5, <1>6
<1> QED
  BY <1>3, <1>4, <1>7 DEF Sums

LEMMA NumberNat ==
  ASSUME NEW w \in Nat, NEW at, NEW d, \A i \in 1 .. w : d[at + i] \in Nat
  PROVE  Number(d, at, w) \in Nat
BY NumberIs DEF Sums

\* Two and four bytes.
LEMMA NumberOfTwo ==
  ASSUME NEW at \in Nat, NEW d, \A i \in 1 .. 2 : d[at + i] \in Nat
  PROVE  Number(d, at, 2) = d[at + 1] * Base + d[at + 2]
<1>1. PICK f : Sums(f, d, at, 2) /\ Number(d, at, 2) = f[2]
  BY NumberIs
<1>2. f[0] = 0 /\ f[1] = f[0] * Base + d[at + 1] /\ f[2] = f[1] * Base + d[at + 2]
  BY <1>1 DEF Sums
<1>3. d[at + 1] \in Nat /\ d[at + 2] \in Nat /\ 0 * Base = 0
  BY Sizes
<1>4. f[1] = d[at + 1]
  BY <1>2, <1>3
<1> QED
  BY <1>1, <1>2, <1>4

\* A number of four bytes is at least what its first two say.
LEMMA NumberOfFour ==
  ASSUME NEW at \in Nat, NEW d, \A i \in 1 .. 4 : d[at + i] \in Nat
  PROVE  /\ Number(d, at, 4) >= (d[at + 1] * Base + d[at + 2]) * Short
         /\ Number(d, at, 4) >= d[at + 1] * (Short * Base)
         /\ Number(d, at, 4) \in Nat
<1>1. PICK f : Sums(f, d, at, 4) /\ Number(d, at, 4) = f[4]
  BY NumberIs
<1> DEFINE a == d[at + 1]
           b == d[at + 2]
           c == d[at + 3]
           e == d[at + 4]
<1>2. f[0] = 0 /\ f[1] = f[0] * Base + a /\ f[2] = f[1] * Base + b /\ f[3] = f[2] * Base + c
      /\ f[4] = f[3] * Base + e /\ f[4] \in Nat
  BY <1>1 DEF Sums
<1>3. a \in Nat /\ b \in Nat /\ c \in Nat /\ e \in Nat /\ Base \in Nat
  BY Sizes
<1> HIDE DEF a, b, c, e
<1>4. f[1] = a
  BY <1>2, <1>3
<1> DEFINE h == a * Base + b
<1>5. h \in Nat /\ f[2] = h /\ h >= a * Base
  BY <1>2, <1>3, <1>4
<1> HIDE DEF h
<1>6. f[3] \in Nat /\ f[3] >= h * Base
  BY <1>2, <1>3, <1>5
<1>7. f[3] * Base >= (h * Base) * Base
  BY <1>3, <1>5, <1>6
<1>8. (h * Base) * Base = h * Short
  BY <1>3, <1>5 DEF Short
<1>9. f[4] >= h * Short
  <2> DEFINE x == f[3] * Base
             y == h * Short
  <2>1. x \in Nat /\ y \in Nat /\ f[4] = x + e /\ x >= y
    BY <1>2, <1>3, <1>5, <1>6, <1>7, <1>8, Sizes
  <2> HIDE DEF x, y
  <2>2. f[4] >= y
    BY <1>3, <2>1
  <2> QED
    BY <2>2 DEF y
<1>10. h * Short >= (a * Base) * Short
  BY <1>3, <1>5, Sizes
<1>11. (a * Base) * Short = a * (Short * Base)
  BY <1>3, Sizes
<1>12. h * Short \in Nat /\ a * (Short * Base) \in Nat
  BY <1>3, <1>5, Sizes
<1> QED
  BY <1>1, <1>2, <1>9, <1>10, <1>11, <1>12 DEF a, b, h

-----------------------------------------------------------------------------
(* Sequences of bytes, and numbers in them.                                  *)

\* The numbers that w bytes can say.
Bound(w) == IF w = 1 THEN Base ELSE IF w = 2 THEN Short ELSE Long

LEMMA BigEndianIs ==
  ASSUME NEW n \in Nat, NEW w \in Nat
  PROVE  /\ BigEndian(n, w) \in Seq(Byte) /\ Len(BigEndian(n, w)) = w
         /\ \A i \in 1 .. w :
              /\ BigEndian(n, w)[i] = IF w - i > 3 THEN 0 ELSE (n \div Weight(w - i)) % Base
              /\ BigEndian(n, w)[i] \in Byte
<1> DEFINE s == BigEndian(n, w)
<1>1. ASSUME NEW i \in 1 .. w
      PROVE  s[i] = (IF w - i > 3 THEN 0 ELSE (n \div Weight(w - i)) % Base)
  BY DEF BigEndian
<1>2. ASSUME NEW i \in 1 .. w
      PROVE  s[i] \in Byte
  <2>1. 0 \in Byte
    BY Sizes DEF Byte
  <2>2. CASE w - i > 3
    BY <1>1, <2>1, <2>2
  <2>3. CASE ~(w - i > 3)
    <3>1. w - i \in 0 .. 3
      BY <2>3
    <3>2. n \div Weight(w - i) \in Nat
      BY <3>1, Weights, DivIs
    <3> DEFINE q == n \div Weight(w - i)
    <3>3. s[i] = q % Base /\ q \in Nat
      BY <1>1, <2>3, <3>2
    <3> HIDE DEF q
    <3>4. q % Base \in 0 .. Base - 1
      BY <3>3, Sizes
    <3> QED
      BY <3>3, <3>4 DEF Byte
  <2> QED
    BY <2>2, <2>3
<1>3. DOMAIN s = 1 .. w /\ s = [i \in 1 .. w |-> s[i]]
  BY DEF BigEndian
<1> HIDE DEF s
<1>4. s \in [1 .. w -> Byte]
  BY <1>2, <1>3
<1>5. s \in Seq(Byte) /\ Len(s) = w
  BY <1>4
<1> QED
  BY <1>1, <1>2, <1>5 DEF s

\* The number n is in d, in w bytes behind the first at ones.
Says(d, at, w, n) == \A i \in 1 .. w : d[at + i] = BigEndian(n, w)[i]

\* What is written is read.
LEMMA NumberOf ==
  ASSUME NEW w \in {1, 2, 4, 8}, NEW n \in Nat, n < Bound(w), NEW at \in Nat, NEW d,
         Says(d, at, w, n)
  PROVE  Number(d, at, w) = n
<1> USE DEF Says
<1>1. \A i \in 1 .. w : d[at + i] \in Nat
  <2>1. w \in Nat
    OBVIOUS
  <2>2. \A i \in 1 .. w : BigEndian(n, w)[i] \in Byte
    BY <2>1, BigEndianIs, Zenon
  <2>3. Byte \subseteq Nat
    BY Sizes DEF Byte
  <2> QED
    BY <2>2, <2>3, Zenon
<1>2. PICK f : Sums(f, d, at, w) /\ Number(d, at, w) = f[w]
  BY <1>1, NumberIs
<1> DEFINE D(i) == IF w - i > 3 THEN 0 ELSE (n \div Weight(w - i)) % Base
           V(i) == IF w - i > 3 THEN 0 ELSE n \div Weight(w - i)
           T == {i \in 0 .. w : f[i] = V(i)}
<1>3. /\ f[0] = 0
      /\ \A i \in 1 .. w : f[i] = f[i - 1] * Base + D(i)
  BY <1>2, BigEndianIs DEF Sums
<1>4. 0 \in T
  <2>1. CASE w > 3
    BY <1>3, <2>1
  <2>2. CASE ~(w > 3)
    <3>1. w \in 1 .. 2 /\ Bound(w) = Weight(w)
      BY <2>2, Weights DEF Bound
    <3> DEFINE b == Weight(w)
    <3>2. b \in Nat \ {0} /\ n < b * 1
      BY <3>1, Weights
    <3> HIDE DEF b
    <3>3. n \div b < 1 /\ n \div b \in Nat
      BY <3>2, DivSmall, DivIs
    <3>4. n \div b = 0
      BY <3>3
    <3>5. V(0) = 0
      BY <2>2, <3>4 DEF b
    <3> QED
      BY <1>3, <3>5
  <2> QED
    BY <2>1, <2>2
<1>5. ASSUME NEW i \in 1 .. w, i - 1 \in T
      PROVE  i \in T
  <2> DEFINE k == w - i
  <2>1. f[i] = f[i - 1] * Base + D(i) /\ f[i - 1] = V(i - 1) /\ k \in Nat /\ w - (i - 1) = k + 1
    BY <1>3, <1>5
  <2>2. CASE k > 3
    <3>1. D(i) = 0 /\ V(i - 1) = 0 /\ V(i) = 0
      BY <2>1, <2>2
    <3> QED
      BY <2>1, <3>1, Sizes
  <2>3. CASE k = 3
    <3>1. V(i - 1) = 0 /\ D(i) = (n \div Weight(3)) % Base /\ V(i) = n \div Weight(3) /\ Bound(w) = Long
      BY <2>1, <2>3 DEF Bound
    <3> DEFINE b == Weight(3)
    <3>2. b \in Nat \ {0} /\ n < b * Base
      BY <3>1, Weights, Sizes
    <3> HIDE DEF b
    <3> DEFINE q == n \div b
    <3>3. q < Base /\ q \in Nat
      BY <3>2, DivSmall, DivIs, Sizes
    <3> HIDE DEF q
    <3>4. q % Base = q
      BY <3>3, Sizes
    <3>5. f[i] = 0 * Base + (q % Base) /\ V(i) = q
      BY <2>1, <3>1 DEF q, b
    <3> QED
      BY <3>3, <3>4, <3>5, Sizes
  <2>4. CASE k < 3
    <3> DEFINE b == Weight(k)
    <3>1. k \in 0 .. 2 /\ b \in Nat \ {0} /\ Weight(k + 1) = b * Base
      BY <2>1, <2>4, Weights
    <3>2. V(i - 1) = n \div (b * Base) /\ D(i) = (n \div b) % Base /\ V(i) = n \div b
      BY <2>1, <2>4, <3>1
    <3> HIDE DEF b, V, D
    <3> DEFINE m == b * Base
               q == n \div b
    <3>3. V(i - 1) = n \div m /\ D(i) = q % Base /\ V(i) = q /\ Base \in Nat \ {0}
      BY <3>2, Sizes
    <3>4. m = b * Base /\ q = n \div b
      OBVIOUS
    <3> HIDE DEF m, q
    <3>5. q \in Nat /\ n \div m = q \div Base
      <4>1. q \in Nat
        BY <3>1, <3>4, DivIs
      <4>2. q \div Base = n \div (b * Base)
        <5>1. (n \div b) \div Base = n \div (b * Base)
          BY <3>1, <3>3, DivDiv
        <5> QED
          BY <3>4, <5>1
      <4> QED
        BY <3>4, <4>1, <4>2
    <3>6. (q \div Base) * Base + (q % Base) = q
      BY <3>3, <3>5, Horner
    <3>7. f[i - 1] = q \div Base /\ f[i] = f[i - 1] * Base + (q % Base)
      BY <2>1, <3>3, <3>5
    <3>8. f[i] = V(i)
      BY <3>3, <3>6, <3>7
    <3> QED
      BY <3>8
  <2> QED
    BY <2>1, <2>2, <2>3, <2>4
<1>6. w \in T
  <2> HIDE DEF T
  <2> QED
    BY <1>4, <1>5, Climb
<1>7. n \div 1 = n
  OBVIOUS
<1> QED
  BY <1>2, <1>6, <1>7, Weights

-----------------------------------------------------------------------------
(* Sequences put together from parts.                                        *)

\* h[i] is what the first i parts give.
Parts(h, p) ==
  h \in [0 .. Len(p) -> Seq(Byte)] /\ h[0] = <<>> /\ \A i \in 1 .. Len(p) : h[i] = h[i - 1] \o p[i]

LEMMA FlattenParts ==
  ASSUME NEW p \in Seq(Seq(Byte))
  PROVE  \E h : Parts(h, p) /\ FlattenSeq(p) = h[Len(p)]
<1> DEFINE n == Len(p)
           S == Seq(Byte)
           G == [x \in (1 .. n) \X S |-> x[2] \o p[x[1]]]
<1>1. n \in Nat /\ \A i \in 1 .. n : p[i] \in S
  OBVIOUS
<1>2. \A x, y \in S : x \o y \in S
  BY ConcatProperties
<1>3. <<>> \in S /\ \A x \in S : <<>> \o x = x
  BY ConcatEmptySeq
<1> HIDE DEF S, n
<1>4. PICK h \in [0 .. n -> S] : h[0] = <<>> /\ \A i \in 1 .. n : h[i] = h[i - 1] \o p[i]
  <2>1. G \in [(1 .. n) \X S -> S]
    BY <1>1, <1>2
  <2>2. \A i \in 1 .. n, x \in S : G[<<i, x>>] = x \o p[i]
    OBVIOUS
  <2> HIDE DEF G
  <2>3. PICK h \in [0 .. n -> S] : Steps(h, n, <<>>, G)
    BY <1>1, <1>3, <2>1, StepsExist
  <2>4. ASSUME NEW i \in 1 .. n
        PROVE  h[i] = h[i - 1] \o p[i]
    <3>1. i - 1 \in 0 .. n /\ h[i - 1] \in S
      BY <1>1, <2>3
    <3> QED
      BY <2>2, <2>3, <3>1 DEF Steps
  <2> QED
    BY <2>3, <2>4 DEF Steps
<1>5. Parts(h, p)
  BY <1>4 DEF Parts, S, n
<1>6. CASE n = 0
  <2>1. p = <<>>
    BY <1>6 DEF n
  <2>2. FlattenSeq(p) = p
    BY <1>6 DEF FlattenSeq, n
  <2> QED
    BY <1>4, <1>5, <1>6, <2>1, <2>2 DEF n
<1>7. CASE n # 0
  <2> DEFINE F(g) == [i \in 1 .. n |-> IF i = 1 THEN p[i] ELSE g[i - 1] \o p[i]]
             v == CHOOSE g : g = F(g)
             k == [i \in 1 .. n |-> h[i]]
  <2>1. k = F(k)
    <3>1. ASSUME NEW i \in 1 .. n
          PROVE  k[i] = F(k)[i]
      <4>1. CASE i = 1
        <5>1. h[i] = h[i - 1] \o p[i] /\ p[i] \in S
          BY <1>1, <1>4
        <5>2. i - 1 = 0
          BY <4>1
        <5>3. h[i] = <<>> \o p[i]
          BY <1>4, <5>1, <5>2
        <5>4. h[i] = p[i]
          BY <1>3, <5>1, <5>3
        <5> QED
          BY <4>1, <5>4
      <4>2. CASE i # 1
        <5>1. i - 1 \in 1 .. n
          BY <1>1, <4>2
        <5> QED
          BY <1>4, <4>2, <5>1
      <4> QED
        BY <4>1, <4>2
    <3> QED
      BY <3>1
  <2>2. v = F(v)
    <3> HIDE DEF F, k
    <3> QED
      BY <2>1
  <2>3. FlattenSeq(p) = v[n]
    BY <1>7 DEF FlattenSeq, n
  <2> HIDE DEF v
  <2> DEFINE T == {i \in 0 .. n : i = 0 \/ v[i] = h[i]}
  <2>4. ASSUME NEW i \in 1 .. n, i - 1 \in T
        PROVE  i \in T
    <3>1. v[i] = IF i = 1 THEN p[i] ELSE v[i - 1] \o p[i]
      BY <2>2
    <3>2. CASE i = 1
      <4>1. h[i] = h[i - 1] \o p[i] /\ p[i] \in S
        BY <1>1, <1>4
      <4>2. i - 1 = 0 /\ i \in 0 .. n
        BY <1>1, <3>2
      <4>3. h[i] = <<>> \o p[i]
        BY <1>4, <4>1, <4>2
      <4>4. h[i] = p[i]
        BY <1>3, <4>1, <4>3
      <4> QED
        BY <3>1, <3>2, <4>2, <4>4
    <3>3. CASE i # 1
      <4>1. v[i - 1] = h[i - 1] /\ i \in 0 .. n
        BY <1>1, <2>4, <3>3
      <4>2. h[i] = h[i - 1] \o p[i]
        BY <1>4
      <4> QED
        BY <3>1, <3>3, <4>1, <4>2
    <3> QED
      BY <3>2, <3>3
  <2>5. 0 \in T
    BY <1>1
  <2> HIDE DEF T
  <2>6. \A i \in 0 .. n : i \in T
    BY <1>1, <2>4, <2>5, Climb
  <2>7. v[n] = h[n]
    BY <1>1, <1>7, <2>6 DEF T
  <2> QED
    BY <1>5, <2>3, <2>7 DEF n
<1> QED
  BY <1>6, <1>7

\* d has s behind its first at bytes, as far as it goes.
Agrees(d, at, s) == \A j \in 1 .. Len(s) : at + j <= Len(d) => d[at + j] = s[j]

\* Each part is where the parts before it end.
LEMMA PartsAgree ==
  ASSUME NEW p \in Seq(Seq(Byte)), NEW h, Parts(h, p)
  PROVE  /\ \A i \in 0 .. Len(p) : h[i] \in Seq(Byte) /\ Len(h[i]) \in Nat
         /\ \A i \in 1 .. Len(p) : /\ Len(h[i]) = Len(h[i - 1]) + Len(p[i])
                                   /\ Len(h[i]) <= Len(h[Len(p)])
                                   /\ Agrees(h[Len(p)], Len(h[i - 1]), p[i])
<1> DEFINE n == Len(p)
           Has(m, i) == /\ Len(h[i]) <= Len(h[m])
                        /\ \A j \in 1 .. Len(p[i]) : h[m][Len(h[i - 1]) + j] = p[i][j]
           T == {m \in 0 .. n : \A i \in 1 .. m : Has(m, i)}
<1>1. n \in Nat /\ \A i \in 1 .. n : p[i] \in Seq(Byte)
  OBVIOUS
<1>2. \A i \in 0 .. n : h[i] \in Seq(Byte) /\ Len(h[i]) \in Nat
  BY DEF Parts
<1>a. \A i \in 1 .. n : h[i] = h[i - 1] \o p[i]
  BY DEF Parts
<1> HIDE DEF n
<1>3. ASSUME NEW i \in 1 .. n
      PROVE  /\ Len(h[i]) = Len(h[i - 1]) + Len(p[i]) /\ Len(p[i]) \in Nat
             /\ \A x \in 1 .. Len(h[i - 1]) + Len(p[i]) :
                  h[i][x] = IF x <= Len(h[i - 1]) THEN h[i - 1][x] ELSE p[i][x - Len(h[i - 1])]
  <2>1. i - 1 \in 0 .. n
    BY <1>1
  <2>2. h[i - 1] \in Seq(Byte) /\ p[i] \in Seq(Byte) /\ h[i] = h[i - 1] \o p[i]
    BY <1>1, <1>2, <1>a, <2>1
  <2> DEFINE x == h[i - 1]
             y == p[i]
  <2>3. x \in Seq(Byte) /\ y \in Seq(Byte) /\ h[i] = x \o y
    BY <2>2
  <2> HIDE DEF x, y
  <2>4. /\ Len(x \o y) = Len(x) + Len(y) /\ Len(y) \in Nat
        /\ \A z \in 1 .. Len(x) + Len(y) : (x \o y)[z] = IF z <= Len(x) THEN x[z] ELSE y[z - Len(x)]
    BY <2>3, ConcatProperties
  <2> QED
    BY <2>3, <2>4 DEF x, y
<1>4. ASSUME NEW m \in 1 .. n, m - 1 \in T
      PROVE  m \in T
  <2> SUFFICES ASSUME NEW i \in 1 .. m
               PROVE  Has(m, i)
    BY <1>1
  <2>1. m - 1 \in 0 .. n /\ i - 1 \in 0 .. n /\ i \in 1 .. n
    BY <1>1
  <2> DEFINE lm == Len(h[m - 1])
             li == Len(h[i - 1])
             pi == Len(p[i])
             pm == Len(p[m])
  <2>2. /\ lm \in Nat /\ li \in Nat /\ Len(h[i]) \in Nat /\ pi \in Nat /\ pm \in Nat
        /\ Len(h[i]) = li + pi /\ Len(h[m]) = lm + pm
    <3>1. m \in 0 .. n /\ i \in 0 .. n
      BY <1>1, <2>1
    <3>2. lm \in Nat /\ li \in Nat /\ Len(h[i]) \in Nat
      BY <1>2, <2>1, <3>1
    <3>3. pi \in Nat /\ Len(h[i]) = li + pi
      BY <1>3, <2>1
    <3>4. pm \in Nat /\ Len(h[m]) = lm + pm
      BY <1>3
    <3> QED
      BY <3>2, <3>3, <3>4
  <2>a. /\ \A x \in 1 .. li + pi : h[i][x] = IF x <= li THEN h[i - 1][x] ELSE p[i][x - li]
        /\ \A x \in 1 .. lm + pm : h[m][x] = IF x <= lm THEN h[m - 1][x] ELSE p[m][x - lm]
    BY <1>3, <2>1
  <2>3. CASE i = m
    <3>1. ASSUME NEW j \in 1 .. pi
          PROVE  h[m][li + j] = p[i][j]
      <4> HIDE DEF li, pi
      <4>1. li + j \in 1 .. li + pi /\ ~(li + j <= li) /\ (li + j) - li = j
        BY <2>2
      <4> QED
        BY <2>3, <2>a, <4>1
    <3> QED
      BY <2>2, <2>3, <3>1
  <2>4. CASE i # m
    <3>1. i \in 1 .. m - 1
      BY <2>4
    <3>2. Has(m - 1, i)
      BY <1>4, <3>1
    <3>3. Len(h[i]) <= lm /\ \A j \in 1 .. pi : h[m - 1][li + j] = p[i][j]
      BY <3>2
    <3>4. ASSUME NEW j \in 1 .. pi
          PROVE  h[m][li + j] = p[i][j]
      <4> HIDE DEF li, pi, lm, pm
      <4>1. li + j \in 1 .. lm + pm /\ li + j <= lm
        BY <2>2, <3>3
      <4>2. h[m][li + j] = h[m - 1][li + j]
        BY <2>a, <4>1
      <4> QED
        BY <3>3, <4>2
    <3>5. Len(h[i]) <= Len(h[m])
      <4> HIDE DEF li, pi, lm, pm
      <4> QED
        BY <2>2, <3>3
    <3> QED
      BY <3>4, <3>5
  <2> QED
    BY <2>3, <2>4
<1>5. 0 \in T
  BY <1>1
<1>6. \A m \in 0 .. n : m \in T
  <2> HIDE DEF T
  <2> QED
    BY <1>1, <1>4, <1>5, Climb
<1>7. n \in T
  BY <1>1, <1>6
<1> QED
  BY <1>1, <1>2, <1>3, <1>7 DEF Agrees, n

-----------------------------------------------------------------------------
(* Fields.                                                                   *)

Field == {"1", "2", "4", "8", "s2", "s4"}
Strings == {"s2", "s4"}

\* What a field can hold.
Fits(f, v) ==
  IF f \in Strings THEN v \in Seq(Byte) /\ Len(v) < Bound(Width(f))
  ELSE v \in Nat /\ v < Bound(Width(f))

LEMMA Widths ==
  /\ \A f \in Field : Width(f) \in {1, 2, 4, 8} /\ Width(f) \in Nat
  /\ Width("1") = 1 /\ Width("2") = 2 /\ Width("s2") = 2
  /\ Width("4") = 4 /\ Width("s4") = 4 /\ Width("8") = 8
  /\ Bound(1) = Base /\ Bound(2) = Short /\ Bound(4) = Long /\ Bound(8) = Long
BY DEF Field, Width, Bound

\* The number in front, and what is behind it.
LEMMA WriteIs ==
  ASSUME NEW f \in Field, NEW v, Fits(f, v)
  PROVE  /\ Write(f, v) \in Seq(Byte)
         /\ f \notin Strings =>
              /\ Len(Write(f, v)) = Width(f)
              /\ \A j \in 1 .. Width(f) : Write(f, v)[j] = BigEndian(v, Width(f))[j]
         /\ f \in Strings =>
              /\ Len(Write(f, v)) = Width(f) + Len(v)
              /\ \A j \in 1 .. Width(f) : Write(f, v)[j] = BigEndian(Len(v), Width(f))[j]
              /\ \A j \in 1 .. Len(v) : Write(f, v)[Width(f) + j] = v[j]
<1>1. Width(f) \in Nat
  BY Widths
<1>2. CASE f \notin Strings
  <2>1. v \in Nat /\ Write(f, v) = BigEndian(v, Width(f))
    BY <1>2 DEF Fits, Write, Strings
  <2> QED
    BY <1>1, <1>2, <2>1, BigEndianIs
<1>3. CASE f \in Strings
  <2> DEFINE w == Width(f)
             b == BigEndian(Len(v), w)
  <2>1. v \in Seq(Byte) /\ Write(f, v) = b \o v /\ Len(v) \in Nat /\ w \in Nat
    BY <1>1, <1>3 DEF Fits, Write, Strings
  <2>2. b \in Seq(Byte) /\ Len(b) = w
    BY <2>1, BigEndianIs
  <2> HIDE DEF b, w
  <2>3. /\ b \o v \in Seq(Byte) /\ Len(b \o v) = Len(b) + Len(v)
        /\ \A j \in 1 .. Len(b) + Len(v) : (b \o v)[j] = IF j <= Len(b) THEN b[j] ELSE v[j - Len(b)]
    BY <2>1, <2>2, ConcatProperties
  <2>4. \A j \in 1 .. w : (b \o v)[j] = b[j]
    BY <2>1, <2>2, <2>3
  <2>5. ASSUME NEW j \in 1 .. Len(v)
        PROVE  (b \o v)[w + j] = v[j]
    <3>1. w + j \in 1 .. Len(b) + Len(v) /\ ~(w + j <= Len(b)) /\ (w + j) - Len(b) = j
      BY <2>1, <2>2
    <3> QED
      BY <2>3, <3>1
  <2>6. /\ Write(f, v) \in Seq(Byte) /\ Len(Write(f, v)) = w + Len(v)
        /\ \A j \in 1 .. w : Write(f, v)[j] = b[j]
        /\ \A j \in 1 .. Len(v) : Write(f, v)[w + j] = v[j]
    BY <2>1, <2>2, <2>3, <2>4, <2>5
  <2> QED
    BY <1>3, <2>6 DEF b, w
<1> QED
  BY <1>2, <1>3

\* One step of Read, and what it starts from and leaves.
One(f, d, p) ==
  IF p = Refused \/ p.at + Width(f) > Len(d) THEN Refused
  ELSE IF f \notin Strings
  THEN [at |-> p.at + Width(f), values |-> Append(p.values, Number(d, p.at, Width(f)))]
  ELSE IF p.at + Width(f) + Number(d, p.at, Width(f)) > Len(d) THEN Refused
  ELSE [at |-> p.at + Width(f) + Number(d, p.at, Width(f)),
        values |-> Append(p.values, Bytes(d, p.at + Width(f), Number(d, p.at, Width(f))))]

Value == Nat \cup Seq(Nat)
Read0 == [at |-> 0, values |-> <<>>]
Places == [at : Nat, values : Seq(Value)]
State == {Refused} \cup Places

LEMMA BytesIs ==
  ASSUME NEW d \in Seq(Byte), NEW at \in Nat, NEW n \in Nat, at + n <= Len(d)
  PROVE  /\ Bytes(d, at, n) \in Seq(Byte) /\ Bytes(d, at, n) \in Seq(Nat)
         /\ Len(Bytes(d, at, n)) = n
         /\ \A j \in 1 .. n : Bytes(d, at, n)[j] = d[at + j]
<1>1. Byte \subseteq Nat
  BY Sizes DEF Byte
<1>2. \A j \in at + 1 .. at + n : d[j] \in Byte
  OBVIOUS
<1>3. Len(Bytes(d, at, n)) = n /\ \A j \in 1 .. n : Bytes(d, at, n)[j] = d[at + j]
  BY DEF Bytes
<1>4. Bytes(d, at, n) \in Seq(Byte)
  BY <1>2 DEF Bytes
<1>5. Bytes(d, at, n) \in Seq(Nat)
  <2> DEFINE s == Bytes(d, at, n)
  <2>1. s \in Seq(Byte)
    BY <1>4
  <2> HIDE DEF s
  <2>2. s \in Seq(Nat)
    BY <1>1, <2>1, SeqMonotonic
  <2> QED
    BY <2>2 DEF s
<1> QED
  BY <1>3, <1>4, <1>5

LEMMA NumberIn ==
  ASSUME NEW d \in Seq(Byte), NEW at \in Nat, NEW w \in Nat, at + w <= Len(d)
  PROVE  Number(d, at, w) \in Nat
<1>1. \A i \in 1 .. w : d[at + i] \in Nat
  BY Sizes DEF Byte
<1> QED
  BY <1>1, NumberNat

LEMMA OneIn ==
  ASSUME NEW f \in Field, NEW d \in Seq(Byte), NEW p \in State
  PROVE  One(f, d, p) \in State
<1>1. CASE p = Refused \/ p.at + Width(f) > Len(d)
  BY <1>1 DEF One, State
<1>2. CASE ~(p = Refused \/ p.at + Width(f) > Len(d))
  <2> DEFINE w == Width(f)
             n == Number(d, p.at, w)
  <2>1. p \in Places /\ p.at \in Nat /\ p.values \in Seq(Value) /\ w \in Nat /\ p.at + w <= Len(d)
    BY <1>2, Widths DEF State, Places
  <2>2. n \in Nat
    BY <2>1, NumberIn
  <2> HIDE DEF n, w
  <2>3. Append(p.values, n) \in Seq(Value) /\ p.at + w \in Nat /\ p.at + w + n \in Nat
    BY <2>1, <2>2 DEF Value
  <2>4. ASSUME ~(p.at + w + n > Len(d))
        PROVE  Append(p.values, Bytes(d, p.at + w, n)) \in Seq(Value)
    <3>1. p.at + w + n <= Len(d)
      BY <2>1, <2>2, <2>3, <2>4
    <3>2. Bytes(d, p.at + w, n) \in Value
      BY <2>2, <2>3, <3>1, BytesIs DEF Value
    <3> QED
      BY <2>1, <3>2
  <2>5. [at |-> p.at + w, values |-> Append(p.values, n)] \in State
    BY <2>3 DEF State, Places
  <2>6. ~(p.at + w + n > Len(d)) =>
           [at |-> p.at + w + n, values |-> Append(p.values, Bytes(d, p.at + w, n))] \in State
    BY <2>3, <2>4 DEF State, Places
  <2>7. One(f, d, p) = IF f \notin Strings THEN [at |-> p.at + w, values |-> Append(p.values, n)]
                       ELSE IF p.at + w + n > Len(d) THEN Refused
                       ELSE [at |-> p.at + w + n,
                             values |-> Append(p.values, Bytes(d, p.at + w, n))]
    BY <1>2 DEF One, w, n
  <2>8. Refused \in State
    BY DEF State
  <2> QED
    BY <2>5, <2>6, <2>7, <2>8
<1> QED
  BY <1>1, <1>2

\* Read goes from field to field.
Walk(a, fs, d) ==
  /\ a \in [0 .. Len(fs) -> State] /\ a[0] = Read0
  /\ \A i \in 1 .. Len(fs) : a[i] = One(fs[i], d, a[i - 1])

LEMMA ReadIs ==
  ASSUME NEW fs \in Seq(Field), NEW d \in Seq(Byte)
  PROVE  \E a : /\ Walk(a, fs, d)
                /\ Read(fs, d) = IF a[Len(fs)] = Refused THEN Refused ELSE a[Len(fs)].values
<1> DEFINE n == Len(fs)
           F(a) == [i \in 0 .. n |-> IF i = 0 THEN Read0 ELSE One(fs[i], d, a[i - 1])]
           G == [x \in (1 .. n) \X State |-> One(fs[x[1]], d, x[2])]
           v == CHOOSE a : a = F(a)
<1>1. n \in Nat /\ \A i \in 1 .. n : fs[i] \in Field
  OBVIOUS
<1>2. Read0 \in State
  BY DEF Read0, State, Places
<1>3. \A i \in 1 .. n, x \in State : One(fs[i], d, x) \in State
  BY <1>1, OneIn
<1>4. PICK b \in [0 .. n -> State] : Steps(b, n, Read0, G)
  <2>1. G \in [(1 .. n) \X State -> State]
    BY <1>3
  <2> HIDE DEF G, n
  <2> QED
    BY <1>1, <1>2, <2>1, StepsExist
<1>5. ASSUME NEW i \in 1 .. n
      PROVE  b[i] = One(fs[i], d, b[i - 1])
  <2>1. i - 1 \in 0 .. n /\ b[i - 1] \in State
    BY <1>1
  <2>2. b[i] = G[<<i, b[i - 1]>>]
    BY <1>4 DEF Steps
  <2> HIDE DEF n
  <2> QED
    BY <2>1, <2>2
<1>6. b = F(b)
  <2>1. b[0] = Read0
    BY <1>4 DEF Steps
  <2>2. ASSUME NEW i \in 0 .. n
        PROVE  b[i] = F(b)[i]
    <3>1. CASE i = 0
      BY <2>1, <3>1
    <3>2. CASE i # 0
      <4>1. i \in 1 .. n
        BY <3>2
      <4> QED
        BY <1>5, <3>2, <4>1
    <3> QED
      BY <3>1, <3>2
  <2> HIDE DEF n
  <2> QED
    BY <2>2
<1>7. v = F(v)
  <2> HIDE DEF F
  <2> QED
    BY <1>6
<1>8. Read(fs, d) = IF v[n] = Refused THEN Refused ELSE v[n].values
  BY DEF Read, One, Read0, Strings
<1> HIDE DEF v
<1>9. v[0] = Read0 /\ \A i \in 1 .. n : v[i] = One(fs[i], d, v[i - 1])
  <2>1. 0 \in 0 .. n /\ \A i \in 1 .. n : i \in 0 .. n /\ i # 0
    BY <1>1
  <2> HIDE DEF n
  <2> QED
    BY <1>7, <2>1
<1> DEFINE T == {i \in 0 .. n : v[i] \in State}
<1>10. \A i \in 0 .. n : i \in T
  <2>1. 0 \in T
    BY <1>1, <1>2, <1>9
  <2>2. ASSUME NEW i \in 1 .. n, i - 1 \in T
        PROVE  i \in T
    <3>1. v[i - 1] \in State /\ i \in 0 .. n
      BY <2>2
    <3> QED
      BY <1>3, <1>9, <3>1
  <2> HIDE DEF T, n
  <2> QED
    BY <1>1, <2>1, <2>2, Climb
<1>11. v \in [0 .. n -> State]
  <2>1. v = [i \in 0 .. n |-> v[i]]
    BY <1>7
  <2> HIDE DEF n
  <2> QED
    BY <1>10, <2>1
<1> QED
  BY <1>8, <1>9, <1>11 DEF Walk

\* Where the bytes of a field are, the field is read, and not if its end is missing.
LEMMA OneReads ==
  ASSUME NEW f \in Field, NEW v, Fits(f, v), NEW d \in Seq(Byte), NEW at \in Nat, at <= Len(d),
         NEW values \in Seq(Value), Agrees(d, at, Write(f, v))
  PROVE  One(f, d, [at |-> at, values |-> values])
           = IF at + Len(Write(f, v)) <= Len(d)
             THEN [at |-> at + Len(Write(f, v)), values |-> Append(values, v)] ELSE Refused
<1> DEFINE p == [at |-> at, values |-> values]
           w == Width(f)
           n == Number(d, at, w)
           s == Write(f, v)
<1>1. p # Refused
  BY RefusedAssumption DEF Value
<1>2. w \in {1, 2, 4, 8} /\ w \in Nat
  BY Widths
<1>3. p.at = at /\ p.values = values
  OBVIOUS
<1>4. s \in Seq(Byte) /\ Len(s) \in Nat /\ Len(d) \in Nat
  BY WriteIs
<1>5. \A j \in 1 .. Len(s) : at + j <= Len(d) => d[at + j] = s[j]
  BY DEF Agrees
<1> HIDE DEF p
<1>6. One(f, d, p) = IF at + w > Len(d) THEN Refused
                     ELSE IF f \notin Strings THEN [at |-> at + w, values |-> Append(values, n)]
                     ELSE IF at + w + n > Len(d) THEN Refused
                     ELSE [at |-> at + w + n, values |-> Append(values, Bytes(d, at + w, n))]
  BY <1>1, <1>3 DEF One
<1>7. CASE f \notin Strings
  <2>1. Len(s) = w /\ (\A j \in 1 .. w : s[j] = BigEndian(v, w)[j]) /\ v \in Nat /\ v < Bound(w)
    BY <1>7, WriteIs DEF Fits
  <2>2. CASE at + w <= Len(d)
    <3>1. Says(d, at, w, v)
      <4> HIDE DEF w, s
      <4> QED
        BY <1>2, <1>4, <1>5, <2>1, <2>2 DEF Says
    <3>2. n = v
      <4> HIDE DEF w
      <4> QED
        BY <1>2, <2>1, <3>1, NumberOf
    <3> HIDE DEF n, w, s
    <3> QED
      BY <1>2, <1>4, <1>6, <1>7, <2>1, <2>2, <3>2 DEF p, s
  <2>3. CASE ~(at + w <= Len(d))
    <3> HIDE DEF n, w, s
    <3> QED
      BY <1>2, <1>4, <1>6, <2>1, <2>3 DEF p, s
  <2> QED
    BY <2>2, <2>3
<1>8. CASE f \in Strings
  <2> DEFINE l == Len(v)
  <2>1. /\ Len(s) = w + l /\ (\A j \in 1 .. w : s[j] = BigEndian(l, w)[j])
        /\ (\A j \in 1 .. l : s[w + j] = v[j]) /\ v \in Seq(Byte) /\ l \in Nat /\ l < Bound(w)
    BY <1>8, WriteIs DEF Fits
  <2>2. CASE at + w <= Len(d)
    <3>1. Says(d, at, w, l)
      <4> HIDE DEF w, s, l
      <4> QED
        BY <1>2, <1>4, <1>5, <2>1, <2>2 DEF Says
    <3>2. n = l
      <4> HIDE DEF w, l
      <4> QED
        BY <1>2, <2>1, <3>1, NumberOf
    <3>3. CASE at + w + l <= Len(d)
      <4>1. ASSUME NEW j \in 1 .. l
            PROVE  d[(at + w) + j] = v[j]
        <5> HIDE DEF w, l, s
        <5>1. w + j \in 1 .. Len(s) /\ at + (w + j) = (at + w) + j /\ at + (w + j) <= Len(d)
          BY <1>2, <1>4, <2>1, <3>3
        <5> QED
          BY <1>5, <2>1, <5>1
      <4> DEFINE b == Bytes(d, at + w, l)
      <4>2. b \in Seq(Byte) /\ Len(b) = l /\ \A j \in 1 .. l : b[j] = d[(at + w) + j]
        <5>1. at + w \in Nat /\ (at + w) + l <= Len(d)
          BY <1>2, <2>1, <3>3
        <5> HIDE DEF w, l
        <5> QED
          BY <2>1, <5>1, BytesIs
      <4> HIDE DEF b
      <4>3. b = v
        <5>1. \A j \in 1 .. l : b[j] = v[j]
          <6> HIDE DEF w, l
          <6> QED
            BY <4>1, <4>2
        <5>2. Len(v) = l /\ Len(b) = l /\ b \in Seq(Byte) /\ v \in Seq(Byte)
          BY <2>1, <4>2, Zenon
        <5>3. \A j \in 1 .. Len(b) : b[j] = v[j]
          BY <5>1, <5>2, Zenon
        <5> HIDE DEF l
        <5> QED
          BY <5>2, <5>3, SeqEqual, Zenon
      <4> HIDE DEF n, w, s, l
      <4>4. at + Len(s) = at + w + l /\ ~(at + w > Len(d)) /\ ~(at + w + n > Len(d))
            /\ at + w + n = at + Len(s)
        BY <1>2, <1>4, <2>1, <2>2, <3>2, <3>3
      <4>5. Bytes(d, at + w, n) = v
        BY <3>2, <4>3 DEF b
      <4>6. One(f, d, p) = [at |-> at + w + n, values |-> Append(values, Bytes(d, at + w, n))]
        BY <1>6, <1>8, <4>4
      <4>7. at + Len(s) <= Len(d)
        BY <3>3, <4>4
      <4> QED
        BY <4>4, <4>5, <4>6, <4>7 DEF p, s
    <3>4. CASE ~(at + w + l <= Len(d))
      <4> HIDE DEF n, w, s, l
      <4>1. at + w + n > Len(d) /\ ~(at + Len(s) <= Len(d))
        BY <1>2, <1>4, <2>1, <3>2, <3>4
      <4> QED
        BY <1>6, <1>8, <4>1 DEF p, s
    <3> QED
      BY <3>3, <3>4
  <2>3. CASE ~(at + w <= Len(d))
    <3> HIDE DEF n, w, s, l
    <3>1. at + w > Len(d) /\ ~(at + Len(s) <= Len(d))
      BY <1>2, <1>4, <2>1, <2>3
    <3> QED
      BY <1>6, <3>1 DEF p, s
  <2> QED
    BY <2>2, <2>3
<1> QED
  BY <1>7, <1>8

-----------------------------------------------------------------------------
(* What is encoded is read.                                                  *)

Fit(fs, vs) ==
  /\ fs \in Seq(Field) /\ vs \in Seq(Value) /\ Len(vs) = Len(fs)
  /\ \A i \in 1 .. Len(fs) : Fits(fs[i], vs[i])

Written(fs, vs) == [i \in DOMAIN fs |-> Write(fs[i], vs[i])]

LEMMA EncodeIs ==
  ASSUME NEW fs, NEW vs, Fit(fs, vs)
  PROVE  /\ Written(fs, vs) \in Seq(Seq(Byte)) /\ Len(Written(fs, vs)) = Len(fs)
         /\ \E h : Parts(h, Written(fs, vs)) /\ Encode(fs, vs) = h[Len(fs)]
<1> DEFINE p == Written(fs, vs)
<1>1. DOMAIN fs = 1 .. Len(fs) /\ Len(fs) \in Nat
  BY DEF Fit
<1>2. \A i \in 1 .. Len(fs) : Write(fs[i], vs[i]) \in Seq(Byte)
  <2> TAKE i \in 1 .. Len(fs)
  <2>1. fs[i] \in Field /\ Fits(fs[i], vs[i])
    BY DEF Fit
  <2> QED
    BY <2>1, WriteIs
<1>3. p \in [1 .. Len(fs) -> Seq(Byte)]
  BY <1>1, <1>2 DEF Written
<1>4. p \in Seq(Seq(Byte)) /\ Len(p) = Len(fs)
  <2> HIDE DEF p
  <2> QED
    BY <1>1, <1>3
<1>5. Encode(fs, vs) = FlattenSeq(p)
  BY DEF Encode, Written
<1> HIDE DEF p
<1>6. PICK h : Parts(h, p) /\ FlattenSeq(p) = h[Len(p)]
  BY <1>4, FlattenParts
<1> QED
  BY <1>4, <1>5, <1>6 DEF p

\* A reader gets what was encoded in front of anything, and nothing if the end of it is
\* missing.
LEMMA ReadsBack ==
  ASSUME NEW fs, NEW vs, Fit(fs, vs), NEW d \in Seq(Byte), Agrees(d, 0, Encode(fs, vs))
  PROVE  Read(fs, d) = IF Len(Encode(fs, vs)) <= Len(d) THEN vs ELSE Refused
<1> DEFINE n == Len(fs)
           p == Written(fs, vs)
<1>1. /\ n \in Nat /\ fs \in Seq(Field) /\ vs \in Seq(Value) /\ Len(vs) = n
      /\ \A i \in 1 .. n : fs[i] \in Field /\ Fits(fs[i], vs[i]) /\ vs[i] \in Value
  BY DEF Fit
<1>2. p \in Seq(Seq(Byte)) /\ Len(p) = n /\ \A i \in 1 .. n : p[i] = Write(fs[i], vs[i])
  <2>1. DOMAIN fs = 1 .. n
    BY <1>1
  <2> QED
    BY <2>1, EncodeIs DEF Written
<1>3. PICK h : Parts(h, p) /\ Encode(fs, vs) = h[n]
  BY EncodeIs
<1>4. PICK a : /\ Walk(a, fs, d)
               /\ Read(fs, d) = IF a[n] = Refused THEN Refused ELSE a[n].values
  BY <1>1, ReadIs
<1> HIDE DEF n, p
<1>5. /\ \A i \in 0 .. n : h[i] \in Seq(Byte) /\ Len(h[i]) \in Nat
      /\ \A i \in 1 .. n : /\ Len(h[i]) = Len(h[i - 1]) + Len(p[i])
                           /\ Len(h[i]) <= Len(h[n])
                           /\ Agrees(h[n], Len(h[i - 1]), p[i])
  BY <1>2, <1>3, PartsAgree
<1>6. a[0] = Read0 /\ \A i \in 1 .. n : a[i] = One(fs[i], d, a[i - 1])
  BY <1>4 DEF Walk, n
<1> DEFINE At(i) == [at |-> Len(h[i]), values |-> SubSeq(vs, 1, i)]
           T == {i \in 0 .. n : a[i] = IF Len(h[i]) <= Len(d) THEN At(i) ELSE Refused}
<1>7. 0 \in T
  <2>1. h[0] = <<>> /\ SubSeq(vs, 1, 0) = <<>> /\ Len(d) \in Nat
    BY <1>1, <1>3 DEF Parts
  <2> QED
    BY <1>1, <1>6, <2>1 DEF Read0
<1>8. ASSUME NEW i \in 1 .. n, i - 1 \in T
      PROVE  i \in T
  <2> DEFINE l == Len(h[i - 1])
             m == Len(p[i])
             k == Len(h[i])
             before == SubSeq(vs, 1, i - 1)
  <2>1. i - 1 \in 0 .. n /\ i \in 0 .. n
    BY <1>1
  <2>2. /\ l \in Nat /\ k \in Nat /\ Len(h[n]) \in Nat /\ k = l + m /\ k <= Len(h[n])
        /\ Agrees(h[n], l, p[i]) /\ Len(d) \in Nat /\ m \in Nat
    <3>1. n \in 0 .. n /\ p[i] \in Seq(Byte) /\ Len(d) \in Nat
      BY <1>1, <1>2
    <3>2. l \in Nat /\ k \in Nat /\ Len(h[n]) \in Nat
      BY <1>5, <2>1, <3>1
    <3>3. k = l + m /\ k <= Len(h[n]) /\ Agrees(h[n], l, p[i])
      BY <1>5
    <3>4. m \in Nat
      BY <3>1
    <3> QED
      BY <3>1, <3>2, <3>3, <3>4
  <2>3. Agrees(d, l, p[i])
    <3> SUFFICES ASSUME NEW j \in 1 .. m, l + j <= Len(d)
                 PROVE  d[l + j] = p[i][j]
      BY DEF Agrees
    <3>1. l + j \in 1 .. Len(h[n])
      <4> HIDE DEF l, k, m
      <4> QED
        BY <2>2
    <3>2. h[n][l + j] = p[i][j]
      <4>1. l + j <= Len(h[n])
        <5> HIDE DEF l
        <5> QED
          BY <2>2, <3>1
      <4> QED
        BY <2>2, <4>1 DEF Agrees
    <3>3. 0 + (l + j) = l + j
      BY <2>2
    <3>4. d[l + j] = h[n][l + j]
      <4> HIDE DEF l
      <4> QED
        BY <1>3, <3>1, <3>3 DEF Agrees
    <3> QED
      BY <3>2, <3>4
  <2>4. a[i - 1] = IF l <= Len(d) THEN [at |-> l, values |-> before] ELSE Refused
    BY <1>8
  <2>5. a[i] = One(fs[i], d, a[i - 1])
    BY <1>6
  <2>6. CASE l <= Len(d)
    <3>1. before \in Seq(Value) /\ Append(before, vs[i]) = SubSeq(vs, 1, i)
      BY <1>1, <2>1
    <3> HIDE DEF l, k, m, before
    <3>2. One(fs[i], d, [at |-> l, values |-> before])
            = IF l + m <= Len(d) THEN [at |-> l + m, values |-> Append(before, vs[i])]
              ELSE Refused
      <4>1. Agrees(d, l, Write(fs[i], vs[i])) /\ m = Len(Write(fs[i], vs[i]))
        BY <1>2, <2>3 DEF m
      <4>2. fs[i] \in Field /\ Fits(fs[i], vs[i])
        BY <1>1
      <4> QED
        BY <2>2, <2>6, <3>1, <4>1, <4>2, OneReads
    <3>3. a[i] = IF k <= Len(d) THEN [at |-> k, values |-> SubSeq(vs, 1, i)] ELSE Refused
      BY <2>2, <2>4, <2>5, <2>6, <3>1, <3>2
    <3> QED
      BY <2>1, <3>3 DEF k
  <2>7. CASE ~(l <= Len(d))
    <3>1. a[i - 1] = Refused
      BY <2>4, <2>7
    <3>2. a[i] = Refused
      BY <2>5, <3>1 DEF One
    <3>3. ~(k <= Len(d))
      <4> HIDE DEF l, k, m
      <4> QED
        BY <2>2, <2>7
    <3> QED
      BY <2>1, <3>2, <3>3
  <2> QED
    BY <2>6, <2>7
<1>9. n \in T
  <2> HIDE DEF T
  <2>1. \A i \in 0 .. n : i \in T
    BY <1>1, <1>7, <1>8, Climb
  <2> QED
    BY <1>1, <2>1
<1>10. a[n] = IF Len(h[n]) <= Len(d) THEN At(n) ELSE Refused
  BY <1>9
<1>11. At(n).values = vs /\ At(n) # Refused
  <2>1. SubSeq(vs, 1, n) = vs
    BY <1>1
  <2>2. Len(h[n]) \in Nat
    BY <1>1, <1>5
  <2> QED
    BY <1>1, <2>1, <2>2, RefusedAssumption DEF Value
<1> HIDE DEF At
<1> QED
  BY <1>3, <1>4, <1>10, <1>11

\* Where each field is, and how long the whole is.
Offsets(o, fs, vs) ==
  /\ o[0] = 0 /\ o[Len(fs)] = Len(Encode(fs, vs))
  /\ \A i \in 0 .. Len(fs) : o[i] \in Nat
  /\ \A i \in 1 .. Len(fs) : /\ o[i] = o[i - 1] + Len(Write(fs[i], vs[i]))
                             /\ o[i] <= Len(Encode(fs, vs))
                             /\ Agrees(Encode(fs, vs), o[i - 1], Write(fs[i], vs[i]))

LEMMA OffsetsExist ==
  ASSUME NEW fs, NEW vs, Fit(fs, vs)
  PROVE  Encode(fs, vs) \in Seq(Byte) /\ \E o : Offsets(o, fs, vs)
<1> DEFINE n == Len(fs)
           p == Written(fs, vs)
<1>1. n \in Nat /\ DOMAIN fs = 1 .. n
  BY DEF Fit
<1>2. p \in Seq(Seq(Byte)) /\ Len(p) = n /\ \A i \in 1 .. n : p[i] = Write(fs[i], vs[i])
  BY <1>1, EncodeIs DEF Written
<1>3. PICK h : Parts(h, p) /\ Encode(fs, vs) = h[n]
  BY EncodeIs
<1> HIDE DEF n, p
<1>4. /\ \A i \in 0 .. n : h[i] \in Seq(Byte) /\ Len(h[i]) \in Nat
      /\ \A i \in 1 .. n : /\ Len(h[i]) = Len(h[i - 1]) + Len(p[i])
                           /\ Len(h[i]) <= Len(h[n])
                           /\ Agrees(h[n], Len(h[i - 1]), p[i])
  BY <1>2, <1>3, PartsAgree
<1> DEFINE o == [i \in 0 .. n |-> Len(h[i])]
<1>5. \A i \in 1 .. n : i \in 0 .. n /\ i - 1 \in 0 .. n
  BY <1>1
<1>6. /\ \A i \in 0 .. n : o[i] = Len(h[i]) /\ o[i] \in Nat
      /\ \A i \in 1 .. n : o[i] = Len(h[i]) /\ o[i - 1] = Len(h[i - 1])
  BY <1>4, <1>5
<1>7. o[0] = 0 /\ o[n] = Len(Encode(fs, vs))
  <2>1. h[0] = <<>> /\ 0 \in 0 .. n /\ n \in 0 .. n
    BY <1>1, <1>3 DEF Parts
  <2> QED
    BY <1>3, <1>6, <2>1
<1> HIDE DEF o
<1>8. ASSUME NEW i \in 1 .. n
      PROVE  /\ o[i] = o[i - 1] + Len(Write(fs[i], vs[i])) /\ o[i] <= Len(Encode(fs, vs))
             /\ Agrees(Encode(fs, vs), o[i - 1], Write(fs[i], vs[i]))
  BY <1>2, <1>3, <1>4, <1>6
<1>9. Offsets(o, fs, vs)
  BY <1>6, <1>7, <1>8 DEF Offsets, n
<1>10. Encode(fs, vs) \in Seq(Byte)
  BY <1>1, <1>3, <1>4
<1> QED
  BY <1>9, <1>10

\* Fields of bounded length make a message of bounded length.
LEMMA EncodeLen ==
  ASSUME NEW fs, NEW vs, Fit(fs, vs), NEW M \in Nat,
         \A i \in 1 .. Len(fs) : Len(Write(fs[i], vs[i])) <= M
  PROVE  Encode(fs, vs) \in Seq(Byte) /\ Len(Encode(fs, vs)) <= Len(fs) * M
<1> DEFINE n == Len(fs)
<1>1. n \in Nat
  BY DEF Fit
<1>2. PICK o : Offsets(o, fs, vs)
  BY OffsetsExist
<1>3. /\ o[0] = 0 /\ \A i \in 0 .. n : o[i] \in Nat
      /\ \A i \in 1 .. n : o[i] = o[i - 1] + Len(Write(fs[i], vs[i]))
  BY <1>2 DEF Offsets
<1> DEFINE T == {i \in 0 .. n : o[i] <= i * M}
<1> HIDE DEF n
<1>4. 0 \in T
  BY <1>1, <1>3
<1>5. ASSUME NEW i \in 1 .. n, i - 1 \in T
      PROVE  i \in T
  <2> DEFINE m == Len(Write(fs[i], vs[i]))
  <2>1. o[i] = o[i - 1] + m /\ m <= M
    BY <1>3 DEF n
  <2>2. o[i - 1] <= (i - 1) * M /\ o[i - 1] \in Nat /\ i \in Nat /\ o[i] \in Nat
    BY <1>1, <1>3, <1>5
  <2>3. m \in Nat
    <3>1. fs[i] \in Field /\ Fits(fs[i], vs[i])
      BY DEF Fit, n
    <3> QED
      BY <3>1, WriteIs
  <2>4. i * M = (i - 1) * M + M /\ (i - 1) * M \in Nat
    BY <2>2
  <2> HIDE DEF m
  <2>5. o[i] <= i * M
    BY <2>1, <2>2, <2>3, <2>4
  <2> QED
    BY <2>5
<1>6. n \in T
  <2> HIDE DEF T
  <2>1. \A i \in 0 .. n : i \in T
    BY <1>1, <1>4, <1>5, Climb
  <2> QED
    BY <1>1, <2>1
<1> QED
  BY <1>2, <1>6, OffsetsExist DEF Offsets, n

\* d is w or the head of it.
Heads(d, w) ==
  /\ d \in Seq(Byte) /\ w \in Seq(Byte) /\ Len(d) <= Len(w)
  /\ \A j \in 1 .. Len(d) : d[j] = w[j]

LEMMA HeadAgrees ==
  ASSUME NEW d, NEW w, Heads(d, w), NEW at \in Nat, NEW s \in Seq(Byte), Agrees(w, at, s)
  PROVE  Agrees(d, at, s)
<1> SUFFICES ASSUME NEW j \in 1 .. Len(s), at + j <= Len(d)
             PROVE  d[at + j] = s[j]
  BY DEF Agrees
<1>1. Len(d) \in Nat /\ Len(w) \in Nat /\ Len(d) <= Len(w)
  BY DEF Heads
<1>2. at + j \in 1 .. Len(d) /\ at + j <= Len(w)
  BY <1>1
<1> QED
  BY <1>2 DEF Heads, Agrees

LEMMA ConcatAgrees ==
  ASSUME NEW s \in Seq(Byte), NEW t \in Seq(Byte)
  PROVE  Agrees(s \o t, 0, s) /\ Agrees(s \o t, Len(s), t) /\ s \o t \in Seq(Byte)
         /\ Len(s \o t) = Len(s) + Len(t)
<1>1. /\ s \o t \in Seq(Byte) /\ Len(s \o t) = Len(s) + Len(t) /\ Len(s) \in Nat /\ Len(t) \in Nat
      /\ \A j \in 1 .. Len(s) + Len(t) : (s \o t)[j] = IF j <= Len(s) THEN s[j] ELSE t[j - Len(s)]
  BY ConcatProperties
<1> DEFINE u == s \o t
           l == Len(s)
           m == Len(t)
<1>2. u \in Seq(Byte) /\ Len(u) = l + m /\ l \in Nat /\ m \in Nat
  BY <1>1
<1>3. \A j \in 1 .. l + m : u[j] = IF j <= l THEN s[j] ELSE t[j - l]
  BY <1>1
<1> HIDE DEF u, l, m
<1>4. \A j \in 1 .. l : u[0 + j] = s[j]
  BY <1>2, <1>3
<1>5. ASSUME NEW j \in 1 .. m
      PROVE  u[l + j] = t[j]
  <2>1. l + j \in 1 .. l + m /\ ~(l + j <= l) /\ (l + j) - l = j
    BY <1>2
  <2> QED
    BY <1>3, <2>1
<1> QED
  BY <1>1, <1>4, <1>5 DEF Agrees, u, l, m

\* The first l bytes of w are s, and the others t.
Joins(w, s, t, l) ==
  /\ w \in Seq(Byte) /\ Len(w) = l + Len(t) /\ Len(t) \in Nat
  /\ \A j \in 1 .. l : w[j] = s[j]
  /\ t # <<>> => Len(t) >= 1 /\ w[l + 1] = t[1]

\* The bytes of two strings behind one another, one by one.
LEMMA ConcatIs ==
  ASSUME NEW s \in Seq(Byte), NEW t \in Seq(Byte), NEW l \in Nat, Len(s) = l
  PROVE  /\ s \o t \in Seq(Byte) /\ Len(s \o t) = l + Len(t) /\ Len(t) \in Nat
         /\ \A j \in 1 .. l : (s \o t)[j] = s[j]
         /\ t # <<>> => Len(t) >= 1 /\ (s \o t)[l + 1] = t[1]
<1>1. /\ s \o t \in Seq(Byte) /\ Len(s \o t) = l + Len(t) /\ Len(t) \in Nat
      /\ \A j \in 1 .. l + Len(t) : (s \o t)[j] = IF j <= l THEN s[j] ELSE t[j - l]
  <2> DEFINE w == s \o t
  <2>1. /\ w \in Seq(Byte) /\ Len(w) = Len(s) + Len(t)
        /\ \A j \in 1 .. Len(s) + Len(t) : w[j] = IF j <= Len(s) THEN s[j] ELSE t[j - Len(s)]
    BY ConcatProperties, Zenon
  <2>2. Len(t) \in Nat
    BY LenProperties, Zenon
  <2> HIDE DEF w
  <2>3. /\ w \in Seq(Byte) /\ Len(w) = l + Len(t) /\ Len(t) \in Nat
        /\ \A j \in 1 .. l + Len(t) : w[j] = IF j <= l THEN s[j] ELSE t[j - l]
    BY <2>1, <2>2, Zenon
  <2> QED
    BY <2>3 DEF w
<1>2. ASSUME t # <<>>
      PROVE  Len(t) >= 1 /\ (s \o t)[l + 1] = t[1]
  <2>1. Len(t) >= 1
    BY <1>2
  <2>2. l + 1 \in 1 .. l + Len(t) /\ ~(l + 1 <= l) /\ (l + 1) - l = 1
    BY <1>1, <2>1
  <2> QED
    BY <1>1, <2>1, <2>2
<1> QED
  BY <1>1, <1>2

LEMMA ConcatJoins ==
  ASSUME NEW s \in Seq(Byte), NEW t \in Seq(Byte), NEW l \in Nat, Len(s) = l, NEW w, w = s \o t
  PROVE  Joins(w, s, t, l)
<1>1. /\ s \o t \in Seq(Byte) /\ Len(s \o t) = l + Len(t) /\ Len(t) \in Nat
      /\ \A j \in 1 .. l : (s \o t)[j] = s[j]
      /\ t # <<>> => Len(t) >= 1 /\ (s \o t)[l + 1] = t[1]
  BY ConcatIs
<1>2. /\ w \in Seq(Byte) /\ Len(w) = l + Len(t) /\ Len(t) \in Nat
      /\ \A j \in 1 .. l : w[j] = s[j]
      /\ t # <<>> => Len(t) >= 1 /\ w[l + 1] = t[1]
  BY <1>1, Zenon
<1> QED
  BY <1>2, Zenon DEF Joins

LEMMA Whole ==
  ASSUME NEW w \in Seq(Byte)
  PROVE  Heads(w, w) /\ Agrees(w, 0, w)
BY DEF Heads, Agrees

-----------------------------------------------------------------------------
(* Messages of several encodings.                                            *)

\* What the first parts give does not depend on the others.
LEMMA PartsOnly ==
  ASSUME NEW p \in Seq(Seq(Byte)), NEW q \in Seq(Seq(Byte)), NEW g, NEW h, Parts(h, p), Parts(g, q),
         Len(p) <= Len(q), \A i \in 1 .. Len(p) : q[i] = p[i]
  PROVE  g[Len(p)] = h[Len(p)]
<1> DEFINE n == Len(p)
           T == {i \in 0 .. n : g[i] = h[i]}
<1>1. n \in Nat /\ Len(q) \in Nat
  OBVIOUS
<1>2. /\ g[0] = <<>> /\ h[0] = <<>>
      /\ \A i \in 1 .. n : h[i] = h[i - 1] \o p[i]
      /\ \A i \in 1 .. Len(q) : g[i] = g[i - 1] \o q[i]
  BY DEF Parts
<1>3. \A i \in 1 .. n : i \in 1 .. Len(q) /\ q[i] = p[i]
  BY <1>1
<1> HIDE DEF n
<1>4. 0 \in T
  BY <1>1, <1>2
<1>5. ASSUME NEW i \in 1 .. n, i - 1 \in T
      PROVE  i \in T
  <2>1. g[i - 1] = h[i - 1] /\ i \in 0 .. n
    BY <1>1, <1>5
  <2>2. h[i] = h[i - 1] \o p[i]
    BY <1>2
  <2>3. g[i] = g[i - 1] \o q[i] /\ q[i] = p[i]
    BY <1>2, <1>3
  <2> QED
    BY <2>1, <2>2, <2>3
<1>6. n \in T
  <2> HIDE DEF T
  <2>1. \A i \in 0 .. n : i \in T
    BY <1>1, <1>4, <1>5, Climb
  <2> QED
    BY <1>1, <2>1
<1> QED
  BY <1>6 DEF n

\* One part more.
LEMMA FlattenMore ==
  ASSUME NEW p \in Seq(Seq(Byte)), NEW q \in Seq(Seq(Byte)), NEW n \in Nat,
         Len(p) = n, Len(q) = n + 1, \A i \in 1 .. n : q[i] = p[i]
  PROVE  /\ FlattenSeq(q) = FlattenSeq(p) \o q[n + 1]
         /\ FlattenSeq(p) \in Seq(Byte) /\ FlattenSeq(q) \in Seq(Byte)
<1>2. PICK h : Parts(h, p) /\ FlattenSeq(p) = h[n]
  BY FlattenParts
<1>3. PICK g : Parts(g, q) /\ FlattenSeq(q) = g[n + 1]
  BY FlattenParts
<1>4. g[n] = h[n]
  <2>1. Len(p) <= Len(q)
    OBVIOUS
  <2> QED
    BY <1>2, <1>3, <2>1, PartsOnly
<1>5. g[n + 1] = g[n] \o q[n + 1]
  <2>1. n + 1 \in 1 .. Len(q) /\ (n + 1) - 1 = n
    OBVIOUS
  <2>2. g[n + 1] = g[(n + 1) - 1] \o q[n + 1]
    BY <1>3, <2>1 DEF Parts
  <2> QED
    BY <2>1, <2>2
<1>6. h[n] \in Seq(Byte) /\ g[n + 1] \in Seq(Byte)
  BY <1>2, <1>3 DEF Parts
<1> QED
  BY <1>2, <1>3, <1>4, <1>5, <1>6

LEMMA FlattenEmpty == FlattenSeq(<<>>) = <<>>
BY DEF FlattenSeq

LEMMA FlattenOne ==
  ASSUME NEW x \in Seq(Byte)
  PROVE  FlattenSeq(<<x>>) = x
<1> DEFINE p == <<>>
           q == <<x>>
<1>1. /\ p \in Seq(Seq(Byte)) /\ q \in Seq(Seq(Byte)) /\ Len(p) = 0 /\ Len(q) = 0 + 1
      /\ q[0 + 1] = x /\ 0 \in Nat /\ \A i \in 1 .. 0 : q[i] = p[i]
  OBVIOUS
<1> HIDE DEF p, q
<1>2. FlattenSeq(q) = FlattenSeq(p) \o q[0 + 1]
  BY <1>1, FlattenMore
<1>3. FlattenSeq(p) = <<>>
  BY FlattenEmpty DEF p
<1>4. FlattenSeq(q) = <<>> \o x
  BY <1>1, <1>2, <1>3
<1>5. <<>> \o x = x
  BY ConcatEmptySeq
<1> QED
  BY <1>4, <1>5 DEF q

LEMMA FlattenTwo ==
  ASSUME NEW x \in Seq(Byte), NEW y \in Seq(Byte)
  PROVE  FlattenSeq(<<x, y>>) = x \o y
<1> DEFINE p == <<x>>
           q == <<x, y>>
<1>1. /\ p \in Seq(Seq(Byte)) /\ q \in Seq(Seq(Byte)) /\ Len(p) = 1 /\ Len(q) = 1 + 1
      /\ q[1 + 1] = y /\ 1 \in Nat /\ \A i \in 1 .. 1 : q[i] = p[i]
  OBVIOUS
<1> HIDE DEF p, q
<1>2. FlattenSeq(q) = FlattenSeq(p) \o q[1 + 1]
  BY <1>1, FlattenMore
<1>3. FlattenSeq(p) = x
  BY FlattenOne DEF p
<1> QED
  BY <1>1, <1>2, <1>3 DEF q

\* One field more.
Longer(fs, vs, gs, us, n, f, v) ==
  /\ Len(fs) = n /\ Len(gs) = n + 1 /\ \A i \in 1 .. n : gs[i] = fs[i] /\ us[i] = vs[i]
  /\ gs[n + 1] = f /\ us[n + 1] = v

LEMMA EncodeMore ==
  ASSUME NEW fs, NEW vs, Fit(fs, vs), NEW gs, NEW us, Fit(gs, us), NEW n \in Nat,
         NEW f, NEW v, Longer(fs, vs, gs, us, n, f, v)
  PROVE  /\ Encode(gs, us) = Encode(fs, vs) \o Write(f, v)
         /\ Encode(fs, vs) \in Seq(Byte) /\ Write(f, v) \in Seq(Byte)
<1> USE DEF Longer
<1> DEFINE p == Written(fs, vs)
           q == Written(gs, us)
           x == Write(f, v)
<1>1. DOMAIN fs = 1 .. n /\ DOMAIN gs = 1 .. n + 1 /\ n + 1 \in 1 .. n + 1
  BY DEF Fit
<1>2. p \in Seq(Seq(Byte)) /\ Len(p) = n /\ q \in Seq(Seq(Byte)) /\ Len(q) = n + 1
  BY EncodeIs
<1>3. ASSUME NEW i \in 1 .. n
      PROVE  q[i] = p[i]
  <2>1. i \in 1 .. n + 1
    OBVIOUS
  <2> QED
    BY <1>1, <2>1 DEF Written
<1>4. q[n + 1] = x
  BY <1>1 DEF Written
<1>5. Encode(fs, vs) = FlattenSeq(p) /\ Encode(gs, us) = FlattenSeq(q)
  BY DEF Encode, Written
<1>6. x \in Seq(Byte)
  <2>1. gs[n + 1] \in Field /\ Fits(gs[n + 1], us[n + 1])
    BY <1>1 DEF Fit
  <2> QED
    BY <2>1, WriteIs
<1> HIDE DEF p, q, x
<1>7. FlattenSeq(q) = FlattenSeq(p) \o q[n + 1] /\ FlattenSeq(p) \in Seq(Byte)
  BY <1>2, <1>3, FlattenMore
<1> QED
  BY <1>4, <1>5, <1>6, <1>7 DEF x

LEMMA EncodeOne ==
  ASSUME NEW f \in Field, NEW v \in Value, Fits(f, v)
  PROVE  Fit(<<f>>, <<v>>) /\ Encode(<<f>>, <<v>>) = Write(f, v) /\ Write(f, v) \in Seq(Byte)
<1>1. Fit(<<f>>, <<v>>)
  BY DEF Fit
<1>2. Encode(<<f>>, <<v>>) = FlattenSeq(<<Write(f, v)>>)
  <2>1. [i \in DOMAIN <<f>> |-> Write(<<f>>[i], <<v>>[i])] = <<Write(f, v)>>
    OBVIOUS
  <2> QED
    BY <2>1 DEF Encode
<1>3. Write(f, v) \in Seq(Byte)
  BY WriteIs
<1> QED
  BY <1>1, <1>2, <1>3, FlattenOne

-----------------------------------------------------------------------------
(* What the fields of the messages hold.                                     *)

\* A string of less than m bytes.
Text(s, m) == s \in Seq(Byte) /\ Len(s) < m

LEMMA TextFits ==
  ASSUME NEW s
  PROVE  /\ Text(s, Short) => Fits("s2", s) /\ Text(s, Long)
         /\ Text(s, Long) => Fits("s4", s) /\ s \in Value /\ Len(s) \in Nat /\ Fits("4", Len(s))
<1>1. ASSUME Text(s, Short)
      PROVE  Fits("s2", s) /\ Text(s, Long)
  <2>1. s \in Seq(Byte) /\ Len(s) < Short /\ Len(s) \in Nat
    BY <1>1 DEF Text
  <2>2. Len(s) < Long
    BY <2>1, Sizes
  <2> QED
    BY <2>1, <2>2, Widths DEF Text, Fits, Strings
<1>2. ASSUME Text(s, Long)
      PROVE  Fits("s4", s) /\ s \in Value /\ Len(s) \in Nat /\ Fits("4", Len(s))
  <2>1. s \in Seq(Byte) /\ Len(s) < Long /\ Len(s) \in Nat
    BY <1>2 DEF Text
  <2>2. Byte \subseteq Nat
    BY Sizes DEF Byte
  <2>3. s \in Seq(Nat)
    BY <2>1, <2>2, SeqMonotonic
  <2>4. Fits("s4", s) /\ Fits("4", Len(s))
    BY <2>1, Widths DEF Fits, Strings
  <2> QED
    BY <2>1, <2>3, <2>4 DEF Value
<1> QED
  BY <1>1, <1>2

LEMMA StringIs ==
  ASSUME NEW s \in Countable
  PROVE  Text(s, Short) /\ s \in Seq(1 .. Base - 1)
<1>1. s \in Seq(1 .. Base - 1) /\ Len(s) < Short
  BY StringAssumption DEF Countable
<1>2. 1 .. Base - 1 \subseteq Byte
  BY Sizes DEF Byte
<1>3. s \in Seq(Byte)
  BY <1>1, <1>2, SeqMonotonic
<1> QED
  BY <1>1, <1>3 DEF Text

LEMMA ModSmall ==
  ASSUME NEW n \in Nat, NEW b \in Nat \ {0}, n < b
  PROVE  n % b = n
<1> DEFINE q == n \div b
           r == n % b
<1>1. q \in Nat /\ r \in Nat /\ n = b * q + r
  BY DivIs
<1> HIDE DEF q, r
<1>2. q = 0
  <2> SUFFICES ASSUME q >= 1 PROVE FALSE
    BY <1>1
  <2>1. b * q >= b
    BY <1>1
  <2> QED
    BY <1>1, <2>1
<1>3. b * q = 0
  BY <1>2
<1> QED
  BY <1>1, <1>3 DEF r

\* What is copied of a string.
LEMMA CutIs ==
  ASSUME NEW s, s \in Seq(Byte)
  PROVE  Text(Cut(s), Short) /\ (Text(s, Short) => Cut(s) = s)
<1> DEFINE n == Len(s) % Short
<1>1. Len(s) \in Nat /\ Short \in Nat \ {0}
  BY Sizes
<1>2. n \in Nat /\ n < Short /\ n <= Len(s)
  <2>1. n \in 0 .. Short - 1
    BY <1>1, DivIs
  <2>2. CASE Len(s) < Short
    BY <1>1, <2>1, <2>2, ModSmall
  <2>3. CASE Len(s) >= Short
    <3> HIDE DEF n
    <3> QED
      BY <1>1, <2>1, <2>3
  <2> QED
    BY <1>1, <2>1, <2>2, <2>3
<1>3. Cut(s) = SubSeq(s, 1, n)
  BY DEF Cut
<1> HIDE DEF n
<1>4. \A i \in 1 .. n : s[i] \in Byte
  BY <1>1, <1>2
<1>5. SubSeq(s, 1, n) \in Seq(Byte) /\ Len(SubSeq(s, 1, n)) = n
  <2>1. 1 \in Int /\ n \in Int /\ (1 <= n => n - 1 + 1 = n) /\ (~(1 <= n) => n = 0)
    BY <1>2
  <2> QED
    BY <1>4, <2>1, SubSeqProperties
<1>6. Text(s, Short) => n = Len(s)
  BY <1>1, ModSmall DEF Text, n
<1>7. SubSeq(s, 1, Len(s)) = s
  BY SubSeqFull
<1> QED
  BY <1>2, <1>3, <1>5, <1>6, <1>7 DEF Text

LEMMA AnyStringIs ==
  ASSUME NEW s \in String
  PROVE  Text(Cut(s), Short) /\ (s \in Countable => Cut(s) = s)
<1>1. s \in Seq(1 .. Base - 1)
  BY StringAssumption
<1>2. 1 .. Base - 1 \subseteq Byte
  BY Sizes DEF Byte
<1>3. s \in Seq(Byte)
  BY <1>1, <1>2, SeqMonotonic
<1>4. s \in Countable => Text(s, Short)
  BY StringIs
<1> QED
  BY <1>3, <1>4, CutIs

LEMMA CountableIs ==
  ASSUME NEW s \in Countable
  PROVE  Cut(s) = s
BY AnyStringIs DEF Countable

LEMMA PayloadIs ==
  ASSUME NEW s \in Payload
  PROVE  Text(s, Long)
<1>1. s \in Seq(1 .. Base - 1) /\ Len(s) < Long
  BY PayloadAssumption
<1>2. 1 .. Base - 1 \subseteq Byte
  BY Sizes DEF Byte
<1>3. s \in Seq(Byte)
  BY <1>1, <1>2, SeqMonotonic
<1> QED
  BY <1>1, <1>3 DEF Text

LEMMA EmptyCut == Cut(<<>>) = <<>>
BY SubSeqEmpty DEF Cut

LEMMA EmptyText == Text(<<>>, Short)
BY Sizes DEF Text

LEMMA NumberFits ==
  ASSUME NEW n \in Nat
  PROVE  /\ n < Base => Fits("1", n)
         /\ n < Short => Fits("2", n)
         /\ n < Long => Fits("4", n) /\ Fits("8", n)
         /\ n <= Base => n < Short /\ n < Long
         /\ n \in Value
<1>1. n <= Base => n < Short /\ n < Long
  BY Sizes
<1> QED
  BY <1>1, Widths DEF Fits, Strings, Value

LEMMA SeqFits ==
  ASSUME NEW seq \in Seqs
  PROVE  seq \in Nat /\ seq < Long /\ Fits("4", seq) /\ seq \in Value
<1>1. seq \in Nat /\ seq < Long
  BY SeqsAssumption, Sizes
<1> QED
  BY <1>1, NumberFits

\* Fields without a long string.
LEMMA PayloadReads ==
  ASSUME NEW fs, NEW vs, Fit(fs, vs), Len(fs) <= 4, \A i \in 1 .. Len(fs) : fs[i] # "s4"
  PROVE  Text(Encode(fs, vs), Long) /\ Read(fs, Encode(fs, vs)) = vs
<1> DEFINE M == Short + 8
<1>1. M \in Nat
  BY Sizes
<1>2. ASSUME NEW i \in 1 .. Len(fs)
      PROVE  Len(Write(fs[i], vs[i])) <= M
  <2>1. fs[i] \in Field /\ Fits(fs[i], vs[i]) /\ fs[i] # "s4"
    BY DEF Fit
  <2>2. CASE fs[i] \in Strings
    <3>1. fs[i] = "s2"
      BY <2>1, <2>2 DEF Strings
    <3>2. Len(vs[i]) < Short /\ Len(vs[i]) \in Nat
      BY <2>1, <3>1, Widths DEF Fits, Strings
    <3>3. Len(Write(fs[i], vs[i])) = 2 + Len(vs[i])
      BY <2>1, <2>2, <3>1, WriteIs, Widths
    <3> QED
      BY <3>2, <3>3, Sizes
  <2>3. CASE fs[i] \notin Strings
    <3>1. Len(Write(fs[i], vs[i])) = Width(fs[i]) /\ Width(fs[i]) \in {1, 2, 4, 8}
      BY <2>1, <2>3, WriteIs, Widths
    <3> QED
      BY <3>1, Sizes
  <2> QED
    BY <2>2, <2>3
<1> DEFINE w == Encode(fs, vs)
           n == Len(fs)
<1>3. w \in Seq(Byte) /\ Len(w) <= n * M /\ n \in Nat /\ n <= 4 /\ Len(w) \in Nat
  <2>1. n \in Nat
    BY DEF Fit
  <2>2. w \in Seq(Byte) /\ Len(w) <= n * M
    <3> HIDE DEF M
    <3> QED
      BY <1>1, <1>2, EncodeLen
  <2>3. Len(w) \in Nat
    BY <2>2
  <2> QED
    BY <2>1, <2>2, <2>3
<1>4. n * M <= 4 * M
  <2> HIDE DEF n
  <2>1. n \in {0, 1, 2, 3, 4}
    BY <1>3
  <2> QED
    BY <1>1, <2>1
<1>5. 4 * M < Long
  BY Sizes
<1>6. Text(w, Long)
  <2>1. n * M \in Nat
    BY <1>1, <1>3
  <2> HIDE DEF n, M, w
  <2>2. Len(w) < Long
    BY <1>1, <1>3, <1>4, <1>5, <2>1, Sizes
  <2> QED
    BY <1>3, <2>2 DEF Text
<1>7. Agrees(w, 0, w)
  BY <1>3, Whole
<1>8. Read(fs, w) = vs
  <2>1. Len(w) <= Len(w)
    BY <1>3
  <2> QED
    BY <1>3, <1>7, <2>1, ReadsBack
<1> QED
  BY <1>6, <1>8

-----------------------------------------------------------------------------
(* Requests.                                                                 *)

RequestFields == <<"1", "4", "1", "s2", "s4">>

LEMMA CommandNumbers ==
  /\ Command.set = 1 /\ Command.range = 2 /\ Command.prefix = 3 /\ Command.subscribe = 4
  /\ Command.publish = 5 /\ Command.history = 6 /\ Command.presence = 7 /\ Command.watch = 8
  /\ Command.batch = 9
BY DEF Command

LEMMA PayloadOf ==
  ASSUME NEW v
  PROVE  /\ decodePayload(Command.set, v) = <<v>>
         /\ decodePayload(Command.range, v) = Read(<<"s2", "s2", "4", "s2">>, v)
         /\ decodePayload(Command.prefix, v) = Read(<<"s2", "4", "s2">>, v)
         /\ decodePayload(Command.subscribe, v) = Read(<<"1", "s2", "s2">>, v)
         /\ decodePayload(Command.publish, v) = Read(<<"s2", "1", "s4", "s4">>, v)
         /\ decodePayload(Command.history, v) = Read(<<"s2", "4", "8">>, v)
         /\ decodePayload(Command.presence, v) = Read(<<"1">>, v)
         /\ decodePayload(Command.watch, v) = Read(<<"s2", "s2", "1">>, v)
BY CommandNumbers DEF decodePayload

LEMMA RequestFits ==
  ASSUME NEW cmd \in 1 .. 9, NEW seq \in Seqs, NEW key, Text(key, Short),
         NEW value, Text(value, Long)
  PROVE  /\ Fits("1", cmd) /\ Fits("4", seq) /\ Fits("1", 0) /\ Fits("s2", key) /\ Fits("s4", value)
         /\ Fit(RequestFields, <<cmd, seq, 0, key, value>>)
<1> DEFINE vs == <<cmd, seq, 0, key, value>>
<1>2. /\ Fits("1", cmd) /\ Fits("4", seq) /\ Fits("1", 0) /\ Fits("s2", key) /\ Fits("s4", value)
      /\ cmd \in Value /\ seq \in Value /\ 0 \in Value /\ key \in Value /\ value \in Value
  <2>1. cmd \in Nat /\ cmd < Base /\ 0 \in Nat /\ 0 < Base
    BY Sizes
  <2> QED
    BY <2>1, NumberFits, SeqFits, TextFits
<1>3. Fit(RequestFields, vs)
  <2>1. RequestFields \in Seq(Field) /\ Len(RequestFields) = 5
    BY DEF RequestFields, Field
  <2>2. vs \in Seq(Value) /\ Len(vs) = 5
    BY <1>2
  <2>3. ASSUME NEW i \in 1 .. 5
        PROVE  Fits(RequestFields[i], vs[i])
    <3>1. i = 1 \/ i = 2 \/ i = 3 \/ i = 4 \/ i = 5
      OBVIOUS
    <3> QED
      BY <1>2, <3>1 DEF RequestFields
  <2> QED
    BY <2>1, <2>2, <2>3 DEF Fit
<1> QED
  BY <1>2, <1>3

LEMMA CommandIn ==
  ASSUME NEW cmd \in 1 .. 9
  PROVE  cmd \in Commands
<1>1. DOMAIN Command = {"set", "range", "prefix", "subscribe", "publish", "history", "presence",
                        "watch", "batch"}
  BY DEF Command
<1>2. cmd \in {1, 2, 3, 4, 5, 6, 7, 8, 9}
  OBVIOUS
<1> QED
  BY <1>1, <1>2, CommandNumbers DEF Commands

LEMMA RequestRefused ==
  ASSUME NEW d, ~(Len(d) < 12) => Read(RequestFields, d) = Refused
  PROVE  decodeRequest(d) = Refused
BY DEF decodeRequest, RequestFields

\* The server reads the head of a request as far as it is there.
LEMMA RequestReads ==
  ASSUME NEW cmd \in 1 .. 9, NEW seq \in Seqs, NEW key, Text(key, Short),
         NEW value, Text(value, Long), NEW d, Heads(d, encode_request(cmd, seq, key, value))
  PROVE  decodeRequest(d) = IF Len(d) < Len(encode_request(cmd, seq, key, value)) THEN Refused
                            ELSE <<cmd, seq, 0, key, value>>
<1> DEFINE vs == <<cmd, seq, 0, key, value>>
           w == encode_request(cmd, seq, key, value)
<1>1. w = Encode(RequestFields, vs)
  <2>1. Cut(key) = key
    BY CutIs DEF Text
  <2> QED
    BY <2>1 DEF encode_request, RequestFields
<1>2. Fits("1", cmd) /\ Fits("4", seq) /\ Fits("1", 0) /\ Fits("s2", key) /\ Fits("s4", value)
  BY RequestFits
<1>3. Fit(RequestFields, vs)
  BY RequestFits
<1>4. PICK o : Offsets(o, RequestFields, vs)
  BY <1>3, OffsetsExist
<1>5. Len(w) >= 12
  <2> DEFINE L(i) == Len(Write(RequestFields[i], vs[i]))
  <2>1. Len(RequestFields) = 5
    BY DEF RequestFields
  <2>2. /\ o[0] = 0 /\ o[1] = o[0] + L(1) /\ o[2] = o[1] + L(2) /\ o[3] = o[2] + L(3)
        /\ o[4] = o[3] + L(4) /\ o[5] = o[4] + L(5) /\ o[5] = Len(w)
    BY <1>1, <1>4, <2>1 DEF Offsets
  <2>3. L(1) = 1 /\ L(2) = 4 /\ L(3) = 1
    BY <1>2, WriteIs, Widths DEF RequestFields, Strings, Field
  <2>4. L(4) = 2 + Len(key) /\ L(5) = 4 + Len(value)
    BY <1>2, WriteIs, Widths DEF RequestFields, Strings, Field
  <2>5. Len(key) \in Nat /\ Len(value) \in Nat
    BY DEF Text
  <2> HIDE DEF L, w
  <2> QED
    BY <2>2, <2>3, <2>4, <2>5
<1> HIDE DEF vs
<1>6. w \in Seq(Byte) /\ Len(w) \in Nat /\ Len(d) \in Nat /\ Len(d) <= Len(w) /\ d \in Seq(Byte)
  BY DEF Heads
<1>7. Agrees(d, 0, w)
  BY <1>6, Whole, HeadAgrees
<1>8. Read(RequestFields, d) = IF Len(w) <= Len(d) THEN vs ELSE Refused
  BY <1>1, <1>3, <1>6, <1>7, ReadsBack
<1> HIDE DEF w
<1>9. decodeRequest(d) = IF Len(d) < Len(w) THEN Refused ELSE vs
  <2>1. Len(d) < Len(w) <=> ~(Len(w) <= Len(d))
    BY <1>6
  <2>2. Len(d) < 12 => Len(d) < Len(w)
    BY <1>5, <1>6
  <2>3. vs[1] \in Commands /\ vs[3] % 2 = 0
    BY CommandIn DEF vs
  <2>4. CASE Len(d) < Len(w)
    BY <1>8, <2>1, <2>4, RequestRefused
  <2>5. CASE ~(Len(d) < Len(w))
    BY <1>8, <2>1, <2>2, <2>3, <2>5 DEF decodeRequest, RequestFields
  <2> QED
    BY <2>4, <2>5
<1> QED
  BY <1>9 DEF w, vs

\* The requests that Ask sends: command, key, value of the request and fields of the value.
Requested(cmd, key, fields, value) ==
  /\ cmd \in 1 .. 9 /\ Text(key, Short) /\ Text(value, Long)
  /\ decodePayload(cmd, value) = fields /\ fields # Refused

Request(m, w) ==
  \E seq \in Seqs : \E cmd, key, fields, value :
    /\ Requested(cmd, key, fields, value) /\ m = <<cmd, key, fields>>
    /\ w = encode_request(cmd, seq, key, value)

LEMMA RequestArrives ==
  ASSUME NEW m, NEW w, Request(m, w), NEW d, Heads(d, w)
  PROVE  Understood(d) = IF Len(d) < Len(w) THEN Refused ELSE m
<1>1. PICK seq \in Seqs : \E cmd, key, fields, value :
         /\ Requested(cmd, key, fields, value) /\ m = <<cmd, key, fields>>
         /\ w = encode_request(cmd, seq, key, value)
  BY DEF Request
<1>2. PICK cmd, key, fields, value :
         /\ Requested(cmd, key, fields, value) /\ m = <<cmd, key, fields>>
         /\ w = encode_request(cmd, seq, key, value)
  BY <1>1
<1> DEFINE r == <<cmd, seq, 0, key, value>>
<1>3. decodeRequest(d) = IF Len(d) < Len(w) THEN Refused ELSE r
  BY <1>2, RequestReads DEF Requested
<1>4. r # Refused /\ r[1] = cmd /\ r[4] = key /\ r[5] = value /\ Len(r) = 5
  <2>1. r \in Seq(Value)
    <3>1. cmd \in Value /\ seq \in Value /\ 0 \in Value /\ key \in Value /\ value \in Value
      BY <1>2, SeqFits, TextFits DEF Requested, Value
    <3> QED
      BY <3>1
  <2>2. r # Refused
    <3> HIDE DEF r
    <3> QED
      BY <2>1, RefusedAssumption DEF Value
  <2> QED
    BY <2>2
<1> HIDE DEF r
<1>5. Understood(d) = IF decodeRequest(d) = Refused THEN Refused
                      ELSE IF decodePayload(decodeRequest(d)[1], decodeRequest(d)[5]) = Refused THEN Refused
                      ELSE <<decodeRequest(d)[1], decodeRequest(d)[4],
                             decodePayload(decodeRequest(d)[1], decodeRequest(d)[5])>>
                           \o SubSeq(decodeRequest(d), 6, Len(decodeRequest(d)))
  BY DEF Understood
<1>6. decodePayload(cmd, value) = fields /\ fields # Refused
  BY <1>2 DEF Requested
<1>7. <<cmd, key, fields>> \o SubSeq(r, 6, Len(r)) = <<cmd, key, fields>>
  <2>1. SubSeq(r, 6, Len(r)) = <<>>
    BY <1>4, SubSeqEmpty
  <2> DEFINE T == {cmd, key, fields}
  <2>2. <<cmd, key, fields>> \in Seq(T)
    OBVIOUS
  <2> QED
    BY <2>1, <2>2, ConcatEmptySeq
<1> QED
  BY <1>2, <1>3, <1>4, <1>5, <1>6, <1>7

\* A value put together from up to four fields without a long string.
LEMMA RequestedFields ==
  ASSUME NEW cmd \in 1 .. 9, NEW fs, NEW vs, Fit(fs, vs), Len(fs) <= 4,
         \A i \in 1 .. Len(fs) : fs[i] # "s4",
         decodePayload(cmd, Encode(fs, vs)) = Read(fs, Encode(fs, vs))
  PROVE  \A key : Text(key, Short) => Requested(cmd, key, vs, Encode(fs, vs))
<1>1. Text(Encode(fs, vs), Long) /\ Read(fs, Encode(fs, vs)) = vs
  BY PayloadReads
<1>2. vs # Refused
  <2>1. vs \in Seq(Value)
    BY DEF Fit
  <2> QED
    BY <2>1, RefusedAssumption DEF Value
<1> QED
  BY <1>1, <1>2 DEF Requested

LEMMA FitTwo ==
  ASSUME NEW f \in Field, NEW g \in Field, NEW u \in Value, NEW v \in Value, Fits(f, u), Fits(g, v)
  PROVE  Fit(<<f, g>>, <<u, v>>)
BY DEF Fit

LEMMA FitThree ==
  ASSUME NEW f \in Field, NEW g \in Field, NEW h \in Field,
         NEW u \in Value, NEW v \in Value, NEW x \in Value, Fits(f, u), Fits(g, v), Fits(h, x)
  PROVE  Fit(<<f, g, h>>, <<u, v, x>>)
BY DEF Fit

LEMMA FitFour ==
  ASSUME NEW f \in Field, NEW g \in Field, NEW h \in Field, NEW k \in Field,
         NEW u \in Value, NEW v \in Value, NEW x \in Value, NEW y \in Value,
         Fits(f, u), Fits(g, v), Fits(h, x), Fits(k, y)
  PROVE  Fit(<<f, g, h, k>>, <<u, v, x, y>>)
BY DEF Fit

LEMMA SetRequest ==
  ASSUME NEW key, Text(key, Short), NEW b \in Countable
  PROVE  Requested(Command.set, key, <<b>>, b)
<1>1. b \in Value /\ Text(b, Long)
  BY StringIs, TextFits
<1>2. <<b>> # Refused
  <2>1. <<b>> \in Seq(Value)
    BY <1>1
  <2> QED
    BY <2>1, RefusedAssumption DEF Value
<1> QED
  BY <1>1, <1>2, CommandNumbers, PayloadOf DEF Requested

LEMMA AskRequests ==
  ASSUME NEW a \in Countable, NEW b \in Countable, NEW c \in Countable, NEW limit \in {0, Base}
  PROVE  /\ Requested(Command.set, a, <<b>>, b)
         /\ Requested(Command.range, <<>>, <<a, b, limit, c>>, encode_range_request(a, b, limit, c))
         /\ Requested(Command.prefix, <<>>, <<a, limit, c>>, encode_prefix_request(a, limit, c))
         /\ Requested(Command.subscribe, <<>>, <<0, a, <<>>>>, subscribe_payload(a))
         /\ Requested(Command.history, <<>>, <<a, limit, limit>>,
                      encode_history_request(a, limit, limit))
         /\ Requested(Command.presence, a, <<0>>, encode_presence_request(0))
         /\ Requested(Command.watch, <<>>, <<a, b, 0>>, watch_payload(a, b))
<1>0. Cut(a) = a /\ Cut(b) = b /\ Cut(c) = c
  BY CountableIs
<1>1. \A s \in {a, b, c, <<>>} : Text(s, Short) /\ Text(s, Long) /\ Fits("s2", s) /\ s \in Value
  <2>1. Text(a, Short) /\ Text(b, Short) /\ Text(c, Short) /\ Text(<<>>, Short)
    BY StringIs, EmptyText
  <2> QED
    BY <2>1, TextFits
<1>2. /\ limit \in Value /\ Fits("4", limit) /\ Fits("8", limit) /\ 0 \in Value /\ Fits("1", 0)
  <2>1. limit \in Nat /\ limit <= Base /\ 0 \in Nat /\ 0 < Base
    BY Sizes
  <2> QED
    BY <2>1, NumberFits
<1>3. "1" \in Field /\ "s2" \in Field /\ "4" \in Field /\ "8" \in Field
  BY DEF Field
<1>4. Command.set \in 1 .. 9 /\ Command.range \in 1 .. 9 /\ Command.prefix \in 1 .. 9
      /\ Command.subscribe \in 1 .. 9 /\ Command.history \in 1 .. 9 /\ Command.presence \in 1 .. 9
      /\ Command.watch \in 1 .. 9
  BY CommandNumbers
<1>5. Requested(Command.set, a, <<b>>, b)
  BY <1>1, SetRequest
<1>6. Requested(Command.range, <<>>, <<a, b, limit, c>>, encode_range_request(a, b, limit, c))
  <2> DEFINE fs == <<"s2", "s2", "4", "s2">>
             vs == <<a, b, limit, c>>
  <2>1. Fit(fs, vs)
    BY <1>1, <1>2, <1>3, FitFour
  <2>2. Len(fs) <= 4 /\ \A i \in 1 .. Len(fs) : fs[i] # "s4"
    OBVIOUS
  <2>3. encode_range_request(a, b, limit, c) = Encode(fs, vs)
    BY <1>0 DEF encode_range_request
  <2>4. decodePayload(Command.range, Encode(fs, vs)) = Read(fs, Encode(fs, vs))
    BY PayloadOf
  <2> HIDE DEF fs, vs
  <2>5. Requested(Command.range, <<>>, vs, Encode(fs, vs))
    BY <1>4, <2>1, <2>2, <2>4, EmptyText, RequestedFields
  <2> QED
    BY <2>3, <2>5 DEF vs
<1>7. Requested(Command.prefix, <<>>, <<a, limit, c>>, encode_prefix_request(a, limit, c))
  <2> DEFINE fs == <<"s2", "4", "s2">>
             vs == <<a, limit, c>>
  <2>1. Fit(fs, vs)
    BY <1>1, <1>2, <1>3, FitThree
  <2>2. Len(fs) <= 4 /\ \A i \in 1 .. Len(fs) : fs[i] # "s4"
    OBVIOUS
  <2>3. encode_prefix_request(a, limit, c) = Encode(fs, vs)
    BY <1>0 DEF encode_prefix_request
  <2>4. decodePayload(Command.prefix, Encode(fs, vs)) = Read(fs, Encode(fs, vs))
    BY PayloadOf
  <2> HIDE DEF fs, vs
  <2>5. Requested(Command.prefix, <<>>, vs, Encode(fs, vs))
    BY <1>4, <2>1, <2>2, <2>4, EmptyText, RequestedFields
  <2> QED
    BY <2>3, <2>5 DEF vs
<1>8. Requested(Command.subscribe, <<>>, <<0, a, <<>>>>, subscribe_payload(a))
  <2> DEFINE fs == <<"1", "s2", "s2">>
             vs == <<0, a, <<>>>>
  <2>1. Fit(fs, vs)
    BY <1>1, <1>2, <1>3, FitThree
  <2>2. Len(fs) <= 4 /\ \A i \in 1 .. Len(fs) : fs[i] # "s4"
    OBVIOUS
  <2>3. subscribe_payload(a) = Encode(fs, vs)
    BY DEF subscribe_payload
  <2>4. decodePayload(Command.subscribe, Encode(fs, vs)) = Read(fs, Encode(fs, vs))
    BY PayloadOf
  <2> HIDE DEF fs, vs
  <2>5. Requested(Command.subscribe, <<>>, vs, Encode(fs, vs))
    BY <1>4, <2>1, <2>2, <2>4, EmptyText, RequestedFields
  <2> QED
    BY <2>3, <2>5 DEF vs
<1>9. Requested(Command.history, <<>>, <<a, limit, limit>>, encode_history_request(a, limit, limit))
  <2> DEFINE fs == <<"s2", "4", "8">>
             vs == <<a, limit, limit>>
  <2>1. Fit(fs, vs)
    BY <1>1, <1>2, <1>3, FitThree
  <2>2. Len(fs) <= 4 /\ \A i \in 1 .. Len(fs) : fs[i] # "s4"
    OBVIOUS
  <2>3. encode_history_request(a, limit, limit) = Encode(fs, vs)
    BY <1>0 DEF encode_history_request
  <2>4. decodePayload(Command.history, Encode(fs, vs)) = Read(fs, Encode(fs, vs))
    BY PayloadOf
  <2> HIDE DEF fs, vs
  <2>5. Requested(Command.history, <<>>, vs, Encode(fs, vs))
    BY <1>4, <2>1, <2>2, <2>4, EmptyText, RequestedFields
  <2> QED
    BY <2>3, <2>5 DEF vs
<1>10. Requested(Command.presence, a, <<0>>, encode_presence_request(0))
  <2> DEFINE fs == <<"1">>
             vs == <<0>>
  <2>1. Fit(fs, vs)
    BY <1>2, <1>3, EncodeOne
  <2>2. Len(fs) <= 4 /\ \A i \in 1 .. Len(fs) : fs[i] # "s4"
    OBVIOUS
  <2>3. encode_presence_request(0) = Encode(fs, vs)
    BY DEF encode_presence_request
  <2>4. decodePayload(Command.presence, Encode(fs, vs)) = Read(fs, Encode(fs, vs))
    BY PayloadOf
  <2> HIDE DEF fs, vs
  <2>5. Requested(Command.presence, a, vs, Encode(fs, vs))
    BY <1>1, <1>4, <2>1, <2>2, <2>4, RequestedFields
  <2> QED
    BY <2>3, <2>5 DEF vs
<1>11. Requested(Command.watch, <<>>, <<a, b, 0>>, watch_payload(a, b))
  <2> DEFINE fs == <<"s2", "s2", "1">>
             vs == <<a, b, 0>>
  <2>1. Fit(fs, vs)
    BY <1>1, <1>2, <1>3, FitThree
  <2>2. Len(fs) <= 4 /\ \A i \in 1 .. Len(fs) : fs[i] # "s4"
    OBVIOUS
  <2>3. watch_payload(a, b) = Encode(fs, vs)
    BY DEF watch_payload
  <2>4. decodePayload(Command.watch, Encode(fs, vs)) = Read(fs, Encode(fs, vs))
    BY PayloadOf
  <2> HIDE DEF fs, vs
  <2>5. Requested(Command.watch, <<>>, vs, Encode(fs, vs))
    BY <1>4, <2>1, <2>2, <2>4, EmptyText, RequestedFields
  <2> QED
    BY <2>3, <2>5 DEF vs
<1> QED
  BY <1>5, <1>6, <1>7, <1>8, <1>9, <1>10, <1>11

-----------------------------------------------------------------------------
(* Requests that the server does not understand.                             *)

\* However much of it arrives, it is refused.
Vain(w) == w \in Seq(Byte) /\ \A d : Heads(d, w) => Understood(d) = Refused

\* What is refused in the middle is refused at the end.
LEMMA ReadStops ==
  ASSUME NEW fs \in Seq(Field), NEW d \in Seq(Byte), NEW k \in 1 .. Len(fs),
         \A a : Walk(a, fs, d) => a[k] = Refused
  PROVE  Read(fs, d) = Refused
<1> DEFINE n == Len(fs)
<1>1. PICK a : Walk(a, fs, d) /\ Read(fs, d) = IF a[n] = Refused THEN Refused ELSE a[n].values
  BY ReadIs
<1>2. n \in Nat /\ a[k] = Refused
  BY <1>1
<1>3. \A i \in 1 .. n : a[i] = One(fs[i], d, a[i - 1])
  BY <1>1 DEF Walk
<1>4. k \in 1 .. n
  OBVIOUS
<1> HIDE DEF n
<1> DEFINE T == {i \in 0 .. n : k <= i => a[i] = Refused}
<1>5. 0 \in T
  BY <1>2, <1>4
<1>6. ASSUME NEW i \in 1 .. n, i - 1 \in T
      PROVE  i \in T
  <2>1. CASE k <= i - 1
    <3>1. a[i - 1] = Refused
      BY <1>6, <2>1
    <3>2. a[i] = Refused
      BY <1>3, <3>1 DEF One
    <3> QED
      BY <1>2, <3>2
  <2>2. CASE ~(k <= i - 1)
    <3>1. k <= i => k = i
      BY <1>4, <2>2
    <3> QED
      BY <1>2, <3>1
  <2> QED
    BY <2>1, <2>2
<1>7. n \in T
  <2> HIDE DEF T
  <2>1. \A i \in 0 .. n : i \in T
    BY <1>2, <1>5, <1>6, Climb
  <2> QED
    BY <1>2, <2>1
<1>8. a[n] = Refused
  BY <1>4, <1>7
<1> QED
  BY <1>1, <1>8

\* strlen finds the bytes in front of the first 0.
LEMMA StrlenIs ==
  ASSUME NEW z \in Seq(Byte), Len(z) >= 6, z[1] = 5, z[6] = 0
  PROVE  SelectInSeq(z, LAMBDA b : b = 0) - 1 \in 1 .. 5
<1> DEFINE I == {i \in 1 .. Len(z) : z[i] = 0}
<1>1. 6 \in I /\ I \in SUBSET Nat /\ 1 \notin I /\ \A i \in I : i \in Nat /\ i >= 1
  OBVIOUS
<1>2. SelectInSeq(z, LAMBDA b : b = 0) = IF I # {} THEN Min(I) ELSE 0
  BY DEF SelectInSeq
<1> HIDE DEF I
<1>3. Min(I) \in I /\ \A y \in I : Min(I) <= y
  <2>1. \E x \in I : \A y \in I : x <= y
    BY <1>1, Least
  <2> QED
    BY <2>1 DEF Min
<1>4. Min(I) <= 6 /\ Min(I) \in Nat /\ Min(I) # 1 /\ Min(I) >= 1 /\ I # {}
  BY <1>1, <1>3
<1> QED
  BY <1>2, <1>4

\* A publication carries what strlen left of the request: too little to be its topic.
LEMMA PublishInVain ==
  ASSUME NEW seq \in Seqs, NEW topic \in Countable, NEW data \in Countable
  PROVE  Vain(publish_request(seq, topic, data))
<1> DEFINE five == <<Command.publish>>
           zero == <<0>>
           num == BigEndian(seq, 4)
           text == encode_publish_request(topic, data)
           x == five \o num
           y == x \o zero
           z == y \o text
           n == SelectInSeq(z, LAMBDA b : b = 0) - 1
           v == SubSeq(z, 1, n)
           w == publish_request(seq, topic, data)
<1>1. five \in Seq(Byte) /\ Len(five) = 1 /\ five[1] = 5 /\ zero \in Seq(Byte) /\ Len(zero) = 1 /\ zero[1] = 0
  <2>1. 5 \in Byte /\ 0 \in Byte
    BY Sizes DEF Byte
  <2> QED
    BY <2>1, CommandNumbers
<1>2. num \in Seq(Byte) /\ Len(num) = 4
  <2>1. seq \in Nat /\ 4 \in Nat
    BY SeqFits
  <2> QED
    BY <2>1, BigEndianIs
<1>3. text \in Seq(Byte)
  <2>1. topic \in Seq(Byte) /\ data \in Seq(Byte)
    BY StringIs DEF Text
  <2> HIDE DEF zero
  <2>2. (topic \o zero) \o data \in Seq(Byte)
    BY <1>1, <2>1, ConcatProperties
  <2> QED
    BY <2>2 DEF encode_publish_request, zero
<1>4. w = encode_request(Command.publish, seq, <<>>, v)
  BY DEF publish_request
<1> HIDE DEF five, zero, num, text, w, x, y, z
<1>5. x \in Seq(Byte) /\ Len(x) = 5 /\ x[1] = 5
  <2>1. 1 \in Nat /\ 1 \in 1 .. 1
    OBVIOUS
  <2>2. Joins(x, five, num, 1)
    BY <1>1, <1>2, <2>1, ConcatJoins, Zenon DEF x
  <2> QED
    BY <1>1, <1>2, <2>1, <2>2 DEF Joins
<1>6. y \in Seq(Byte) /\ Len(y) = 6 /\ y[1] = 5 /\ y[6] = 0
  <2>1. 5 \in Nat /\ 1 \in 1 .. 5 /\ zero # <<>>
    BY <1>1
  <2>2. Joins(y, x, zero, 5)
    <3>1. x \in Seq(Byte) /\ zero \in Seq(Byte) /\ 5 \in Nat /\ Len(x) = 5
      BY <1>1, <1>5, <2>1, Zenon
    <3>2. y = x \o zero
      BY Zenon DEF y
    <3> QED
      BY <3>1, <3>2, ConcatJoins
  <2> QED
    BY <1>1, <1>5, <2>1, <2>2 DEF Joins
<1>7. z \in Seq(Byte) /\ Len(z) >= 6 /\ z[1] = 5 /\ z[6] = 0
  <2>1. 6 \in Nat /\ 1 \in 1 .. 6 /\ 6 \in 1 .. 6
    OBVIOUS
  <2>2. Joins(z, y, text, 6)
    <3>1. y \in Seq(Byte) /\ text \in Seq(Byte) /\ 6 \in Nat /\ Len(y) = 6
      BY <1>3, <1>6, <2>1, Zenon
    <3>2. z = y \o text
      BY Zenon DEF z
    <3> QED
      BY <3>1, <3>2, ConcatJoins
  <2> QED
    BY <1>6, <2>1, <2>2 DEF Joins
<1>8. n \in 1 .. 5
  <2>1. SelectInSeq(z, LAMBDA b : b = 0) - 1 \in 1 .. 5
    BY <1>7, StrlenIs
  <2> QED
    BY <2>1
<1> HIDE DEF n
<1>9. v \in Seq(Byte) /\ Len(v) = n /\ v[1] = 5
  <2>1. \A i \in 1 .. n : z[i] \in Byte
    BY <1>7, <1>8
  <2>2. v \in Seq(Byte) /\ Len(v) = n
    BY <1>8, <2>1, SubSeqProperties
  <2>3. v[1] = z[1]
    BY <1>7, <1>8
  <2> QED
    BY <1>7, <2>2, <2>3
<1> HIDE DEF v
<1>10. Text(v, Long)
  BY <1>8, <1>9, Sizes DEF Text
<1>11. Read(<<"s2", "1", "s4", "s4">>, v) = Refused
  <2> DEFINE fs == <<"s2", "1", "s4", "s4">>
  <2>1. fs \in Seq(Field) /\ 1 \in 1 .. Len(fs) /\ fs[1] = "s2"
    BY DEF Field
  <2>2. ASSUME NEW a, Walk(a, fs, v)
        PROVE  a[1] = Refused
    <3>1. a[1] = One("s2", v, a[1 - 1]) /\ a[0] = Read0 /\ 1 - 1 = 0
      BY <2>1, <2>2 DEF Walk
    <3>2. Read0.at = 0 /\ Width("s2") = 2 /\ "s2" \in Strings
      BY Widths DEF Read0, Strings
    <3>3. CASE Len(v) < 2
      <4>1. 0 + 2 > Len(v)
        BY <1>8, <1>9, <3>3
      <4> QED
        BY <3>1, <3>2, <4>1 DEF One
    <3>4. CASE ~(Len(v) < 2)
      <4>1. \A i \in 1 .. 2 : v[0 + i] \in Nat
        <5>1. v[1] \in Byte /\ v[2] \in Byte
          BY <1>8, <1>9, <3>4
        <5>2. \A i \in 1 .. 2 : i = 1 \/ i = 2
          OBVIOUS
        <5> QED
          BY <5>1, <5>2, Sizes DEF Byte
      <4>2. Number(v, 0, 2) = v[1] * Base + v[2] /\ v[2] \in Nat
        <5>1. Number(v, 0, 2) = v[0 + 1] * Base + v[0 + 2]
          BY <4>1, NumberOfTwo
        <5> QED
          BY <4>1, <5>1
      <4>3. Number(v, 0, 2) >= 50 /\ Number(v, 0, 2) \in Nat
        BY <1>9, <4>2, Sizes
      <4>4. 0 + 2 + Number(v, 0, 2) > Len(v)
        BY <1>8, <1>9, <4>3
      <4> QED
        BY <3>1, <3>2, <4>4 DEF One
    <3> QED
      BY <3>3, <3>4
  <2> HIDE DEF fs
  <2>3. Read(fs, v) = Refused
    BY <1>9, <2>1, <2>2, ReadStops
  <2> QED
    BY <2>3 DEF fs
<1>12. Command.publish \in 1 .. 9 /\ Command.publish = 5
  BY CommandNumbers
<1>13. ASSUME NEW d, Heads(d, w)
       PROVE  Understood(d) = Refused
  <2> DEFINE r == <<Command.publish, seq, 0, <<>>, v>>
  <2>1. decodeRequest(d) = Refused \/ decodeRequest(d) = r
    BY <1>4, <1>10, <1>12, <1>13, EmptyText, RequestReads
  <2>2. r[1] = Command.publish /\ r[5] = v
    OBVIOUS
  <2> HIDE DEF r
  <2>3. decodePayload(Command.publish, v) = Refused
    BY <1>11, PayloadOf
  <2> QED
    BY <2>1, <2>2, <2>3 DEF Understood
<1>14. w \in Seq(Byte)
  <2> DEFINE vs == <<Command.publish, seq, 0, <<>>, v>>
  <2>1. w = Encode(RequestFields, vs)
    BY <1>4, EmptyCut DEF encode_request, RequestFields
  <2>2. Fit(RequestFields, vs)
    BY <1>10, <1>12, EmptyText, RequestFits
  <2> QED
    BY <2>1, <2>2, OffsetsExist
<1> QED
  BY <1>13, <1>14 DEF Vain, w

\* The bytes of a small number.
LEMMA SmallNumber ==
  ASSUME NEW n \in 1 .. 9
  PROVE  /\ BigEndian(n, 4) \in Seq(Byte) /\ Len(BigEndian(n, 4)) = 4
         /\ BigEndian(n, 4)[1] = 0 /\ BigEndian(n, 4)[2] = 0 /\ BigEndian(n, 4)[3] = 0
         /\ BigEndian(n, 4)[4] = n
<1>1. n \in Nat /\ 4 \in Nat
  OBVIOUS
<1>2. /\ BigEndian(n, 4) \in Seq(Byte) /\ Len(BigEndian(n, 4)) = 4
      /\ \A i \in 1 .. 4 :
           BigEndian(n, 4)[i] = IF 4 - i > 3 THEN 0 ELSE (n \div Weight(4 - i)) % Base
  BY <1>1, BigEndianIs
<1>3. ASSUME NEW i \in 1 .. 3
      PROVE  BigEndian(n, 4)[i] = 0
  <2> DEFINE b == Weight(4 - i)
  <2>1. b \in Nat \ {0} /\ n < b * 1
    <3>1. i = 1 \/ i = 2 \/ i = 3
      OBVIOUS
    <3>2. b \in {Base, Short, Short * Base}
      BY <3>1, Weights
    <3>3. \A x \in {Base, Short, Short * Base} : x \in Nat /\ x > 9
      BY Sizes
    <3> HIDE DEF b
    <3>4. b \in Nat /\ b > 9
      BY <3>2, <3>3
    <3> QED
      BY <3>4
  <2>2. BigEndian(n, 4)[i] = (n \div b) % Base
    BY <1>2
  <2> HIDE DEF b
  <2>3. n \div b \in Nat /\ n \div b < 1
    BY <1>1, <2>1, DivIs, DivSmall
  <2> DEFINE q == n \div b
  <2>4. q \in Nat /\ q < 1 /\ BigEndian(n, 4)[i] = q % Base
    BY <2>2, <2>3
  <2> HIDE DEF q
  <2>5. q = 0
    BY <2>4
  <2> QED
    BY <2>4, <2>5, Sizes
<1>4. BigEndian(n, 4)[4] = n
  <2>1. BigEndian(n, 4)[4] = (n \div 1) % Base
    BY <1>2, Weights
  <2>2. n \div 1 = n
    OBVIOUS
  <2>3. n % Base = n
    BY Sizes
  <2> QED
    BY <2>1, <2>2, <2>3
<1> QED
  BY <1>2, <1>3, <1>4

\* Where a reader is that goes on.
Past(p, k) == p = Refused \/ p.at = k

LEMMA OnePast ==
  ASSUME NEW f, NEW d, NEW k \in Nat, NEW p, Past(p, k), NEW w \in Nat, Width(f) = w
  PROVE  /\ f \notin Strings => Past(One(f, d, p), k + w)
         /\ f \in Strings =>
              /\ Past(One(f, d, p), k + w + Number(d, k, w))
              /\ k + w + Number(d, k, w) > Len(d) => One(f, d, p) = Refused
<1>1. CASE p = Refused
  BY <1>1 DEF One, Past
<1>2. CASE p # Refused
  <2>1. p.at = k
    BY <1>2 DEF Past
  <2> QED
    BY <1>2, <2>1 DEF One, Past
<1> QED
  BY <1>1, <1>2

\* The number of items is read as the flags, as the length of an empty key and as the first
\* byte of the length of a value that is longer than the rest.
LEMMA BatchInVain ==
  ASSUME NEW seq \in Seqs, NEW n \in {1, 2}, NEW rest \in Seq(Byte), Len(rest) <= 5 * Short
  PROVE  Vain(Encode(<<"1", "4", "4">>, <<Command.batch, seq, n>>) \o rest)
<1> DEFINE fs == <<"1", "4", "4">>
           vs == <<Command.batch, seq, n>>
           h == Encode(fs, vs)
           w == h \o rest
<1>1. Fits("1", 9) /\ Fits("4", seq) /\ Fits("4", n) /\ 9 \in Value /\ seq \in Value /\ n \in Value
  <2>1. 9 \in Nat /\ 9 < Base /\ n \in Nat /\ n < Long
    BY Sizes
  <2> QED
    BY <2>1, NumberFits, SeqFits
<1>2. Fit(fs, vs)
  <2>1. "1" \in Field /\ "4" \in Field /\ Command.batch = 9
    BY CommandNumbers DEF Field
  <2> QED
    BY <1>1, <2>1, FitThree
<1>3. PICK o : Offsets(o, fs, vs)
  BY <1>2, OffsetsExist
<1>4. h \in Seq(Byte) /\ Len(h) = 9 /\ Agrees(h, 5, BigEndian(n, 4))
  <2>1. Len(fs) = 3 /\ fs[1] = "1" /\ fs[2] = "4" /\ fs[3] = "4" /\ vs[1] = 9 /\ vs[2] = seq /\ vs[3] = n
    BY CommandNumbers
  <2>0. h = Encode(fs, vs) /\ h \in Seq(Byte)
    BY <1>2, OffsetsExist
  <2> HIDE DEF h, fs, vs
  <2>2. /\ o[0] = 0 /\ o[1] = o[0] + Len(Write("1", 9)) /\ o[2] = o[1] + Len(Write("4", seq))
        /\ o[3] = o[2] + Len(Write("4", n)) /\ o[3] = Len(h)
        /\ Agrees(h, o[2], Write("4", n))
    <3>1. /\ o[0] = 0 /\ o[3] = Len(h)
          /\ \A i \in 1 .. 3 : /\ o[i] = o[i - 1] + Len(Write(fs[i], vs[i]))
                               /\ Agrees(h, o[i - 1], Write(fs[i], vs[i]))
      BY <1>3, <2>0, <2>1 DEF Offsets
    <3>2. 1 \in 1 .. 3 /\ 2 \in 1 .. 3 /\ 3 \in 1 .. 3 /\ 1 - 1 = 0 /\ 2 - 1 = 1 /\ 3 - 1 = 2
      OBVIOUS
    <3> QED
      BY <2>1, <3>1, <3>2
  <2>3. Len(Write("1", 9)) = 1 /\ Len(Write("4", seq)) = 4 /\ Len(Write("4", n)) = 4
    <3>1. "1" \in Field /\ "4" \in Field /\ "1" \notin Strings /\ "4" \notin Strings
      BY DEF Field, Strings
    <3>2. Len(Write("1", 9)) = Width("1") /\ Len(Write("4", seq)) = Width("4")
          /\ Len(Write("4", n)) = Width("4")
      BY <1>1, <3>1, WriteIs
    <3> QED
      BY <3>2, Widths
  <2>4. Write("4", n) = BigEndian(n, 4)
    BY Widths DEF Write
  <2>5. o[1] = 0 + 1 /\ o[2] = o[1] + 4 /\ Len(h) = o[2] + 4
    BY <2>2, <2>3, Zenon
  <2>6. o[2] = 5
    BY <2>5
  <2>7. Len(h) = 9
    BY <2>5, <2>6
  <2> QED
    BY <2>0, <2>2, <2>4, <2>6, <2>7
<1> HIDE DEF h, fs, vs
<1>5. w \in Seq(Byte) /\ Len(w) = 9 + Len(rest) /\ Len(rest) \in Nat /\ \A j \in 1 .. 9 : w[j] = h[j]
  <2>1. 9 \in Nat
    OBVIOUS
  <2> QED
    <3>1. Joins(w, h, rest, 9)
      BY <1>4, <2>1, ConcatJoins
    <3> QED
      BY <3>1, Zenon DEF Joins
<1>6. w[6] = 0 /\ w[7] = 0 /\ w[8] = 0 /\ w[9] = n
  <2>1. n \in 1 .. 9
    OBVIOUS
  <2>2. h[5 + 1] = 0 /\ h[5 + 2] = 0 /\ h[5 + 3] = 0 /\ h[5 + 4] = n
    <3> DEFINE b == BigEndian(n, 4)
    <3>1. Len(b) = 4 /\ b[1] = 0 /\ b[2] = 0 /\ b[3] = 0 /\ b[4] = n
      BY <2>1, SmallNumber
    <3> HIDE DEF b
    <3>2. \A j \in 1 .. 4 : 5 + j <= 9 => h[5 + j] = b[j]
      BY <1>4, <3>1 DEF Agrees, b
    <3> QED
      BY <3>1, <3>2
  <2> QED
    BY <1>5, <2>2
<1> HIDE DEF w
<1>7. ASSUME NEW d, Heads(d, w), ~(Len(d) < 12)
      PROVE  Read(RequestFields, d) = Refused
  <2>1. d \in Seq(Byte) /\ Len(d) \in Nat /\ Len(d) >= 12 /\ Len(d) <= 9 + Len(rest)
    BY <1>5, <1>7 DEF Heads
  <2>2. /\ RequestFields \in Seq(Field) /\ Len(RequestFields) = 5 /\ RequestFields[1] = "1"
        /\ RequestFields[2] = "4" /\ RequestFields[3] = "1" /\ RequestFields[4] = "s2"
        /\ RequestFields[5] = "s4"
    BY DEF RequestFields, Field
  <2>3. d[7] = 0 /\ d[8] = 0 /\ d[9] = n
    <3>1. 7 \in 1 .. Len(d) /\ 8 \in 1 .. Len(d) /\ 9 \in 1 .. Len(d)
      BY <2>1
    <3>2. \A j \in 1 .. Len(d) : d[j] = w[j]
      BY <1>7 DEF Heads
    <3> QED
      BY <1>6, <3>1, <3>2
  <2>4. \A i \in 1 .. Len(d) : d[i] \in Nat
    BY <2>1, Sizes DEF Byte
  <2>5. ASSUME NEW a, Walk(a, RequestFields, d)
        PROVE  a[5] = Refused
    <3>1. /\ a[0] = Read0 /\ a[1] = One("1", d, a[0]) /\ a[2] = One("4", d, a[1])
          /\ a[3] = One("1", d, a[2]) /\ a[4] = One("s2", d, a[3]) /\ a[5] = One("s4", d, a[4])
      BY <2>2, <2>5 DEF Walk
    <3>2. a[1] \in State /\ a[2] \in State /\ a[3] \in State /\ a[4] \in State
      BY <2>2, <2>5 DEF Walk
    <3>3. "1" \notin Strings /\ "4" \notin Strings /\ "s2" \in Strings /\ "s4" \in Strings
      BY DEF Strings
    <3>4. Past(a[0], 0)
      BY <3>1 DEF Past, Read0
    <3>5. Past(a[1], 1)
      <4>1. Width("1") = 1 /\ 0 \in Nat /\ 1 \in Nat /\ 0 + 1 = 1
        BY Widths
      <4>2. Past(One("1", d, a[0]), 0 + 1)
        BY <3>3, <3>4, <4>1, OnePast
      <4> QED
        BY <3>1, <4>1, <4>2
    <3>6. Past(a[2], 5)
      <4>1. Width("4") = 4 /\ 1 \in Nat /\ 4 \in Nat /\ 1 + 4 = 5
        BY Widths
      <4>2. Past(One("4", d, a[1]), 1 + 4)
        BY <3>3, <3>5, <4>1, OnePast
      <4> QED
        BY <3>1, <4>1, <4>2
    <3>7. Past(a[3], 6)
      <4>1. Width("1") = 1 /\ 5 \in Nat /\ 1 \in Nat /\ 5 + 1 = 6
        BY Widths
      <4>2. Past(One("1", d, a[2]), 5 + 1)
        BY <3>3, <3>6, <4>1, OnePast
      <4> QED
        BY <3>1, <4>1, <4>2
    <3>8. Number(d, 6, 2) = 0
      <4>1. \A i \in 1 .. 2 : d[6 + i] \in Nat
        BY <2>1, <2>4
      <4>2. Number(d, 6, 2) = d[6 + 1] * Base + d[6 + 2]
        BY <4>1, NumberOfTwo
      <4> QED
        BY <2>3, <4>2, Sizes
    <3>9. Past(a[4], 8)
      <4>1. Width("s2") = 2 /\ 6 \in Nat /\ 2 \in Nat /\ 6 + 2 + 0 = 8
        BY Widths
      <4>2. Past(One("s2", d, a[3]), 6 + 2 + Number(d, 6, 2))
        BY <3>3, <3>7, <4>1, OnePast
      <4> QED
        BY <3>1, <3>8, <4>1, <4>2
    <3>10. Number(d, 8, 4) >= n * (Short * Base) /\ Number(d, 8, 4) \in Nat
      <4>1. \A i \in 1 .. 4 : d[8 + i] \in Nat
        BY <2>1, <2>4
      <4>2. Number(d, 8, 4) >= d[8 + 1] * (Short * Base) /\ Number(d, 8, 4) \in Nat
        BY <4>1, NumberOfFour
      <4> QED
        BY <2>3, <4>2
    <3>11. n * (Short * Base) >= 10 * Short
      BY Sizes
    <3>12. 8 + 4 + Number(d, 8, 4) > Len(d)
      <4> DEFINE m == n * (Short * Base)
      <4>1. m \in Nat /\ m >= 10 * Short /\ Number(d, 8, 4) >= m
        BY <3>10, <3>11, Sizes
      <4> HIDE DEF m
      <4> QED
        BY <1>5, <2>1, <3>10, <4>1, Sizes
    <3>13. Width("s4") = 4 /\ 8 \in Nat /\ 4 \in Nat
      BY Widths
    <3>14. One("s4", d, a[4]) = Refused
      BY <3>3, <3>9, <3>12, <3>13, OnePast
    <3> QED
      BY <3>1, <3>14
  <2>6. 5 \in 1 .. Len(RequestFields)
    BY <2>2
  <2> QED
    BY <2>1, <2>2, <2>5, <2>6, ReadStops
<1>8. ASSUME NEW d, Heads(d, w)
      PROVE  Understood(d) = Refused
  <2>1. decodeRequest(d) = Refused
    BY <1>7, <1>8, RequestRefused
  <2> QED
    BY <2>1 DEF Understood
<1> QED
  BY <1>5, <1>8 DEF Vain, w, h, fs, vs

LEMMA PairIs ==
  ASSUME NEW a \in Countable, NEW b \in Countable
  PROVE  /\ Fit(<<"s2", "s4">>, <<a, b>>) /\ Encode(<<"s2", "s4">>, <<a, b>>) \in Seq(Byte)
         /\ Len(Encode(<<"s2", "s4">>, <<a, b>>)) = 6 + Len(a) + Len(b)
         /\ Len(a) \in Nat /\ Len(b) \in Nat /\ Len(a) < Short /\ Len(b) < Short
<1> DEFINE fs == <<"s2", "s4">>
           vs == <<a, b>>
           w == Encode(fs, vs)
<1>1. /\ Fits("s2", a) /\ Fits("s4", b) /\ a \in Value /\ b \in Value
      /\ Len(a) \in Nat /\ Len(b) \in Nat /\ Len(a) < Short /\ Len(b) < Short
  <2>1. Text(a, Short) /\ Text(b, Short)
    BY StringIs
  <2> QED
    BY <2>1, TextFits DEF Text
<1>2. "s2" \in Field /\ "s4" \in Field /\ "s2" \in Strings /\ "s4" \in Strings
  BY DEF Field, Strings
<1>3. Fit(fs, vs)
  BY <1>1, <1>2, FitTwo
<1>4. PICK o : Offsets(o, fs, vs)
  BY <1>3, OffsetsExist
<1>5. w \in Seq(Byte) /\ w = Encode(fs, vs)
  BY <1>3, OffsetsExist
<1>6. Len(fs) = 2 /\ fs[1] = "s2" /\ fs[2] = "s4" /\ vs[1] = a /\ vs[2] = b
  OBVIOUS
<1> HIDE DEF fs, vs, w
<1>7. /\ o[0] = 0 /\ o[2] = Len(w)
      /\ \A i \in 1 .. 2 : o[i] = o[i - 1] + Len(Write(fs[i], vs[i]))
  BY <1>4, <1>5, <1>6 DEF Offsets
<1>8. Len(Write("s2", a)) = 2 + Len(a) /\ Len(Write("s4", b)) = 4 + Len(b)
  BY <1>1, <1>2, WriteIs, Widths
<1>9. o[1] = 0 + (2 + Len(a)) /\ o[2] = o[1] + (4 + Len(b))
  <2>1. 1 \in 1 .. 2 /\ 2 \in 1 .. 2 /\ 1 - 1 = 0 /\ 2 - 1 = 1
    OBVIOUS
  <2> QED
    BY <1>6, <1>7, <1>8, <2>1
<1>10. Len(w) = 6 + Len(a) + Len(b)
  <2> DEFINE x == Len(a)
             y == Len(b)
  <2>1. x \in Nat /\ y \in Nat /\ o[1] = 0 + (2 + x) /\ o[2] = o[1] + (4 + y) /\ Len(w) = o[2]
    BY <1>1, <1>7, <1>9
  <2> HIDE DEF x, y
  <2>2. Len(w) = 6 + x + y
    BY <2>1
  <2> QED
    BY <2>2 DEF x, y
<1> QED
  BY <1>1, <1>3, <1>5, <1>10 DEF fs, vs, w

LEMMA NameIs ==
  ASSUME NEW a \in Countable
  PROVE  /\ Fits("s2", a) /\ a \in Value /\ Encode(<<"s2">>, <<a>>) = Write("s2", a)
         /\ Write("s2", a) \in Seq(Byte) /\ Len(Write("s2", a)) = 2 + Len(a)
         /\ Len(a) \in Nat /\ Len(a) < Short
<1>1. Fits("s2", a) /\ a \in Value /\ Len(a) \in Nat /\ Len(a) < Short
  <2>1. Text(a, Short)
    BY StringIs
  <2> QED
    BY <2>1, TextFits DEF Text
<1>2. "s2" \in Field /\ "s2" \in Strings
  BY DEF Field, Strings
<1>3. Len(Write("s2", a)) = 2 + Len(a)
  BY <1>1, <1>2, WriteIs, Widths
<1> QED
  BY <1>1, <1>2, <1>3, EncodeOne

LEMMA BatchesInVain ==
  ASSUME NEW seq \in Seqs, NEW a \in Countable, NEW b \in Countable, NEW c \in Countable
  PROVE  /\ Vain(bb_batch_set(seq, << <<a, b>>, <<b, c>> >>))
         /\ Vain(bb_batch_get(seq, <<a, b>>))
         /\ Vain(bb_batch_delete(seq, <<a>>))
<1>1. Vain(bb_batch_set(seq, << <<a, b>>, <<b, c>> >>))
  <2> DEFINE pairs == << <<a, b>>, <<b, c>> >>
             x == Encode(<<"s2", "s4">>, <<a, b>>)
             y == Encode(<<"s2", "s4">>, <<b, c>>)
  <2>1. [i \in DOMAIN pairs |-> Encode(<<"s2", "s4">>, <<Cut(pairs[i][1]), pairs[i][2]>>)] = <<x, y>>
    BY CountableIs
  <2>2. bb_batch_set(seq, pairs) = Encode(<<"1", "4", "4">>, <<Command.batch, seq, 2>>) \o FlattenSeq(<<x, y>>)
    BY <2>1 DEF bb_batch_set
  <2>3. x \in Seq(Byte) /\ Len(x) <= 2 * Short + 6 /\ y \in Seq(Byte) /\ Len(y) <= 2 * Short + 6
    <3>1. /\ x \in Seq(Byte) /\ Len(x) = 6 + Len(a) + Len(b) /\ y \in Seq(Byte) /\ Len(y) = 6 + Len(b) + Len(c)
          /\ Len(a) \in Nat /\ Len(b) \in Nat /\ Len(c) \in Nat
          /\ Len(a) < Short /\ Len(b) < Short /\ Len(c) < Short
      BY PairIs
    <3> HIDE DEF x, y
    <3> QED
      BY <3>1, Sizes
  <2> HIDE DEF x, y, pairs
  <2>4. FlattenSeq(<<x, y>>) = x \o y /\ x \o y \in Seq(Byte) /\ Len(x \o y) = Len(x) + Len(y)
    BY <2>3, FlattenTwo, ConcatProperties
  <2>5. Len(x \o y) <= 5 * Short
    BY <2>3, <2>4, Sizes
  <2>6. Vain(Encode(<<"1", "4", "4">>, <<Command.batch, seq, 2>>) \o (x \o y))
    BY <2>4, <2>5, BatchInVain
  <2> QED
    BY <2>2, <2>4, <2>6 DEF pairs
<1>2. Vain(bb_batch_get(seq, <<a, b>>))
  <2> DEFINE keys == <<a, b>>
             x == Encode(<<"s2">>, <<a>>)
             y == Encode(<<"s2">>, <<b>>)
  <2>1. [i \in DOMAIN keys |-> Encode(<<"s2">>, <<Cut(keys[i])>>)] = <<x, y>>
    BY CountableIs
  <2>2. bb_batch_get(seq, keys) = Encode(<<"1", "4", "4">>, <<Command.batch, seq, 2>>) \o FlattenSeq(<<x, y>>)
    BY <2>1 DEF bb_batch_get
  <2>3. x \in Seq(Byte) /\ Len(x) <= 2 + Short /\ y \in Seq(Byte) /\ Len(y) <= 2 + Short
    <3>1. /\ x \in Seq(Byte) /\ Len(x) = 2 + Len(a) /\ y \in Seq(Byte) /\ Len(y) = 2 + Len(b)
          /\ Len(a) \in Nat /\ Len(b) \in Nat /\ Len(a) < Short /\ Len(b) < Short
      BY NameIs
    <3> HIDE DEF x, y
    <3> QED
      BY <3>1, Sizes
  <2> HIDE DEF x, y, keys
  <2>4. FlattenSeq(<<x, y>>) = x \o y /\ x \o y \in Seq(Byte) /\ Len(x \o y) = Len(x) + Len(y)
    BY <2>3, FlattenTwo, ConcatProperties
  <2>5. Len(x \o y) <= 5 * Short
    BY <2>3, <2>4, Sizes
  <2>6. Vain(Encode(<<"1", "4", "4">>, <<Command.batch, seq, 2>>) \o (x \o y))
    BY <2>4, <2>5, BatchInVain
  <2> QED
    BY <2>2, <2>4, <2>6 DEF keys
<1>3. Vain(bb_batch_delete(seq, <<a>>))
  <2> DEFINE keys == <<a>>
             x == Encode(<<"s2">>, <<a>>)
  <2>1. [i \in DOMAIN keys |-> Encode(<<"s2">>, <<Cut(keys[i])>>)] = <<x>>
    BY CountableIs
  <2>2. bb_batch_delete(seq, keys) = Encode(<<"1", "4", "4">>, <<Command.batch, seq, 1>>) \o FlattenSeq(<<x>>)
    BY <2>1 DEF bb_batch_delete
  <2>3. x \in Seq(Byte) /\ Len(x) <= 2 + Short
    <3>1. x \in Seq(Byte) /\ Len(x) = 2 + Len(a) /\ Len(a) \in Nat /\ Len(a) < Short
      BY NameIs
    <3> HIDE DEF x
    <3> QED
      BY <3>1, Sizes
  <2> HIDE DEF x, keys
  <2>4. FlattenSeq(<<x>>) = x
    BY <2>3, FlattenOne
  <2>5. Len(x) <= 5 * Short
    BY <2>3, Sizes
  <2>6. Vain(Encode(<<"1", "4", "4">>, <<Command.batch, seq, 1>>) \o x)
    BY <2>3, <2>5, BatchInVain
  <2> QED
    BY <2>2, <2>4, <2>6 DEF keys
<1> QED
  BY <1>1, <1>2, <1>3

-----------------------------------------------------------------------------
(* Answers.                                                                  *)

LEMMA OneByte ==
  ASSUME NEW n \in Byte
  PROVE  BigEndian(n, 1)[1] = n /\ Len(BigEndian(n, 1)) = 1 /\ n \in Nat /\ n < Base
<1>1. n \in Nat /\ n < Base /\ 1 \in Nat
  BY Sizes DEF Byte
<1>2. Len(BigEndian(n, 1)) = 1 /\ BigEndian(n, 1)[1] = (n \div 1) % Base
  <2>1. /\ Len(BigEndian(n, 1)) = 1
        /\ \A i \in 1 .. 1 :
             BigEndian(n, 1)[i] = IF 1 - i > 3 THEN 0 ELSE (n \div Weight(1 - i)) % Base
    BY <1>1, BigEndianIs
  <2>2. 1 \in 1 .. 1 /\ 1 - 1 = 0 /\ ~(0 > 3)
    OBVIOUS
  <2> QED
    BY <2>1, <2>2, Weights
<1>3. n \div 1 = n
  BY <1>1
<1>4. n % Base = n
  BY <1>1, Sizes
<1> QED
  BY <1>1, <1>2, <1>3, <1>4

ResponseFields == <<"1", "4", "s4">>

\* Where the parts of an answer are.
LEMMA ResponseIs ==
  ASSUME NEW status \in Byte, NEW seq \in Seqs, NEW value, Text(value, Long)
  PROVE  /\ encodeResponse(status, seq, value) \in Seq(Byte)
         /\ Len(encodeResponse(status, seq, value)) = 9 + Len(value) /\ Len(value) \in Nat
         /\ encodeResponse(status, seq, value)[1] = status
         /\ Agrees(encodeResponse(status, seq, value), 5, BigEndian(Len(value), 4))
         /\ Agrees(encodeResponse(status, seq, value), 9, value)
<1> DEFINE vs == <<status, seq, value>>
           w == encodeResponse(status, seq, value)
           l == Len(value)
           b == BigEndian(l, 4)
<1>1. /\ Fits("1", status) /\ Fits("4", seq) /\ Fits("s4", value)
      /\ status \in Value /\ seq \in Value /\ value \in Value /\ l \in Nat /\ value \in Seq(Byte)
  <2>1. status \in Nat /\ status < Base
    BY OneByte
  <2>2. value \in Seq(Byte)
    BY DEF Text
  <2> QED
    BY <2>1, <2>2, NumberFits, SeqFits, TextFits
<1>2. "1" \in Field /\ "4" \in Field /\ "s4" \in Field /\ "1" \notin Strings /\ "4" \notin Strings
      /\ "s4" \in Strings
  BY DEF Field, Strings
<1>3. Fit(ResponseFields, vs) /\ w = Encode(ResponseFields, vs)
  BY <1>1, <1>2, FitThree DEF ResponseFields, encodeResponse
<1>4. PICK o : Offsets(o, ResponseFields, vs)
  BY <1>3, OffsetsExist
<1>5. w \in Seq(Byte)
  BY <1>3, OffsetsExist
<1>6. /\ Len(ResponseFields) = 3 /\ ResponseFields[1] = "1" /\ ResponseFields[2] = "4"
      /\ ResponseFields[3] = "s4" /\ vs[1] = status /\ vs[2] = seq /\ vs[3] = value
  BY DEF ResponseFields
<1> HIDE DEF vs, w
<1>7. /\ o[0] = 0 /\ o[3] = Len(w)
      /\ \A i \in 1 .. 3 : /\ o[i] = o[i - 1] + Len(Write(ResponseFields[i], vs[i]))
                           /\ Agrees(w, o[i - 1], Write(ResponseFields[i], vs[i]))
  BY <1>3, <1>4, <1>6 DEF Offsets
<1>8. /\ Len(Write("1", status)) = 1 /\ Len(Write("4", seq)) = 4
      /\ Len(Write("s4", value)) = 4 + l
      /\ \A j \in 1 .. 4 : Write("s4", value)[j] = b[j]
      /\ \A j \in 1 .. l : Write("s4", value)[4 + j] = value[j]
  <2>1. Width("1") = 1 /\ Width("4") = 4 /\ Width("s4") = 4
    BY Widths
  <2>2. Len(Write("1", status)) = Width("1") /\ Len(Write("4", seq)) = Width("4")
    BY <1>1, <1>2, WriteIs
  <2>3. /\ Len(Write("s4", value)) = Width("s4") + Len(value)
        /\ \A j \in 1 .. Width("s4") : Write("s4", value)[j] = BigEndian(Len(value), Width("s4"))[j]
        /\ \A j \in 1 .. Len(value) : Write("s4", value)[Width("s4") + j] = value[j]
    BY <1>1, <1>2, WriteIs
  <2> QED
    BY <2>1, <2>2, <2>3
<1>9. /\ o[1] = 0 + 1 /\ o[2] = o[1] + 4 /\ Len(w) = o[2] + (4 + l)
      /\ Agrees(w, 0, Write("1", status)) /\ Agrees(w, o[2], Write("s4", value))
  <2>1. 1 \in 1 .. 3 /\ 2 \in 1 .. 3 /\ 3 \in 1 .. 3 /\ 1 - 1 = 0 /\ 2 - 1 = 1 /\ 3 - 1 = 2
    OBVIOUS
  <2>2. o[1] = o[0] + Len(Write("1", status)) /\ Agrees(w, o[0], Write("1", status))
    BY <1>6, <1>7, <2>1
  <2>3. o[2] = o[1] + Len(Write("4", seq))
    BY <1>6, <1>7, <2>1
  <2>4. o[3] = o[2] + Len(Write("s4", value)) /\ Agrees(w, o[2], Write("s4", value))
    BY <1>6, <1>7, <2>1
  <2> HIDE DEF l
  <2> QED
    BY <1>7, <1>8, <2>2, <2>3, <2>4, Zenon
<1> HIDE DEF l
<1>10. o[2] = 5 /\ Len(w) = 9 + l
  <2>1. o[2] = 5
    BY <1>9
  <2> QED
    BY <1>1, <1>9, <2>1
<1>11. w[1] = status
  <2>1. Write("1", status) = BigEndian(status, 1)
    BY Widths DEF Write
  <2>a. 1 \in 1 .. Len(Write("1", status))
    <3> DEFINE m == Len(Write("1", status))
    <3>1. m = 1
      BY <1>8
    <3> HIDE DEF m
    <3>2. 1 \in 1 .. m
      BY <3>1
    <3> QED
      BY <3>2 DEF m
  <2>2. 1 \in 1 .. Len(Write("1", status)) /\ 0 + 1 <= Len(w) /\ 0 + 1 = 1
    BY <1>1, <1>10, <2>a
  <2>3. w[0 + 1] = Write("1", status)[1]
    BY <1>9, <2>2 DEF Agrees
  <2> QED
    BY <2>1, <2>2, <2>3, OneByte
<1> DEFINE x == Write("s4", value)
<1>12. \A j \in 1 .. 4 + l : 5 + j <= Len(w) => w[5 + j] = x[j]
  BY <1>8, <1>9, <1>10 DEF Agrees
<1>13. /\ Len(x) = 4 + l /\ \A j \in 1 .. 4 : x[j] = b[j]
       /\ \A j \in 1 .. l : x[4 + j] = value[j]
  BY <1>8
<1>14. Len(b) = 4
  BY <1>1, BigEndianIs
<1> HIDE DEF x, b
<1>15. Agrees(w, 5, b)
  <2> SUFFICES ASSUME NEW j \in 1 .. 4, 5 + j <= Len(w)
               PROVE  w[5 + j] = b[j]
    BY <1>14 DEF Agrees
  <2>1. j \in 1 .. 4 + l
    BY <1>1
  <2> QED
    BY <1>12, <1>13, <2>1
<1>16. Agrees(w, 9, value)
  <2> SUFFICES ASSUME NEW j \in 1 .. l, 9 + j <= Len(w)
               PROVE  w[9 + j] = value[j]
    BY DEF Agrees, l
  <2>1. 4 + j \in 1 .. 4 + l /\ 5 + (4 + j) = 9 + j
    BY <1>1
  <2>2. x[4 + j] = value[j]
    BY <1>13
  <2> QED
    BY <1>12, <2>1, <2>2
<1> QED
  BY <1>1, <1>5, <1>10, <1>11, <1>15, <1>16 DEF w, l, b

\* Where the bytes of a string are, it is read.
LEMMA BytesAgree ==
  ASSUME NEW d \in Seq(Byte), NEW at \in Nat, NEW s \in Seq(Byte), Agrees(d, at, s),
         at + Len(s) <= Len(d)
  PROVE  Bytes(d, at, Len(s)) = s
<1> DEFINE b == Bytes(d, at, Len(s))
<1>1. Len(s) \in Nat
  OBVIOUS
<1>2. b \in Seq(Byte) /\ Len(b) = Len(s) /\ \A j \in 1 .. Len(s) : b[j] = d[at + j]
  BY <1>1, BytesIs
<1> HIDE DEF b
<1>3. \A j \in 1 .. Len(s) : at + j <= Len(d) /\ d[at + j] = s[j]
  BY DEF Agrees
<1>4. b = s
  BY <1>2, <1>3, SeqEqual
<1> QED
  BY <1>4 DEF b

Answer(status, value) == [status |-> status, value |-> value]

\* An answer is read when it is complete.
LEMMA ResponseReads ==
  ASSUME NEW status \in Byte, NEW seq \in Seqs, NEW value, Text(value, Long),
         NEW d, Heads(d, encodeResponse(status, seq, value))
  PROVE  /\ decode_response(d) = IF Len(d) < Len(encodeResponse(status, seq, value)) THEN Refused
                                 ELSE Answer(status, value)
         /\ decode_range_response_binary(d) = decode_response(d)
         /\ Answer(status, value) # Refused
<1> DEFINE w == encodeResponse(status, seq, value)
           l == Len(value)
           n == Number(d, 5, 4)
<1>1. /\ w \in Seq(Byte) /\ Len(w) = 9 + l /\ l \in Nat /\ w[1] = status
      /\ Agrees(w, 5, BigEndian(l, 4)) /\ Agrees(w, 9, value)
  BY ResponseIs
<1>2. /\ d \in Seq(Byte) /\ Len(d) \in Nat /\ Len(d) <= Len(w)
      /\ \A j \in 1 .. Len(d) : d[j] = w[j]
  BY DEF Heads
<1>3. value \in Seq(Byte) /\ l < Long
  BY DEF Text
<1> HIDE DEF w
<1>4. Agrees(d, 9, value) /\ Agrees(d, 5, BigEndian(l, 4))
  <2>1. 4 \in Nat /\ 5 \in Nat /\ 9 \in Nat
    OBVIOUS
  <2>2. BigEndian(l, 4) \in Seq(Byte)
    BY <1>1, <2>1, BigEndianIs
  <2> QED
    BY <1>1, <1>3, <2>1, <2>2, HeadAgrees DEF w
<1>5. ASSUME ~(Len(d) < 9)
      PROVE  n = l /\ d[1] = status
  <2>1. Says(d, 5, 4, l)
    <3> DEFINE b == BigEndian(l, 4)
    <3>1. Len(b) = 4
      BY <1>1, BigEndianIs
    <3>a. Agrees(d, 5, b)
      BY <1>4
    <3> HIDE DEF b, l
    <3>2. \A j \in 1 .. 4 : d[5 + j] = b[j]
      <4> SUFFICES ASSUME NEW j \in 1 .. 4
                   PROVE  d[5 + j] = b[j]
        OBVIOUS
      <4>1. j \in 1 .. Len(b) /\ 5 + j <= Len(d)
        BY <1>2, <1>5, <3>1
      <4> QED
        BY <3>a, <4>1, Zenon DEF Agrees
    <3> QED
      BY <3>2 DEF Says, b
  <2>2. 4 \in {1, 2, 4, 8} /\ 5 \in Nat /\ Bound(4) = Long
    BY Widths
  <2>3. n = l
    <3> HIDE DEF l
    <3> QED
      BY <1>1, <1>3, <2>1, <2>2, NumberOf
  <2>4. d[1] = w[1]
    BY <1>2, <1>5
  <2> QED
    BY <1>1, <2>3, <2>4
<1>6. Answer(status, value) # Refused
  <2>1. status \in Nat
    BY OneByte
  <2>2. value \in Seq(Nat)
    <3>1. Byte \subseteq Nat
      BY Sizes DEF Byte
    <3> QED
      BY <1>3, <3>1, SeqMonotonic
  <2> QED
    BY <2>1, <2>2, RefusedAssumption DEF Answer
<1>7. decode_response(d) = IF Len(d) < 9 \/ Len(d) < 9 + n THEN Refused
                           ELSE [status |-> d[1], value |-> Bytes(d, 9, n)]
  BY DEF decode_response
<1>8. decode_range_response_binary(d) = decode_response(d)
  BY DEF decode_response, decode_range_response_binary
<1>9. CASE Len(d) < 9 \/ Len(d) < 9 + n
  <2>1. Len(d) < Len(w)
    <3>1. CASE Len(d) < 9
      <4> HIDE DEF l, n
      <4> QED
        BY <1>1, <1>2, <3>1
    <3>2. CASE ~(Len(d) < 9)
      <4>1. n = l
        BY <1>5, <3>2
      <4> HIDE DEF l, n
      <4> QED
        BY <1>1, <1>2, <1>9, <3>2, <4>1
    <3> QED
      BY <3>1, <3>2
  <2> QED
    BY <1>6, <1>7, <1>8, <1>9, <2>1 DEF w
<1>10. CASE ~(Len(d) < 9 \/ Len(d) < 9 + n)
  <2>1. n = l /\ d[1] = status
    BY <1>5, <1>10
  <2>2. ~(Len(d) < Len(w)) /\ 9 + l <= Len(d)
    <3> HIDE DEF l, n
    <3> QED
      BY <1>1, <1>2, <1>10, <2>1
  <2>3. Bytes(d, 9, l) = value
    <3>1. 9 \in Nat
      OBVIOUS
    <3> QED
      BY <1>2, <1>3, <1>4, <2>2, <3>1, BytesAgree
  <2>4. decode_response(d) = [status |-> status, value |-> value]
    <3> HIDE DEF l, n
    <3> QED
      BY <1>7, <1>10, <2>1, <2>3
  <2> QED
    BY <1>6, <1>8, <2>2, <2>4 DEF w, Answer
<1> QED
  BY <1>9, <1>10

-----------------------------------------------------------------------------
(* The handshake.                                                            *)

HandshakeFields == <<"1", "1", "s2", "1">>

\* The names behind the fixed fields are fields of their own.
NamesBehind(fs, vs, m, names) ==
  /\ Fit(fs \o [i \in 1 .. m |-> "s2"], vs \o names)
  /\ Encode(fs \o [i \in 1 .. m |-> "s2"], vs \o names)
       = Encode(fs, vs) \o FlattenSeq([i \in 1 .. m |-> Write("s2", names[i])])
  /\ Len(vs \o names) = Len(fs) + m
  /\ \A i \in 1 .. Len(fs) : (vs \o names)[i] = vs[i]
  /\ \A i \in 1 .. m : (vs \o names)[Len(fs) + i] = names[i]

LEMMA EncodeNames ==
  ASSUME NEW fs, NEW vs, Fit(fs, vs), NEW m \in Nat, NEW names \in [1 .. m -> Countable]
  PROVE  NamesBehind(fs, vs, m, names)
<1> DEFINE l == Len(fs)
           G(k) == fs \o [i \in 1 .. k |-> "s2"]
           U(k) == vs \o [i \in 1 .. k |-> names[i]]
           W(k) == [i \in 1 .. k |-> Write("s2", names[i])]
<1>1. /\ l \in Nat /\ fs \in Seq(Field) /\ vs \in Seq(Value) /\ Len(vs) = l /\ Len(fs) = l
      /\ \A i \in 1 .. l : Fits(fs[i], vs[i])
  BY DEF Fit
<1>2. \A i \in 1 .. m : Fits("s2", names[i]) /\ names[i] \in Value /\ Write("s2", names[i]) \in Seq(Byte)
  <2> TAKE i \in 1 .. m
  <2>1. names[i] \in Countable
    OBVIOUS
  <2> QED
    BY <2>1, NameIs
<1>3. ASSUME NEW k \in 0 .. m
      PROVE  /\ G(k) \in Seq(Field) /\ Len(G(k)) = l + k
             /\ \A i \in 1 .. l : G(k)[i] = fs[i]
             /\ \A i \in 1 .. k : G(k)[l + i] = "s2"
             /\ U(k) \in Seq(Value) /\ Len(U(k)) = l + k
             /\ \A i \in 1 .. l : U(k)[i] = vs[i]
             /\ \A i \in 1 .. k : U(k)[l + i] = names[i]
             /\ W(k) \in Seq(Seq(Byte)) /\ Len(W(k)) = k
             /\ \A i \in 1 .. k : W(k)[i] = Write("s2", names[i])
  <2> DEFINE g == [i \in 1 .. k |-> "s2"]
             u == [i \in 1 .. k |-> names[i]]
             w == W(k)
  <2>1. k \in Nat /\ "s2" \in Field /\ \A i \in 1 .. k : i \in 1 .. m
    BY DEF Field
  <2>2. g \in [1 .. k -> Field] /\ u \in [1 .. k -> Value] /\ w \in [1 .. k -> Seq(Byte)]
    BY <1>2, <2>1
  <2>3. /\ \A i \in 1 .. k : g[i] = "s2" /\ u[i] = names[i] /\ w[i] = Write("s2", names[i])
    OBVIOUS
  <2> HIDE DEF g, u, w, l
  <2>4. g \in Seq(Field) /\ Len(g) = k /\ u \in Seq(Value) /\ Len(u) = k /\ w \in Seq(Seq(Byte)) /\ Len(w) = k
    BY <2>1, <2>2
  <2>5. /\ fs \o g \in Seq(Field) /\ Len(fs \o g) = l + k
        /\ \A j \in 1 .. l + k : (fs \o g)[j] = IF j <= l THEN fs[j] ELSE g[j - l]
    <3>1. /\ fs \o g \in Seq(Field) /\ Len(fs \o g) = Len(fs) + Len(g)
          /\ \A j \in 1 .. Len(fs) + Len(g) :
               (fs \o g)[j] = IF j <= Len(fs) THEN fs[j] ELSE g[j - Len(fs)]
      BY <1>1, <2>4, ConcatProperties
    <3> QED
      BY <1>1, <2>4, <3>1
  <2>6. /\ vs \o u \in Seq(Value) /\ Len(vs \o u) = l + k
        /\ \A j \in 1 .. l + k : (vs \o u)[j] = IF j <= l THEN vs[j] ELSE u[j - l]
    <3>1. /\ vs \o u \in Seq(Value) /\ Len(vs \o u) = Len(vs) + Len(u)
          /\ \A j \in 1 .. Len(vs) + Len(u) :
               (vs \o u)[j] = IF j <= Len(vs) THEN vs[j] ELSE u[j - Len(vs)]
      BY <1>1, <2>4, ConcatProperties
    <3> QED
      BY <1>1, <2>4, <3>1
  <2>7. \A i \in 1 .. l : i \in 1 .. l + k /\ i <= l
    BY <1>1, <2>1
  <2>8. \A i \in 1 .. k : l + i \in 1 .. l + k /\ ~(l + i <= l) /\ (l + i) - l = i
    BY <1>1, <2>1
  <2>9. /\ \A i \in 1 .. l : (fs \o g)[i] = fs[i] /\ (vs \o u)[i] = vs[i]
        /\ \A i \in 1 .. k : (fs \o g)[l + i] = "s2" /\ (vs \o u)[l + i] = names[i]
    <3>1. ASSUME NEW i \in 1 .. l
          PROVE  (fs \o g)[i] = fs[i] /\ (vs \o u)[i] = vs[i]
      BY <2>5, <2>6, <2>7
    <3>2. ASSUME NEW i \in 1 .. k
          PROVE  (fs \o g)[l + i] = "s2" /\ (vs \o u)[l + i] = names[i]
      <4>1. (fs \o g)[l + i] = g[(l + i) - l] /\ (vs \o u)[l + i] = u[(l + i) - l]
        BY <2>5, <2>6, <2>8
      <4>2. (l + i) - l = i
        BY <2>8
      <4>3. (fs \o g)[l + i] = g[i] /\ (vs \o u)[l + i] = u[i]
        BY <4>1, <4>2
      <4> QED
        BY <2>3, <4>3
    <3> QED
      BY <3>1, <3>2
  <2> QED
    BY <2>3, <2>4, <2>5, <2>6, <2>9 DEF g, u, w
<1> HIDE DEF G, U, W, l
<1>4. ASSUME NEW k \in 0 .. m
      PROVE  Fit(G(k), U(k))
  <2> SUFFICES ASSUME NEW i \in 1 .. l + k
               PROVE  Fits(G(k)[i], U(k)[i])
    BY <1>3 DEF Fit
  <2>1. CASE i <= l
    <3>1. i \in 1 .. l
      BY <1>1, <2>1
    <3> QED
      BY <1>1, <1>3, <3>1
  <2>2. CASE ~(i <= l)
    <3> DEFINE j == i - l
    <3>1. j \in 1 .. k /\ j \in 1 .. m /\ i = l + j
      BY <1>1, <2>2
    <3> HIDE DEF j
    <3> QED
      BY <1>2, <1>3, <3>1
  <2> QED
    BY <2>1, <2>2
<1> DEFINE T == {k \in 0 .. m : Encode(G(k), U(k)) = Encode(fs, vs) \o FlattenSeq(W(k))}
<1>5. 0 \in T
  <2>1. 0 \in 0 .. m
    OBVIOUS
  <2>2. G(0) = fs /\ U(0) = vs
    <3>1. /\ G(0) \in Seq(Field) /\ Len(G(0)) = l /\ \A i \in 1 .. l : G(0)[i] = fs[i]
          /\ U(0) \in Seq(Value) /\ Len(U(0)) = l /\ \A i \in 1 .. l : U(0)[i] = vs[i]
      BY <1>1, <1>3, <2>1
    <3> QED
      BY <1>1, <3>1, SeqEqual DEF l
  <2>3. FlattenSeq(W(0)) = <<>>
    <3>1. W(0) \in Seq(Seq(Byte)) /\ Len(W(0)) = 0
      BY <1>3, <2>1
    <3>2. W(0) = <<>>
      BY <3>1
    <3> QED
      BY <3>2, FlattenEmpty
  <2>4. Encode(fs, vs) \o <<>> = Encode(fs, vs)
    BY OffsetsExist, ConcatEmptySeq
  <2> QED
    BY <2>1, <2>2, <2>3, <2>4
<1>6. ASSUME NEW k \in 1 .. m, k - 1 \in T
      PROVE  k \in T
  <2> DEFINE h == k - 1
  <2>1. h \in 0 .. m /\ k \in 0 .. m /\ h + 1 = k /\ h \in Nat /\ l + h \in Nat /\ (l + h) + 1 = l + k
    BY <1>1
  <2>2. Encode(G(h), U(h)) = Encode(fs, vs) \o FlattenSeq(W(h))
    BY <1>6
  <2> HIDE DEF h, T
  <2>3. ASSUME NEW i \in 1 .. l + h
        PROVE  G(k)[i] = G(h)[i] /\ U(k)[i] = U(h)[i]
    <3>1. CASE i <= l
      <4>1. i \in 1 .. l
        BY <1>1, <3>1
      <4> QED
        BY <1>3, <2>1, <4>1
    <3>2. CASE ~(i <= l)
      <4> DEFINE j == i - l
      <4>1. j \in 1 .. k /\ j \in 1 .. h /\ i = l + j
        BY <1>1, <2>1, <3>2
      <4> HIDE DEF j
      <4>2. G(k)[l + j] = "s2" /\ U(k)[l + j] = names[j]
        BY <1>3, <2>1, <4>1
      <4>3. G(h)[l + j] = "s2" /\ U(h)[l + j] = names[j]
        BY <1>3, <2>1, <4>1
      <4> QED
        BY <4>1, <4>2, <4>3
    <3> QED
      BY <3>1, <3>2
  <2>4. G(k)[(l + h) + 1] = "s2" /\ U(k)[(l + h) + 1] = names[k]
    <3>1. k \in 1 .. k
      OBVIOUS
    <3>2. G(k)[l + k] = "s2" /\ U(k)[l + k] = names[k]
      BY <1>3, <2>1, <3>1
    <3> QED
      BY <2>1, <3>2
  <2>5. /\ Encode(G(k), U(k)) = Encode(G(h), U(h)) \o Write("s2", names[k])
    <3> DEFINE n == l + h
    <3>1. n \in Nat /\ Fit(G(h), U(h)) /\ Fit(G(k), U(k)) /\ Len(G(h)) = n /\ Len(G(k)) = n + 1
      <4>1. Fit(G(h), U(h)) /\ Fit(G(k), U(k))
        BY <1>4, <2>1
      <4>2. Len(G(h)) = l + h /\ Len(G(k)) = l + k
        BY <1>3, <2>1
      <4> QED
        BY <2>1, <4>1, <4>2
    <3>2. \A i \in 1 .. n : G(k)[i] = G(h)[i] /\ U(k)[i] = U(h)[i]
      BY <2>3
    <3>3. G(k)[n + 1] = "s2" /\ U(k)[n + 1] = names[k]
      BY <2>4
    <3> HIDE DEF n
    <3>4. Longer(G(h), U(h), G(k), U(k), n, "s2", names[k])
      BY <3>1, <3>2, <3>3 DEF Longer
    <3> QED
      BY <3>1, <3>4, EncodeMore
  <2>6. /\ FlattenSeq(W(k)) = FlattenSeq(W(h)) \o Write("s2", names[k])
        /\ FlattenSeq(W(h)) \in Seq(Byte)
    <3>1. /\ W(h) \in Seq(Seq(Byte)) /\ Len(W(h)) = h /\ W(k) \in Seq(Seq(Byte)) /\ Len(W(k)) = h + 1
      BY <1>3, <2>1
    <3>2. ASSUME NEW i \in 1 .. h
          PROVE  W(k)[i] = W(h)[i]
      <4>1. i \in 1 .. k
        BY <2>1
      <4> QED
        BY <1>3, <2>1, <4>1
    <3>3. W(k)[h + 1] = Write("s2", names[k])
      <4>1. k \in 1 .. k
        OBVIOUS
      <4> QED
        BY <1>3, <2>1, <4>1
    <3>4. /\ FlattenSeq(W(k)) = FlattenSeq(W(h)) \o W(k)[h + 1] /\ FlattenSeq(W(h)) \in Seq(Byte)
      BY <2>1, <3>1, <3>2, FlattenMore
    <3> QED
      BY <3>3, <3>4
  <2>7. Encode(fs, vs) \in Seq(Byte) /\ Write("s2", names[k]) \in Seq(Byte)
    BY <1>2, OffsetsExist
  <2> DEFINE e == Encode(fs, vs)
             f == FlattenSeq(W(h))
             x == Write("s2", names[k])
  <2>8. (e \o f) \o x = e \o (f \o x)
    <3>1. e \in Seq(Byte) /\ f \in Seq(Byte) /\ x \in Seq(Byte)
      BY <2>6, <2>7
    <3> HIDE DEF e, f, x
    <3> QED
      BY <3>1, ConcatAssociative
  <2>9. Encode(G(k), U(k)) = Encode(fs, vs) \o FlattenSeq(W(k))
    BY <2>2, <2>5, <2>6, <2>8
  <2> QED
    BY <2>1, <2>9 DEF T
<1>7. m \in T
  <2> HIDE DEF T
  <2>1. \A k \in 0 .. m : k \in T
    BY <1>5, <1>6, Climb
  <2> QED
    BY <2>1
<1>8. U(m) = vs \o names /\ G(m) = fs \o [i \in 1 .. m |-> "s2"]
      /\ W(m) = [i \in 1 .. m |-> Write("s2", names[i])]
  <2>1. [i \in 1 .. m |-> names[i]] = names
    OBVIOUS
  <2> QED
    BY <2>1 DEF U, G, W
<1>9. m \in 0 .. m
  OBVIOUS
<1>10. /\ Fit(G(m), U(m)) /\ Encode(G(m), U(m)) = Encode(fs, vs) \o FlattenSeq(W(m))
       /\ Len(U(m)) = l + m /\ \A i \in 1 .. l : U(m)[i] = vs[i]
       /\ \A i \in 1 .. m : U(m)[l + i] = names[i]
  BY <1>3, <1>4, <1>7, <1>9
<1> QED
  BY <1>8, <1>10 DEF l, NamesBehind

LEMMA HandshakeReads ==
  ASSUME NEW id \in Countable, NEW m \in 0 .. 9, NEW plugins \in [1 .. m -> Countable]
  PROVE  /\ encodeHandshake(id, plugins) \in Seq(Byte)
         /\ \A d : Heads(d, encodeHandshake(id, plugins)) =>
              parse_handshake(d) = IF Len(d) < Len(encodeHandshake(id, plugins)) THEN Refused
                                   ELSE [id |-> id, plugins |-> plugins]
<1> DEFINE fs == HandshakeFields
           vs == <<1, 1, id, m>>
           gs == fs \o [i \in 1 .. m |-> "s2"]
           us == vs \o plugins
           e == Encode(fs, vs)
           f == FlattenSeq([i \in 1 .. m |-> Write("s2", plugins[i])])
           w == encodeHandshake(id, plugins)
<1>1. m \in Nat /\ Len(plugins) = m /\ DOMAIN plugins = 1 .. m /\ plugins \in Seq(Countable)
  OBVIOUS
<1>2. /\ Fits("1", 1) /\ Fits("1", m) /\ Fits("s2", id) /\ 1 \in Value /\ m \in Value /\ id \in Value
  <2>1. 1 \in Nat /\ 1 < Base /\ m < Base
    BY Sizes
  <2> QED
    BY <1>1, <2>1, NumberFits, NameIs
<1>3. Fit(fs, vs)
  <2>1. "1" \in Field /\ "s2" \in Field
    BY DEF Field
  <2> QED
    BY <1>2, <2>1, FitFour DEF HandshakeFields
<1>4. Len(fs) = 4 /\ vs[3] = id /\ vs[4] = m
  BY DEF HandshakeFields
<1>5. w = e \o f
  <2>1. [i \in DOMAIN plugins |-> Encode(<<"s2">>, <<plugins[i]>>)] = [i \in 1 .. m |-> Write("s2", plugins[i])]
    <3>1. \A i \in 1 .. m : Encode(<<"s2">>, <<plugins[i]>>) = Write("s2", plugins[i])
      BY NameIs
    <3> QED
      BY <1>1, <3>1
  <2> QED
    BY <1>1, <2>1 DEF encodeHandshake, HandshakeFields
<1>6. /\ Fit(gs, us) /\ Encode(gs, us) = e \o f /\ Len(us) = 4 + m
      /\ \A i \in 1 .. 4 : us[i] = vs[i]
      /\ \A i \in 1 .. m : us[4 + i] = plugins[i]
  <2> HIDE DEF fs, vs
  <2>1. NamesBehind(fs, vs, m, plugins)
    BY <1>1, <1>3, EncodeNames
  <2> QED
    BY <1>4, <2>1 DEF NamesBehind
<1>7. us[3] = id
  BY <1>4, <1>6
<1>8. e \in Seq(Byte) /\ w \in Seq(Byte) /\ w = Encode(gs, us) /\ us \in Seq(Value) /\ f \in Seq(Byte)
  <2>1. e \in Seq(Byte)
    BY <1>3, OffsetsExist
  <2>2. Encode(gs, us) \in Seq(Byte)
    BY <1>6, OffsetsExist
  <2>3. f \in Seq(Byte)
    <3> DEFINE p == [i \in 1 .. m |-> Write("s2", plugins[i])]
    <3>1. p \in Seq(Seq(Byte))
      <4>1. \A i \in 1 .. m : Write("s2", plugins[i]) \in Seq(Byte)
        BY NameIs
      <4>2. p \in [1 .. m -> Seq(Byte)]
        BY <4>1
      <4> HIDE DEF p
      <4> QED
        BY <1>1, <4>2
    <3>2. Len(p) \in Nat
      BY <3>1
    <3> HIDE DEF p
    <3>3. PICK h : Parts(h, p) /\ FlattenSeq(p) = h[Len(p)]
      BY <3>1, FlattenParts
    <3>4. FlattenSeq(p) \in Seq(Byte)
      BY <3>2, <3>3 DEF Parts
    <3> QED
      BY <3>4 DEF p
  <2> QED
    BY <1>5, <1>6, <2>1, <2>2, <2>3 DEF Fit
<1>9. SubSeq(us, 5, Len(us)) = plugins
  <2> DEFINE s == SubSeq(us, 5, Len(us))
  <2>1. Len(s) = m /\ \A i \in 1 .. m : s[i] = us[4 + i]
    <3> HIDE DEF us
    <3> QED
      BY <1>1, <1>6, <1>8
  <2>2. s \in Seq(Value)
    <3> HIDE DEF us
    <3>1. \A i \in 5 .. Len(us) : us[i] \in Value
      BY <1>8
    <3> QED
      BY <1>1, <1>6, <3>1
  <2>3. plugins \in Seq(Value)
    <3>1. \A i \in 1 .. m : plugins[i] \in Value
      BY NameIs
    <3>2. plugins \in [1 .. m -> Value]
      BY <3>1
    <3> QED
      BY <1>1, <3>2
  <2> HIDE DEF s
  <2>4. \A i \in 1 .. m : s[i] = plugins[i]
    BY <1>6, <2>1
  <2>5. s = plugins
    BY <1>1, <2>1, <2>2, <2>3, <2>4, SeqEqual
  <2> QED
    BY <2>5 DEF s
<1>10. vs # Refused /\ us # Refused /\ vs \in Seq(Value)
  <2>1. vs \in Seq(Value)
    BY <1>3 DEF Fit
  <2> HIDE DEF vs, us
  <2> QED
    BY <1>8, <2>1, RefusedAssumption DEF Value
<1> HIDE DEF vs, gs, us, e, f, w
<1>11. ASSUME NEW d, Heads(d, w)
       PROVE  parse_handshake(d) = IF Len(d) < Len(w) THEN Refused
                                   ELSE [id |-> id, plugins |-> plugins]
  <2>1. d \in Seq(Byte) /\ Len(d) \in Nat /\ Len(w) \in Nat /\ Len(e) \in Nat
    BY <1>8, <1>11 DEF Heads
  <2>2. Len(w) = Len(e) + Len(f) /\ Len(f) \in Nat
    <3>1. Len(e \o f) = Len(e) + Len(f) /\ Len(f) \in Nat
      BY <1>8, ConcatAgrees
    <3> QED
      BY <1>5, <3>1
  <2>3. Agrees(d, 0, e)
    <3>1. Agrees(w, 0, e) /\ 0 \in Nat
      BY <1>5, <1>8, ConcatAgrees
    <3> QED
      BY <1>8, <1>11, <3>1, HeadAgrees
  <2>4. Agrees(d, 0, w)
    <3>1. Agrees(w, 0, w) /\ 0 \in Nat
      BY <1>8, Whole
    <3> QED
      BY <1>8, <1>11, <3>1, HeadAgrees
  <2>5. Read(fs, d) = IF Len(e) <= Len(d) THEN vs ELSE Refused
    BY <1>3, <2>1, <2>3, ReadsBack DEF e
  <2>6. Read(gs, d) = IF Len(w) <= Len(d) THEN us ELSE Refused
    BY <1>6, <1>8, <2>1, <2>4, ReadsBack
  <2> DEFINE head == Read(fs, d)
             all == Read(fs \o [i \in 1 .. head[4] |-> "s2"], d)
  <2>7. parse_handshake(d) = IF head = Refused \/ all = Refused THEN Refused
                             ELSE [id |-> head[3], plugins |-> SubSeq(all, 5, Len(all))]
    BY DEF parse_handshake, HandshakeFields
  <2>8. CASE Len(e) <= Len(d)
    <3>1. head = vs
      BY <2>5, <2>8
    <3>2. all = Read(gs, d)
      BY <1>4, <3>1 DEF gs
    <3> HIDE DEF head, all
    <3>3. CASE Len(w) <= Len(d)
      <4>1. all = us /\ ~(Len(d) < Len(w))
        BY <2>1, <2>6, <3>2, <3>3
      <4> QED
        BY <1>4, <1>9, <1>10, <2>7, <3>1, <4>1
    <3>4. CASE ~(Len(w) <= Len(d))
      <4>1. all = Refused /\ Len(d) < Len(w)
        BY <2>1, <2>6, <3>2, <3>4
      <4> QED
        BY <2>7, <4>1
    <3> QED
      BY <3>3, <3>4
  <2>9. CASE ~(Len(e) <= Len(d))
    <3>1. head = Refused
      BY <2>5, <2>9
    <3>2. Len(d) < Len(w)
      BY <2>1, <2>2, <2>9
    <3> HIDE DEF head, all
    <3> QED
      BY <2>7, <3>1, <3>2
  <2> QED
    BY <2>8, <2>9
<1> QED
  BY <1>8, <1>11 DEF w

-----------------------------------------------------------------------------
(* Events.                                                                   *)

EventFields == <<"1", "4", "s2", "1", "8", "8", "s4", "4">>

\* What is in front of the payload, with its length at the end.
EventHead(topic, headers, l) == Encode(EventFields, <<Event0xFF, 0, topic, 1, 1, 1, headers, l>>)

LEMMA EventIs ==
  ASSUME NEW topic \in Countable, NEW headers \in Countable, NEW payload \in Payload
  PROVE  /\ Fit(EventFields, <<Event0xFF, 0, topic, 1, 1, 1, headers, Len(payload)>>)
         /\ encodePubSubEvent(topic, headers, payload)
              = EventHead(topic, headers, Len(payload)) \o payload
         /\ payload \in Seq(Byte) /\ EventHead(topic, headers, Len(payload)) \in Seq(Byte)
<1> DEFINE l == Len(payload)
           fs == <<"1", "4", "s2", "1", "8", "8", "s4">>
           vs == <<Event0xFF, 0, topic, 1, 1, 1, headers>>
           gs == <<"1", "4", "s2", "1", "8", "8", "s4", "s4">>
           us == <<Event0xFF, 0, topic, 1, 1, 1, headers, payload>>
           xs == <<Event0xFF, 0, topic, 1, 1, 1, headers, l>>
<1>1. /\ Event0xFF \in Value /\ 0 \in Value /\ 1 \in Value /\ topic \in Value /\ headers \in Value
      /\ payload \in Value /\ l \in Value /\ l \in Nat /\ payload \in Seq(Byte)
  <2>1. Event0xFF \in Nat /\ 0 \in Nat /\ 1 \in Nat
    BY Sizes DEF Event0xFF
  <2>2. Text(payload, Long)
    BY PayloadIs
  <2> QED
    BY <2>1, <2>2, NumberFits, NameIs, TextFits DEF Text
<1>2. /\ Fits("1", Event0xFF) /\ Fits("4", 0) /\ Fits("s2", topic) /\ Fits("1", 1) /\ Fits("8", 1)
      /\ Fits("s4", headers) /\ Fits("s4", payload) /\ Fits("4", l)
  <2>1. Event0xFF \in Nat /\ Event0xFF < Base /\ 0 \in Nat /\ 0 < Long /\ 1 \in Nat /\ 1 < Base /\ 1 < Long
    BY Sizes DEF Event0xFF
  <2>2. Text(payload, Long) /\ Text(headers, Long)
    BY PayloadIs, StringIs, TextFits
  <2> QED
    BY <2>1, <2>2, NumberFits, NameIs, TextFits
<1>3. \A i \in 1 .. 8 : i = 1 \/ i = 2 \/ i = 3 \/ i = 4 \/ i = 5 \/ i = 6 \/ i = 7 \/ i = 8
  OBVIOUS
<1>4. \A i \in 1 .. 7 : i = 1 \/ i = 2 \/ i = 3 \/ i = 4 \/ i = 5 \/ i = 6 \/ i = 7
  OBVIOUS
<1>5. Fit(fs, vs)
  <2>1. fs \in Seq(Field) /\ Len(fs) = 7
    BY DEF Field
  <2>2. vs \in Seq(Value) /\ Len(vs) = 7
    BY <1>1
  <2>3. \A i \in 1 .. 7 : Fits(fs[i], vs[i])
    BY <1>2, <1>4
  <2> QED
    BY <2>1, <2>2, <2>3 DEF Fit
<1>6. Fit(gs, us)
  <2>1. gs \in Seq(Field) /\ Len(gs) = 8
    BY DEF Field
  <2>2. us \in Seq(Value) /\ Len(us) = 8
    BY <1>1
  <2>3. \A i \in 1 .. 8 : Fits(gs[i], us[i])
    BY <1>2, <1>3
  <2> QED
    BY <2>1, <2>2, <2>3 DEF Fit
<1>7. Fit(EventFields, xs)
  <2>1. EventFields \in Seq(Field) /\ Len(EventFields) = 8
    BY DEF Field, EventFields
  <2>2. xs \in Seq(Value) /\ Len(xs) = 8
    BY <1>1
  <2>3. \A i \in 1 .. 8 : Fits(EventFields[i], xs[i])
    BY <1>2, <1>3 DEF EventFields
  <2> QED
    BY <2>1, <2>2, <2>3 DEF Fit
<1>8. Longer(fs, vs, gs, us, 7, "s4", payload) /\ 7 \in Nat
  <2>1. Len(fs) = 7 /\ Len(gs) = 7 + 1 /\ gs[7 + 1] = "s4" /\ us[7 + 1] = payload
    OBVIOUS
  <2>2. \A i \in 1 .. 7 : gs[i] = fs[i] /\ us[i] = vs[i]
    BY <1>4
  <2> QED
    BY <2>1, <2>2 DEF Longer
<1>9. Longer(fs, vs, EventFields, xs, 7, "4", l)
  <2>1. Len(fs) = 7 /\ Len(EventFields) = 7 + 1 /\ EventFields[7 + 1] = "4" /\ xs[7 + 1] = l
    BY DEF EventFields
  <2>2. \A i \in 1 .. 7 : EventFields[i] = fs[i] /\ xs[i] = vs[i]
    BY <1>4 DEF EventFields
  <2> QED
    BY <2>1, <2>2 DEF Longer
<1>10. /\ encodePubSubEvent(topic, headers, payload) = Encode(gs, us)
       /\ EventHead(topic, headers, l) = Encode(EventFields, xs)
  BY DEF encodePubSubEvent, EventHead
<1>11. Write("s4", payload) = BigEndian(l, 4) \o payload /\ Write("4", l) = BigEndian(l, 4)
       /\ BigEndian(l, 4) \in Seq(Byte)
  BY <1>1, BigEndianIs, Widths DEF Write
<1> DEFINE b == BigEndian(l, 4)
           e == Encode(fs, vs)
<1> HIDE DEF fs, vs, gs, us, xs
<1>12. Encode(gs, us) = e \o Write("s4", payload) /\ Encode(EventFields, xs) = e \o Write("4", l)
       /\ e \in Seq(Byte)
  BY <1>5, <1>6, <1>7, <1>8, <1>9, EncodeMore
<1> HIDE DEF e, b, l
<1>13. e \o (b \o payload) = (e \o b) \o payload /\ e \o b \in Seq(Byte)
  <2>1. b \in Seq(Byte)
    BY <1>11 DEF b
  <2>2. e \o b \in Seq(Byte)
    BY <1>12, <2>1, ConcatProperties
  <2>a. e \in Seq(Byte) /\ b \in Seq(Byte) /\ payload \in Seq(Byte)
    BY <1>1, <1>12, <2>1
  <2>3. e \o (b \o payload) = (e \o b) \o payload
    BY <2>a, ConcatAssociative
  <2> QED
    BY <2>2, <2>3
<1>14. Encode(gs, us) = EventHead(topic, headers, l) \o payload /\ EventHead(topic, headers, l) \in Seq(Byte)
  BY <1>10, <1>11, <1>12, <1>13 DEF b
<1> QED
  BY <1>1, <1>7, <1>10, <1>14 DEF xs, l

\* The head of an event: how long it is, what its first byte is and where its topic is.
LEMMA EventHeadIs ==
  ASSUME NEW topic \in Countable, NEW headers \in Countable, NEW payload \in Payload
  PROVE  LET e == EventHead(topic, headers, Len(payload))
         IN /\ Len(e) = 32 + Len(topic) + Len(headers)
            /\ e[1] = Event0xFF /\ Agrees(e, 5, Write("s2", topic))
<1> DEFINE l == Len(payload)
           e == EventHead(topic, headers, l)
           vs == <<Event0xFF, 0, topic, 1, 1, 1, headers, l>>
           W(i) == Write(EventFields[i], vs[i])
           x == Len(topic)
           y == Len(headers)
<1>1. Fit(EventFields, vs) /\ e \in Seq(Byte)
  BY EventIs
<1>2. e = Encode(EventFields, vs)
  BY DEF EventHead
<1>3. PICK o : Offsets(o, EventFields, vs)
  BY <1>1, OffsetsExist
<1>4. /\ Len(EventFields) = 8 /\ EventFields[1] = "1" /\ EventFields[2] = "4" /\ EventFields[3] = "s2"
      /\ EventFields[4] = "1" /\ EventFields[5] = "8" /\ EventFields[6] = "8" /\ EventFields[7] = "s4"
      /\ EventFields[8] = "4"
  BY DEF EventFields
<1>5. /\ vs[1] = Event0xFF /\ vs[2] = 0 /\ vs[3] = topic /\ vs[4] = 1 /\ vs[5] = 1 /\ vs[6] = 1
      /\ vs[7] = headers /\ vs[8] = l
  OBVIOUS
<1>6. /\ x \in Nat /\ y \in Nat /\ l \in Nat
  BY NameIs, EventIs
<1> HIDE DEF vs, e, l
<1>7. /\ o[0] = 0 /\ o[8] = Len(e)
      /\ \A i \in 1 .. 8 : o[i] = o[i - 1] + Len(W(i)) /\ Agrees(e, o[i - 1], W(i))
  BY <1>2, <1>3, <1>4 DEF Offsets
<1>8. /\ "1" \notin Strings /\ "4" \notin Strings /\ "8" \notin Strings /\ "s2" \in Strings
      /\ "s4" \in Strings
  BY DEF Strings
<1>9. ASSUME NEW i \in 1 .. 8
      PROVE  EventFields[i] \in Field /\ Fits(EventFields[i], vs[i])
  <2>1. i \in 1 .. Len(EventFields)
    BY <1>4
  <2> QED
    BY <1>1, <2>1 DEF Fit
<1>10. ASSUME NEW i \in 1 .. 8
       PROVE  /\ EventFields[i] \notin Strings => Len(W(i)) = Width(EventFields[i])
              /\ EventFields[i] \in Strings => Len(W(i)) = Width(EventFields[i]) + Len(vs[i])
  BY <1>9, WriteIs
<1>11. Width("1") = 1 /\ Width("4") = 4 /\ Width("8") = 8 /\ Width("s2") = 2 /\ Width("s4") = 4
  BY Widths
<1>12. /\ 1 \in 1 .. 8 /\ 2 \in 1 .. 8 /\ 3 \in 1 .. 8 /\ 4 \in 1 .. 8 /\ 5 \in 1 .. 8 /\ 6 \in 1 .. 8
       /\ 7 \in 1 .. 8 /\ 8 \in 1 .. 8
       /\ 1 - 1 = 0 /\ 2 - 1 = 1 /\ 3 - 1 = 2 /\ 4 - 1 = 3 /\ 5 - 1 = 4 /\ 6 - 1 = 5 /\ 7 - 1 = 6 /\ 8 - 1 = 7
  OBVIOUS
<1> HIDE DEF W
<1>13. /\ Len(W(1)) = 1 /\ Len(W(2)) = 4 /\ Len(W(3)) = 2 + x /\ Len(W(4)) = 1 /\ Len(W(5)) = 8
       /\ Len(W(6)) = 8 /\ Len(W(7)) = 4 + y /\ Len(W(8)) = 4
  BY <1>4, <1>5, <1>8, <1>10, <1>11, <1>12
<1> HIDE DEF x, y
<1>14. /\ o[1] = o[0] + Len(W(1)) /\ o[2] = o[1] + Len(W(2)) /\ o[3] = o[2] + Len(W(3))
       /\ o[4] = o[3] + Len(W(4)) /\ o[5] = o[4] + Len(W(5)) /\ o[6] = o[5] + Len(W(6))
       /\ o[7] = o[6] + Len(W(7)) /\ o[8] = o[7] + Len(W(8))
  BY <1>7, <1>12
<1>15. /\ o[1] = 0 + 1 /\ o[2] = o[1] + 4 /\ o[3] = o[2] + (2 + x)
       /\ o[4] = o[3] + 1 /\ o[5] = o[4] + 8 /\ o[6] = o[5] + 8
       /\ o[7] = o[6] + (4 + y) /\ Len(e) = o[7] + 4
  BY <1>7, <1>13, <1>14, Zenon
<1>16. o[1] = 1 /\ o[2] = 5
  BY <1>15
<1>17. o[3] = 7 + x /\ o[4] = 8 + x
  BY <1>6, <1>15, <1>16
<1>18. o[5] = 16 + x /\ o[6] = 24 + x
  BY <1>6, <1>15, <1>17
<1>19. o[7] = 28 + x + y
  BY <1>6, <1>15, <1>18
<1>20. Len(e) = 32 + x + y
  BY <1>6, <1>15, <1>19
<1>21. Agrees(e, o[0], W(1)) /\ Agrees(e, o[2], W(3))
  BY <1>7, <1>12
<1>22. W(1) = BigEndian(Event0xFF, 1) /\ W(3) = Write("s2", topic)
  BY <1>4, <1>5, <1>11, <1>8 DEF W, Write, Strings
<1>23. e[1] = Event0xFF
  <2> DEFINE b == BigEndian(Event0xFF, 1)
  <2>1. b[1] = Event0xFF /\ Len(b) = 1
    <3>1. Event0xFF \in Byte
      BY Sizes DEF Event0xFF, Byte
    <3> QED
      BY <3>1, OneByte
  <2>2. Agrees(e, 0, b)
    BY <1>7, <1>21, <1>22
  <2> HIDE DEF b
  <2>3. 1 \in 1 .. Len(b) /\ 0 + 1 <= Len(e) /\ 0 + 1 = 1
    <3>1. 1 \in 1 .. Len(b)
      BY <2>1
    <3>2. 0 + 1 <= Len(e) /\ 0 + 1 = 1
      BY <1>6, <1>20
    <3> QED
      BY <3>1, <3>2
  <2>4. e[0 + 1] = b[1]
    BY <2>2, <2>3 DEF Agrees
  <2> QED
    BY <2>1, <2>3, <2>4
<1>24. Agrees(e, 5, Write("s2", topic))
  BY <1>16, <1>21, <1>22
<1> QED
  BY <1>20, <1>23, <1>24 DEF e, l, x, y

\* Whoever takes the head of an event for an answer notices.
LEMMA EventNoAnswer ==
  ASSUME NEW topic \in Countable, topic # <<>>, NEW headers \in Countable, NEW payload \in Payload,
         NEW d, Heads(d, encodePubSubEvent(topic, headers, payload))
  PROVE  /\ decode_range_response_binary(d) = decode_response(d)
         /\ \/ decode_response(d) = Refused
            \/ Len(d) > Short + 8 /\ decode_response(d).status = Event0xFF
<1> DEFINE e == EventHead(topic, headers, Len(payload))
           w == encodePubSubEvent(topic, headers, payload)
           x == Len(topic)
           n == Number(d, 5, 4)
<1>1. w = e \o payload /\ payload \in Seq(Byte) /\ e \in Seq(Byte)
  BY EventIs
<1>2. Len(e) = 32 + x + Len(headers) /\ e[1] = Event0xFF /\ Agrees(e, 5, Write("s2", topic))
  BY EventHeadIs
<1>3. x \in Nat /\ x >= 1 /\ x < Short /\ Len(headers) \in Nat
  <2>1. x \in Nat /\ x < Short /\ Len(headers) \in Nat
    BY NameIs
  <2>2. topic \in Seq(1 .. Base - 1)
    BY StringIs
  <2>3. x # 0
    BY <2>2
  <2> HIDE DEF x
  <2> QED
    BY <2>1, <2>3
<1> HIDE DEF e, w, x
<1>4. /\ d \in Seq(Byte) /\ Len(d) \in Nat /\ Len(d) <= Len(w) /\ \A j \in 1 .. Len(d) : d[j] = w[j]
  BY DEF Heads, w
<1>5. /\ \A j \in 1 .. Len(e) : w[j] = e[j]
  <2>1. Len(e) \in Nat
    BY <1>1
  <2>2. \A j \in 1 .. Len(e) : (e \o payload)[j] = e[j]
    BY <1>1, <2>1, ConcatIs
  <2> QED
    BY <1>1, <2>2
<1>6. ASSUME ~(Len(d) < 9)
      PROVE  d[1] = Event0xFF /\ n >= Short /\ n \in Nat
  <2>1. \A j \in 1 .. 9 : d[j] = e[j] /\ d[j] \in Nat
    <3>1. \A j \in 1 .. 9 : j \in 1 .. Len(d) /\ j \in 1 .. Len(e)
      BY <1>2, <1>3, <1>4, <1>6
    <3>2. \A j \in 1 .. 9 : d[j] \in Byte
      BY <1>4, <3>1
    <3>3. ASSUME NEW j \in 1 .. 9
          PROVE  d[j] = e[j]
      <4>1. d[j] = w[j]
        BY <1>4, <3>1
      <4>2. w[j] = e[j]
        BY <1>5, <3>1
      <4> QED
        BY <4>1, <4>2
    <3>4. Byte \subseteq Nat
      BY Sizes DEF Byte
    <3> QED
      BY <3>2, <3>3, <3>4
  <2> DEFINE s == Write("s2", topic)
             b == BigEndian(x, 2)
  <2>2. Len(s) = 2 + x /\ \A j \in 1 .. 2 : s[j] = b[j]
    <3>1. "s2" \in Field /\ "s2" \in Strings /\ Width("s2") = 2
      BY Widths DEF Field, Strings
    <3>2. Fits("s2", topic)
      BY NameIs
    <3>3. /\ Len(Write("s2", topic)) = 2 + Len(topic)
          /\ \A j \in 1 .. 2 : Write("s2", topic)[j] = BigEndian(Len(topic), 2)[j]
      BY <3>1, <3>2, WriteIs
    <3> QED
      BY <3>3, Zenon DEF x
  <2>3. Says(d, 5, 2, x)
    <3> SUFFICES ASSUME NEW j \in 1 .. 2
                 PROVE  d[5 + j] = b[j]
      BY DEF Says
    <3> HIDE DEF s, b
    <3>1. j \in 1 .. Len(s) /\ 5 + j <= Len(e) /\ 5 + j \in 1 .. 9
      BY <1>2, <1>3, <2>2
    <3>2. e[5 + j] = s[j]
      BY <1>2, <3>1 DEF Agrees, s
    <3>3. d[5 + j] = e[5 + j]
      BY <2>1, <3>1
    <3> QED
      BY <2>2, <3>2, <3>3
  <2>4. Number(d, 5, 2) = x
    <3>1. 2 \in {1, 2, 4, 8} /\ 5 \in Nat /\ Bound(2) = Short
      BY Widths
    <3> QED
      BY <1>3, <2>3, <3>1, NumberOf
  <2>5. Number(d, 5, 2) = d[5 + 1] * Base + d[5 + 2]
    <3>1. \A i \in 1 .. 2 : d[5 + i] \in Nat
      BY <2>1
    <3> QED
      BY <3>1, NumberOfTwo
  <2>6. n >= (d[5 + 1] * Base + d[5 + 2]) * Short /\ n \in Nat
    <3>1. \A i \in 1 .. 4 : d[5 + i] \in Nat
      BY <2>1
    <3> QED
      BY <3>1, NumberOfFour
  <2>7. n >= x * Short
    BY <2>4, <2>5, <2>6
  <2>8. x * Short >= Short
    BY <1>3, Sizes
  <2>9. x * Short \in Nat /\ Short \in Nat
    BY <1>3, Sizes
  <2> DEFINE m == x * Short
  <2>10. n >= m /\ m >= Short /\ m \in Nat /\ Short \in Nat
    BY <2>7, <2>8, <2>9
  <2> HIDE DEF m, n
  <2>11. n >= Short
    BY <2>6, <2>10
  <2>12. d[1] = Event0xFF
    <3>1. 1 \in 1 .. 9
      OBVIOUS
    <3> QED
      BY <1>2, <2>1, <3>1, Zenon
  <2> QED
    BY <2>6, <2>11, <2>12
<1>7. decode_response(d) = IF Len(d) < 9 \/ Len(d) < 9 + n THEN Refused
                           ELSE [status |-> d[1], value |-> Bytes(d, 9, n)]
  BY DEF decode_response
<1>8. decode_range_response_binary(d) = decode_response(d)
  BY DEF decode_response, decode_range_response_binary
<1>9. ASSUME ~(Len(d) < 9 \/ Len(d) < 9 + n)
      PROVE  Len(d) > Short + 8 /\ decode_response(d).status = Event0xFF
  <2>1. d[1] = Event0xFF /\ n >= Short /\ n \in Nat
    BY <1>6, <1>9
  <2> HIDE DEF n
  <2>2. Len(d) > Short + 8
    BY <1>4, <1>9, <2>1, Sizes
  <2> QED
    BY <1>7, <1>9, <2>1, <2>2
<1> HIDE DEF n
<1> QED
  BY <1>7, <1>8, <1>9

\* Whoever waits for it reads it, and of its head at most the payload is missing.
LEMMA EventReads ==
  ASSUME NEW topic \in Countable, NEW headers \in Countable, NEW payload \in Payload,
         NEW d, Heads(d, encodePubSubEvent(topic, headers, payload))
  PROVE  LET w == encodePubSubEvent(topic, headers, payload)
         IN /\ Len(d) < Len(w) =>
                 process_pubsub_event(d) \in {Refused, [topic |-> topic, data |-> <<>>]}
            /\ Len(d) = Len(w) => process_pubsub_event(d) = [topic |-> topic, data |-> payload]
<1> DEFINE l == Len(payload)
           e == EventHead(topic, headers, l)
           w == encodePubSubEvent(topic, headers, payload)
           vs == <<Event0xFF, 0, topic, 1, 1, 1, headers, l>>
           head == Read(EventFields, d)
           at == 5 + 2 + Len(head[3]) + 17 + 4 + Len(head[7]) + 4
<1>1. w = e \o payload /\ payload \in Seq(Byte) /\ e \in Seq(Byte) /\ Fit(EventFields, vs)
  BY EventIs
<1>2. Len(e) = 32 + Len(topic) + Len(headers) /\ Len(topic) \in Nat /\ Len(headers) \in Nat /\ l \in Nat
  BY <1>1, EventHeadIs, NameIs
<1>3. e = Encode(EventFields, vs) /\ vs[3] = topic /\ vs[7] = headers /\ vs[8] = l
  BY DEF EventHead
<1>4. vs # Refused
  <2>1. vs \in Seq(Value)
    BY <1>1 DEF Fit
  <2> HIDE DEF vs
  <2> QED
    BY <2>1, RefusedAssumption DEF Value
<1>5. process_pubsub_event(d) =
        IF head = Refused THEN Refused
        ELSE [topic |-> head[3],
              data |-> IF at + head[8] <= Len(d) THEN Bytes(d, at, head[8]) ELSE <<>>]
  BY DEF process_pubsub_event, EventFields
<1> HIDE DEF e, w, vs, l
<1>6. /\ Len(w) = Len(e) + l /\ Agrees(w, 0, e) /\ Agrees(w, Len(e), payload) /\ w \in Seq(Byte)
  BY <1>1, ConcatAgrees DEF l
<1>7. d \in Seq(Byte) /\ Len(d) \in Nat /\ Len(d) <= Len(w) /\ Len(e) \in Nat /\ Len(w) \in Nat
  BY <1>1, <1>6 DEF Heads, w
<1>8. Agrees(d, 0, e) /\ Agrees(d, Len(e), payload)
  <2>1. Heads(d, w) /\ 0 \in Nat
    BY DEF w
  <2> QED
    BY <1>1, <1>6, <1>7, <2>1, HeadAgrees
<1>9. head = IF Len(e) <= Len(d) THEN vs ELSE Refused
  BY <1>1, <1>3, <1>7, <1>8, ReadsBack
<1>10. CASE ~(Len(e) <= Len(d))
  <2>1. head = Refused
    BY <1>9, <1>10
  <2>2. process_pubsub_event(d) = Refused /\ Len(d) # Len(w)
    <3>1. process_pubsub_event(d) = Refused
      BY <1>5, <2>1
    <3>2. Len(d) # Len(w)
      BY <1>2, <1>6, <1>7, <1>10
    <3> QED
      BY <3>1, <3>2
  <2> QED
    BY <2>2 DEF w
<1>11. CASE Len(e) <= Len(d)
  <2>1. head = vs
    BY <1>9, <1>11
  <2> HIDE DEF head
  <2>2. at = Len(e) /\ head[3] = topic /\ head[8] = l /\ head # Refused
    <3>1. head[3] = topic /\ head[7] = headers /\ head[8] = l /\ head # Refused
      BY <1>3, <1>4, <2>1
    <3>2. 5 + 2 + Len(topic) + 17 + 4 + Len(headers) + 4 = 32 + Len(topic) + Len(headers)
      BY <1>2
    <3> QED
      BY <1>2, <3>1, <3>2
  <2> HIDE DEF at
  <2>3. process_pubsub_event(d) =
          [topic |-> topic,
           data |-> IF Len(e) + l <= Len(d) THEN Bytes(d, Len(e), l) ELSE <<>>]
    BY <1>5, <2>2
  <2>4. CASE Len(d) < Len(w)
    <3>1. ~(Len(e) + l <= Len(d)) /\ Len(d) # Len(w)
      BY <1>2, <1>6, <1>7, <2>4
    <3>2. process_pubsub_event(d) = [topic |-> topic, data |-> <<>>]
      BY <2>3, <3>1
    <3> QED
      BY <3>1, <3>2 DEF w
  <2>5. CASE ~(Len(d) < Len(w))
    <3>1. Len(e) + l <= Len(d)
      BY <1>2, <1>6, <1>7, <2>5
    <3>2. Bytes(d, Len(e), l) = payload
      BY <1>1, <1>7, <1>8, <3>1, BytesAgree DEF l
    <3>3. process_pubsub_event(d) = [topic |-> topic, data |-> payload]
      BY <2>3, <3>1, <3>2
    <3> QED
      BY <2>5, <3>3 DEF w
  <2> QED
    BY <2>4, <2>5
<1> QED
  BY <1>10, <1>11

-----------------------------------------------------------------------------
(* Items.                                                                    *)

\* The pair that stands at a place is read there.
LEMMA PairReads ==
  ASSUME NEW a \in Countable, NEW b \in Countable, NEW d \in Seq(Byte), NEW at \in Nat,
         Agrees(d, at, Encode(<<"s2", "s4">>, <<a, b>>)),
         at + Len(Encode(<<"s2", "s4">>, <<a, b>>)) <= Len(d)
  PROVE  Read(<<"s2", "s4">>, SubSeq(d, at + 1, Len(d))) = <<a, b>>
<1> DEFINE fs == <<"s2", "s4">>
           vs == <<a, b>>
           w == Encode(fs, vs)
           r == SubSeq(d, at + 1, Len(d))
<1>1. Fit(fs, vs) /\ w \in Seq(Byte) /\ w = Encode(fs, vs)
  BY PairIs
<1>2. Agrees(d, at, w) /\ at + Len(w) <= Len(d) /\ Len(w) \in Nat /\ Len(d) \in Nat
  BY <1>1
<1> HIDE DEF fs, vs, w
<1>3. r \in Seq(Byte) /\ Len(r) = Len(d) - at /\ \A j \in 1 .. Len(d) - at : r[j] = d[at + j]
  <2>1. \A i \in at + 1 .. Len(d) : d[i] \in Byte
    OBVIOUS
  <2> QED
    BY <1>2, <2>1
<1> HIDE DEF r
<1>4. Agrees(r, 0, w)
  <2> SUFFICES ASSUME NEW j \in 1 .. Len(w), 0 + j <= Len(r)
               PROVE  r[0 + j] = w[j]
    BY DEF Agrees
  <2>1. j \in 1 .. Len(d) - at /\ at + j <= Len(d) /\ 0 + j = j
    BY <1>2, <1>3
  <2> QED
    BY <1>2, <1>3, <2>1 DEF Agrees
<1>5. Len(w) <= Len(r)
  BY <1>2, <1>3
<1>6. Read(fs, r) = vs
  BY <1>1, <1>3, <1>4, <1>5, ReadsBack
<1> QED
  BY <1>6 DEF fs, vs, r

Pairs(m) == [1 .. m -> Countable \X Countable]
PairParts(items) == [i \in DOMAIN items |-> Encode(<<"s2", "s4">>, items[i])]

LEMMA PairPartsAre ==
  ASSUME NEW m \in Nat, NEW items \in Pairs(m)
  PROVE  /\ PairParts(items) \in Seq(Seq(Byte)) /\ Len(PairParts(items)) = m
         /\ Len(items) = m /\ DOMAIN items = 1 .. m /\ items \in Seq(Seq(Nat) \X Seq(Nat))
         /\ \A i \in 1 .. m :
              \E a, b \in Countable : /\ items[i] = <<a, b>>
                                   /\ PairParts(items)[i] = Encode(<<"s2", "s4">>, <<a, b>>)
<1>1. DOMAIN items = 1 .. m /\ items \in Seq(Countable \X Countable) /\ Len(items) = m
  BY DEF Pairs
<1>2. ASSUME NEW i \in 1 .. m
      PROVE  /\ \E a, b \in Countable : /\ items[i] = <<a, b>>
                                     /\ PairParts(items)[i] = Encode(<<"s2", "s4">>, <<a, b>>)
             /\ PairParts(items)[i] \in Seq(Byte)
  <2>1. items[i] \in Countable \X Countable
    BY DEF Pairs
  <2>2. PICK a \in Countable, b \in Countable : items[i] = <<a, b>>
    BY <2>1
  <2>3. PairParts(items)[i] = Encode(<<"s2", "s4">>, <<a, b>>)
    BY <1>1, <2>2 DEF PairParts
  <2>4. Encode(<<"s2", "s4">>, <<a, b>>) \in Seq(Byte)
    BY PairIs
  <2> QED
    BY <2>2, <2>3, <2>4
<1>3. PairParts(items) \in [1 .. m -> Seq(Byte)]
  <2>1. PairParts(items) = [i \in 1 .. m |-> PairParts(items)[i]]
    BY <1>1 DEF PairParts
  <2> QED
    BY <1>2, <2>1
<1>4. items \in Seq(Seq(Nat) \X Seq(Nat))
  <2>1. Countable \subseteq Seq(Nat)
    <3> SUFFICES ASSUME NEW s \in Countable
                 PROVE  s \in Seq(Nat)
      OBVIOUS
    <3>1. s \in Seq(Byte) /\ Byte \subseteq Nat
      BY StringIs DEF Text, Byte
    <3> QED
      BY <3>1, SeqMonotonic
  <2>2. Countable \X Countable \subseteq Seq(Nat) \X Seq(Nat)
    BY <2>1
  <2> QED
    BY <1>1, <2>2, SeqMonotonic
<1>5. PairParts(items) \in Seq(Seq(Byte)) /\ Len(PairParts(items)) = m
  <2> DEFINE p == PairParts(items)
  <2>1. p \in [1 .. m -> Seq(Byte)]
    BY <1>3
  <2> HIDE DEF p
  <2>2. p \in Seq(Seq(Byte)) /\ Len(p) = m
    BY <2>1
  <2> QED
    BY <2>2 DEF p
<1>6. \A i \in 1 .. m : \E a, b \in Countable :
        items[i] = <<a, b>> /\ PairParts(items)[i] = Encode(<<"s2", "s4">>, <<a, b>>)
  BY <1>2
<1> QED
  BY <1>1, <1>4, <1>5, <1>6

\* What the loop of parse_range_response makes of the item at p.
ItemAt(d, p) ==
  LET kv == Read(<<"s2", "s4">>, SubSeq(d, p.at + 1, Len(d)))
  IN IF p.end \/ kv = Refused THEN [p EXCEPT !.end = TRUE]
     ELSE [at |-> p.at + 6 + Len(kv[1]) + Len(kv[2]), items |-> Append(p.items, kv), end |-> FALSE]

\* Where item i ends, and the items up to there.
ItemsTo(h, items, i) == [at |-> 4 + Len(h[i]), items |-> SubSeq(items, 1, i), end |-> FALSE]

LEMMA OneMore ==
  ASSUME NEW S, NEW s \in Seq(S), NEW n \in 1 .. Len(s)
  PROVE  Append(SubSeq(s, 1, n - 1), s[n]) = SubSeq(s, 1, n)
<1>1. Len(s) \in Nat /\ 1 \in 1 .. Len(s) /\ n \in 1 .. Len(s) /\ n - 1 \in Int /\ 1 \in Int /\ s[n] \in S
  OBVIOUS
<1>2. \A i \in 1 .. n - 1 : s[i] \in S
  OBVIOUS
<1>3. SubSeq(s, 1, n - 1) \in Seq(S)
  BY <1>1, <1>2, SubSeqProperties
<1>4. SubSeq(s, 1, n) = SubSeq(s, 1, n - 1) \o <<s[n]>>
  BY <1>1, SubSeqRecursiveSecond
<1>5. Append(SubSeq(s, 1, n - 1), s[n]) = SubSeq(s, 1, n - 1) \o <<s[n]>>
  BY <1>1, <1>3, AppendIsConcat
<1> QED
  BY <1>4, <1>5

LEMMA ItemReads ==
  ASSUME NEW m \in Nat, NEW items \in Pairs(m), NEW h, Parts(h, PairParts(items)), NEW d \in Seq(Byte),
         NEW i \in 1 .. m, Agrees(d, 4 + Len(h[i - 1]), PairParts(items)[i]), 4 + Len(h[i]) <= Len(d)
  PROVE  ItemAt(d, ItemsTo(h, items, i - 1)) = ItemsTo(h, items, i)
<1> DEFINE p == PairParts(items)
           at == 4 + Len(h[i - 1])
<1>1. p \in Seq(Seq(Byte)) /\ Len(p) = m /\ Len(items) = m /\ items \in Seq(Seq(Nat) \X Seq(Nat))
  BY PairPartsAre
<1>2. PICK a \in Countable, b \in Countable :
        items[i] = <<a, b>> /\ p[i] = Encode(<<"s2", "s4">>, <<a, b>>)
  BY PairPartsAre
<1>3. Agrees(d, at, p[i]) /\ Parts(h, p)
  OBVIOUS
<1> HIDE DEF p
<1>4. Len(p[i]) = 6 + Len(a) + Len(b) /\ Len(a) \in Nat /\ Len(b) \in Nat
  BY <1>2, PairIs
<1>5. /\ Len(h[i - 1]) \in Nat /\ Len(h[i]) \in Nat /\ Len(h[i]) = Len(h[i - 1]) + Len(p[i])
      /\ i - 1 \in 0 .. m
  <2>1. i \in 0 .. Len(p) /\ i - 1 \in 0 .. Len(p) /\ i \in 1 .. Len(p)
    BY <1>1
  <2> QED
    BY <1>1, <1>3, <2>1, PartsAgree
<1>6. at \in Nat /\ at + Len(p[i]) = 4 + Len(h[i]) /\ at + Len(p[i]) <= Len(d)
  <2>1. at \in Nat
    BY <1>5
  <2>2. at + Len(p[i]) = 4 + Len(h[i])
    <3> DEFINE u == Len(h[i - 1])
               x == Len(p[i])
               y == Len(h[i])
    <3>1. u \in Nat /\ y \in Nat /\ y = u + x /\ at = 4 + u
      BY <1>5
    <3>2. x \in Nat
      BY <1>4
    <3> HIDE DEF u, x, y, at
    <3>3. at + x = 4 + y
      BY <3>1, <3>2
    <3> QED
      BY <3>3 DEF x, y
  <2> QED
    BY <2>1, <2>2
<1> HIDE DEF at
<1>7. Read(<<"s2", "s4">>, SubSeq(d, at + 1, Len(d))) = <<a, b>>
  BY <1>2, <1>3, <1>6, PairReads
<1>8. <<a, b>> # Refused
  <2> DEFINE vs == <<a, b>>
  <2>1. vs \in Seq(Value)
    BY PairIs DEF Fit
  <2> HIDE DEF vs
  <2>2. vs # Refused
    BY <2>1, RefusedAssumption DEF Value
  <2> QED
    BY <2>2 DEF vs
<1> DEFINE s == SubSeq(items, 1, i - 1)
           q == ItemsTo(h, items, i - 1)
<1>9. q.at = at /\ q.items = s /\ q.end = FALSE
  BY DEF ItemsTo, at
<1> HIDE DEF q, s
<1>10. ItemAt(d, q) = [at |-> at + 6 + Len(a) + Len(b), items |-> Append(s, <<a, b>>), end |-> FALSE]
  <2> DEFINE kv == Read(<<"s2", "s4">>, SubSeq(d, q.at + 1, Len(d)))
  <2>1. kv = <<a, b>>
    BY <1>7, <1>9
  <2>2. ItemAt(d, q) = IF q.end \/ kv = Refused THEN [q EXCEPT !.end = TRUE]
                       ELSE [at |-> q.at + 6 + Len(kv[1]) + Len(kv[2]), items |-> Append(q.items, kv),
                             end |-> FALSE]
    BY DEF ItemAt
  <2> HIDE DEF kv
  <2>3. kv # Refused /\ kv[1] = a /\ kv[2] = b
    BY <1>8, <2>1
  <2> QED
    BY <1>9, <2>1, <2>2, <2>3
<1>11. at + 6 + Len(a) + Len(b) = 4 + Len(h[i])
  BY <1>4, <1>6
<1>12. Append(s, <<a, b>>) = SubSeq(items, 1, i)
  <2>1. i \in 1 .. Len(items)
    BY <1>1
  <2>2. Append(SubSeq(items, 1, i - 1), items[i]) = SubSeq(items, 1, i)
    BY <1>1, <2>1, OneMore
  <2> QED
    BY <1>2, <2>2 DEF s
<1>13. ItemAt(d, q) = ItemsTo(h, items, i)
  BY <1>10, <1>11, <1>12 DEF ItemsTo
<1> QED
  BY <1>13 DEF q

LEMMA ItemsRead ==
  ASSUME NEW m \in Nat, NEW items \in Pairs(m), NEW h, Parts(h, PairParts(items)), NEW d \in Seq(Byte),
         \A i \in 1 .. m : Agrees(d, 4 + Len(h[i - 1]), PairParts(items)[i]),
         4 + Len(h[m]) <= Len(d)
  PROVE  RangeItems(d, m) = [at |-> 4 + Len(h[m]), items |-> items, end |-> FALSE]
<1> DEFINE p == PairParts(items)
           K(i) == ItemsTo(h, items, i)
           F(f) == [i \in 0 .. m |-> IF i = 0 THEN [at |-> 4, items |-> <<>>, end |-> FALSE]
                                     ELSE ItemAt(d, f[i - 1])]
           v == CHOOSE f : f = F(f)
           b == [i \in 0 .. m |-> K(i)]
<1>1. p \in Seq(Seq(Byte)) /\ Len(p) = m /\ Len(items) = m /\ items \in Seq(Seq(Nat) \X Seq(Nat))
  BY PairPartsAre
<1>2. K(0) = [at |-> 4, items |-> <<>>, end |-> FALSE]
  <2>1. h[0] = <<>>
    BY DEF Parts
  <2>2. Len(h[0]) = 0 /\ 4 + 0 = 4
    BY <2>1
  <2>3. SubSeq(items, 1, 0) = <<>>
    BY <1>1
  <2> QED
    BY <2>2, <2>3 DEF ItemsTo
<1>3. ASSUME NEW i \in 1 .. m
      PROVE  ItemAt(d, K(i - 1)) = K(i)
  <2>1. Agrees(d, 4 + Len(h[i - 1]), p[i])
    OBVIOUS
  <2>2. 4 + Len(h[i]) <= Len(d)
    <3>1. /\ Len(h[i]) <= Len(h[m]) /\ Len(h[i]) \in Nat /\ Len(h[m]) \in Nat
      <4> HIDE DEF p
      <4>1. i \in 0 .. Len(p) /\ m \in 0 .. Len(p) /\ i \in 1 .. Len(p) /\ Parts(h, p)
        BY <1>1 DEF p
      <4> QED
        BY <1>1, <4>1, PartsAgree
    <3> QED
      BY <3>1
  <2> QED
    BY <2>1, <2>2, ItemReads
<1> HIDE DEF K
<1>4. b = F(b)
  <2>1. \A i \in 0 .. m : i # 0 => i \in 1 .. m /\ i - 1 \in 0 .. m
    OBVIOUS
  <2>2. ASSUME NEW i \in 0 .. m
        PROVE  b[i] = IF i = 0 THEN [at |-> 4, items |-> <<>>, end |-> FALSE]
                      ELSE ItemAt(d, b[i - 1])
    <3>1. CASE i = 0
      BY <1>2, <3>1
    <3>2. CASE i # 0
      <4>1. i \in 1 .. m /\ i - 1 \in 0 .. m
        BY <2>1, <3>2
      <4>2. b[i] = K(i) /\ b[i - 1] = K(i - 1)
        BY <4>1
      <4> QED
        BY <1>3, <3>2, <4>1, <4>2
    <3> QED
      BY <3>1, <3>2
  <2>3. b = [i \in 0 .. m |-> b[i]]
    OBVIOUS
  <2> HIDE DEF b
  <2> QED
    BY <2>2, <2>3
<1>5. v = F(v)
  <2> HIDE DEF F
  <2> QED
    BY <1>4
<1>6. RangeItems(d, m) = v[m]
  BY DEF RangeItems, ItemAt
<1> HIDE DEF v
<1>7. v[0] = K(0) /\ \A i \in 1 .. m : v[i] = ItemAt(d, v[i - 1])
  <2> DEFINE E(f, i) == IF i = 0 THEN [at |-> 4, items |-> <<>>, end |-> FALSE] ELSE ItemAt(d, f[i - 1])
  <2>1. \A i \in 0 .. m : v[i] = E(v, i)
    <3>1. F(v) = [i \in 0 .. m |-> E(v, i)]
      OBVIOUS
    <3> HIDE DEF F, E
    <3> QED
      BY <1>5, <3>1
  <2>2. 0 \in 0 .. m /\ \A i \in 1 .. m : i \in 0 .. m /\ i # 0
    OBVIOUS
  <2>3. E(v, 0) = K(0)
    BY <1>2
  <2>4. \A i \in 1 .. m : E(v, i) = ItemAt(d, v[i - 1])
    BY <2>2
  <2> HIDE DEF E
  <2> QED
    BY <2>1, <2>2, <2>3, <2>4
<1> DEFINE T == {i \in 0 .. m : v[i] = K(i)}
<1>8. \A i \in 0 .. m : i \in T
  <2>1. 0 \in T
    BY <1>7
  <2>2. \A i \in 1 .. m : i - 1 \in T => i \in T
    BY <1>3, <1>7
  <2> HIDE DEF T
  <2> QED
    BY <2>1, <2>2, Climb
<1>9. v[m] = K(m)
  BY <1>8
<1>10. SubSeq(items, 1, m) = items
  BY <1>1, SubSeqFull
<1> QED
  BY <1>6, <1>9, <1>10 DEF K, ItemsTo

\* What stands inside a part stands inside the whole.
LEMMA Within ==
  ASSUME NEW w, NEW s \in Seq(Byte), NEW t \in Seq(Byte), NEW at \in Nat, NEW k \in Nat,
         Agrees(w, at, s), at + Len(s) <= Len(w), Agrees(s, k, t), k + Len(t) <= Len(s)
  PROVE  Agrees(w, at + k, t)
<1>1. Len(s) \in Nat /\ Len(t) \in Nat
  OBVIOUS
<1> SUFFICES ASSUME NEW j \in 1 .. Len(t), (at + k) + j <= Len(w)
             PROVE  w[(at + k) + j] = t[j]
  BY DEF Agrees
<1> DEFINE l == Len(s)
           x == Len(t)
<1>2. l \in Nat /\ x \in Nat /\ j \in 1 .. x /\ k + x <= l
  BY <1>1
<1> HIDE DEF l, x
<1>3. k + j \in 1 .. l /\ k + j <= l /\ at + (k + j) = (at + k) + j
  BY <1>2
<1>4. w[at + (k + j)] = s[k + j]
  BY <1>3 DEF Agrees, l
<1>5. s[k + j] = t[j]
  BY <1>2, <1>3 DEF Agrees, l, x
<1> QED
  BY <1>3, <1>4, <1>5

\* The end of an answer with items: the mark for more, and the cursor behind its length.
Tail1(x, c) == Encode(<<"1", "s2">>, <<x, c>>)

LEMMA TailIs ==
  ASSUME NEW x \in {0, 1}, NEW c \in Countable
  PROVE  /\ Tail1(x, c) \in Seq(Byte) /\ Len(Tail1(x, c)) = 3 + Len(c) /\ Tail1(x, c)[1] = x
         /\ Agrees(Tail1(x, c), 1, BigEndian(Len(c), 2)) /\ Agrees(Tail1(x, c), 3, c)
<1> DEFINE X == BigEndian(x, 1)
           B == BigEndian(Len(c), 2)
           e == Tail1(x, c)
<1>1. x \in Nat /\ c \in Seq(Byte) /\ Len(c) \in Nat
  BY StringIs DEF Text
<1>2. /\ X \in Seq(Byte) /\ Len(X) = 1 /\ B \in Seq(Byte) /\ Len(B) = 2 /\ X[1] = x
  <2>1. x \in Byte /\ 1 \in Nat /\ 2 \in Nat
    BY Sizes DEF Byte
  <2> QED
    BY <1>1, <2>1, BigEndianIs, OneByte
<1>3. e = X \o (B \o c)
  <2>1. Write("1", x) = X /\ Write("s2", c) = B \o c
    BY Widths DEF Write
  <2>2. Tail1(x, c) = FlattenSeq(<<X, B \o c>>)
    <3> DEFINE fs == <<"1", "s2">>
               vs == <<x, c>>
    <3>1. [i \in DOMAIN fs |-> Write(fs[i], vs[i])] = <<X, B \o c>>
      <4>1. DOMAIN fs = {1, 2} /\ fs[1] = "1" /\ fs[2] = "s2" /\ vs[1] = x /\ vs[2] = c
        OBVIOUS
      <4> HIDE DEF fs, vs, X, B
      <4>2. \A i \in DOMAIN fs : i = 1 \/ i = 2
        BY <4>1
      <4>3. [i \in {1, 2} |-> Write(fs[i], vs[i])] = <<X, B \o c>>
        BY <2>1, <4>1
      <4> QED
        BY <4>1, <4>3
    <3>2. Tail1(x, c) = FlattenSeq([i \in DOMAIN fs |-> Write(fs[i], vs[i])])
      BY DEF Tail1, Encode
    <3> QED
      BY <3>1, <3>2
  <2>3. B \o c \in Seq(Byte)
    BY <1>1, <1>2, ConcatAgrees
  <2> QED
    BY <1>2, <2>2, <2>3, FlattenTwo
<1> HIDE DEF X, B, e
<1> DEFINE t == B \o c
<1>4. t \in Seq(Byte) /\ Len(t) = 2 + Len(c) /\ Agrees(t, 0, B) /\ Agrees(t, 2, c)
  BY <1>1, <1>2, ConcatAgrees
<1>5. e = X \o t
  BY <1>3
<1> HIDE DEF t
<1>6. e \in Seq(Byte) /\ Len(e) = 1 + Len(t) /\ Agrees(e, 1, t)
  BY <1>2, <1>4, <1>5, ConcatAgrees
<1>7. Len(e) = 3 + Len(c)
  BY <1>1, <1>4, <1>6
<1>8. e[1] = x
  <2>1. 1 \in Nat /\ X \in Seq(Byte) /\ t \in Seq(Byte) /\ Len(X) = 1
    BY <1>2, <1>4
  <2>2. \A j \in 1 .. 1 : (X \o t)[j] = X[j]
    BY <2>1, ConcatIs
  <2>3. 1 \in 1 .. 1
    OBVIOUS
  <2>4. (X \o t)[1] = X[1]
    BY <2>2, <2>3
  <2> QED
    BY <1>2, <1>5, <2>4
<1>9. Agrees(e, 1 + 0, B) /\ Agrees(e, 1 + 2, c)
  <2>1. 1 + Len(t) <= Len(e) /\ 0 + Len(B) <= Len(t) /\ 2 + Len(c) <= Len(t)
    BY <1>1, <1>2, <1>4, <1>6
  <2>2. 0 \in Nat /\ 1 \in Nat /\ 2 \in Nat
    OBVIOUS
  <2> QED
    BY <1>1, <1>2, <1>4, <1>6, <2>1, <2>2, Within
<1>10. 1 + 0 = 1 /\ 1 + 2 = 3
  OBVIOUS
<1>11. Agrees(e, 1, B) /\ Agrees(e, 3, c)
  BY <1>9, <1>10
<1> QED
  BY <1>6, <1>7, <1>8, <1>11 DEF e, B

\* Where its parts stand in an answer with items.
LEMMA RangeParts ==
  ASSUME NEW N \in Seq(Byte), Len(N) = 4, NEW F \in Seq(Byte), NEW E \in Seq(Byte),
         NEW w, w = N \o F \o E
  PROVE  /\ w \in Seq(Byte) /\ Len(w) = 4 + Len(F) + Len(E)
         /\ Agrees(w, 0, N) /\ Agrees(w, 4, F) /\ Agrees(w, 4 + Len(F), E)
<1> DEFINE u == N \o F
<1>1. u \in Seq(Byte) /\ Len(u) = 4 + Len(F) /\ Agrees(u, 0, N) /\ Agrees(u, 4, F)
  <2>1. u \in Seq(Byte) /\ Len(u) = Len(N) + Len(F) /\ Agrees(u, 0, N) /\ Agrees(u, Len(N), F)
    BY ConcatAgrees
  <2> HIDE DEF u
  <2> QED
    BY <2>1
<1>2. w = u \o E
  OBVIOUS
<1>3. Len(F) \in Nat /\ Len(E) \in Nat
  OBVIOUS
<1> HIDE DEF u
<1>4. w \in Seq(Byte) /\ Len(w) = Len(u) + Len(E) /\ Agrees(w, 0, u) /\ Agrees(w, Len(u), E)
  <2>1. /\ u \o E \in Seq(Byte) /\ Len(u \o E) = Len(u) + Len(E)
        /\ Agrees(u \o E, 0, u) /\ Agrees(u \o E, Len(u), E)
    BY <1>1, ConcatAgrees
  <2> QED
    BY <1>2, <2>1, Zenon
<1>5. Agrees(w, 0 + 0, N) /\ Agrees(w, 0 + 4, F)
  <2>1. 0 + Len(u) <= Len(w) /\ 0 + Len(N) <= Len(u) /\ 4 + Len(F) <= Len(u)
    BY <1>1, <1>3, <1>4
  <2>2. 0 \in Nat /\ 4 \in Nat
    OBVIOUS
  <2> QED
    BY <1>1, <1>4, <2>1, <2>2, Within
<1>6. 0 + 0 = 0 /\ 0 + 4 = 4
  OBVIOUS
<1>7. Agrees(w, 0, N) /\ Agrees(w, 4, F)
  BY <1>5, <1>6
<1> QED
  BY <1>1, <1>3, <1>4, <1>7

LEMMA PairsLen ==
  ASSUME NEW m \in 0 .. 2, NEW items \in Pairs(m), NEW h, Parts(h, PairParts(items))
  PROVE  Len(h[m]) \in Nat /\ Len(h[m]) <= 6 * Short
<1> DEFINE p == PairParts(items)
<1>1. p \in Seq(Seq(Byte)) /\ Len(p) = m
  BY PairPartsAre
<1>2. ASSUME NEW i \in 1 .. m
      PROVE  Len(p[i]) \in Nat /\ Len(p[i]) <= 3 * Short
  <2>1. PICK a \in Countable, b \in Countable : p[i] = Encode(<<"s2", "s4">>, <<a, b>>)
    <3>1. m \in Nat
      OBVIOUS
    <3> QED
      BY <3>1, PairPartsAre
  <2>2. /\ Len(p[i]) = 6 + Len(a) + Len(b) /\ Len(a) \in Nat /\ Len(b) \in Nat
        /\ Len(a) < Short /\ Len(b) < Short
    BY <2>1, PairIs
  <2> DEFINE x == Len(a)
             y == Len(b)
  <2>3. x \in Nat /\ y \in Nat /\ x < Short /\ y < Short /\ Len(p[i]) = 6 + x + y
    BY <2>2
  <2> HIDE DEF x, y, p
  <2> QED
    BY <2>3, Sizes
<1>3. Parts(h, p)
  OBVIOUS
<1> HIDE DEF p
<1>4. Len(h[0]) = 0
  <2>1. h[0] = <<>>
    BY <1>3 DEF Parts
  <2> QED
    BY <2>1
<1>5. \A i \in 1 .. m : Len(h[i]) = Len(h[i - 1]) + Len(p[i])
  BY <1>1, <1>3, PartsAgree
<1>6. CASE m = 0
  BY <1>4, <1>6, Sizes
<1>7. CASE m = 1
  <2>1. 1 \in 1 .. m /\ 1 - 1 = 0
    BY <1>7
  <2>2. Len(h[1]) = Len(h[0]) + Len(p[1])
    BY <1>5, <2>1
  <2>3. Len(p[1]) \in Nat /\ Len(p[1]) <= 3 * Short
    BY <1>2, <2>1
  <2> QED
    BY <1>4, <1>7, <2>2, <2>3, Sizes
<1>8. CASE m = 2
  <2>1. 1 \in 1 .. m /\ 2 \in 1 .. m /\ 1 - 1 = 0 /\ 2 - 1 = 1
    BY <1>8
  <2>2. Len(h[1]) = Len(h[0]) + Len(p[1]) /\ Len(h[2]) = Len(h[1]) + Len(p[2])
    BY <1>5, <2>1
  <2>3. Len(p[1]) \in Nat /\ Len(p[1]) <= 3 * Short /\ Len(p[2]) \in Nat /\ Len(p[2]) <= 3 * Short
    BY <1>2, <2>1
  <2> DEFINE x == Len(p[1])
             y == Len(p[2])
  <2>4. /\ x \in Nat /\ y \in Nat /\ x <= 3 * Short /\ y <= 3 * Short
        /\ Len(h[1]) = 0 + x /\ Len(h[2]) = Len(h[1]) + y
    BY <1>4, <2>2, <2>3
  <2> HIDE DEF x, y
  <2>5. Len(h[1]) = x
    BY <2>4
  <2>6. Len(h[2]) = x + y
    BY <2>4, <2>5
  <2>7. Len(h[2]) \in Nat /\ Len(h[2]) <= 6 * Short
    BY <2>4, <2>6, Sizes
  <2> QED
    BY <1>8, <2>7
<1>9. m = 0 \/ m = 1 \/ m = 2
  OBVIOUS
<1> QED
  BY <1>6, <1>7, <1>8, <1>9

\* The items, the mark for more and the cursor that were written are read.
LEMMA RangeResponseReads ==
  ASSUME NEW m \in 0 .. 2, NEW items \in Pairs(m), NEW more \in BOOLEAN, NEW c \in Countable
  PROVE  /\ Text(encodeRangeResponse(items, more, c), Long)
         /\ parse_range_response(encodeRangeResponse(items, more, c))
              = [items |-> items, more |-> more, cursor |-> c]
<1> DEFINE N == BigEndian(m, 4)
           p == PairParts(items)
           F == FlattenSeq(p)
           x == IF more THEN 1 ELSE 0
           E == Tail1(x, c)
           w == N \o F \o E
<1>1. p \in Seq(Seq(Byte)) /\ Len(p) = m /\ Len(items) = m /\ DOMAIN items = 1 .. m /\ m \in Nat
  BY PairPartsAre
<1>2. encodeRangeResponse(items, more, c) = w
  BY <1>1 DEF encodeRangeResponse, PairParts, Tail1
<1>3. PICK h : Parts(h, p) /\ F = h[m]
  BY <1>1, FlattenParts
<1>4. Len(F) \in Nat /\ Len(F) <= 6 * Short /\ F \in Seq(Byte)
  <2>1. Len(h[m]) \in Nat /\ Len(h[m]) <= 6 * Short
    BY <1>3, PairsLen
  <2>2. h[m] \in Seq(Byte)
    <3>1. m \in 0 .. Len(p)
      BY <1>1
    <3> QED
      BY <1>1, <1>3, <3>1, PartsAgree
  <2> QED
    BY <1>3, <2>1, <2>2
<1>5. N \in Seq(Byte) /\ Len(N) = 4
  BY <1>1, BigEndianIs
<1>6. /\ E \in Seq(Byte) /\ Len(E) = 3 + Len(c) /\ E[1] = x
      /\ Agrees(E, 1, BigEndian(Len(c), 2)) /\ Agrees(E, 3, c)
      /\ x \in {0, 1} /\ (x # 0 <=> more)
  <2>1. x \in {0, 1} /\ (x # 0 <=> more)
    OBVIOUS
  <2> HIDE DEF x
  <2> QED
    BY <2>1, TailIs
<1>7. c \in Seq(Byte) /\ Len(c) \in Nat /\ Len(c) < Short
  BY StringIs, NameIs DEF Text
<1> HIDE DEF N, F, E, x
<1>8. /\ w \in Seq(Byte) /\ Len(w) = 4 + Len(F) + Len(E)
      /\ Agrees(w, 0, N) /\ Agrees(w, 4, F) /\ Agrees(w, 4 + Len(F), E)
  BY <1>4, <1>5, <1>6, RangeParts
<1> HIDE DEF w, p
<1> DEFINE l == Len(F)
           k == Len(c)
<1>9. l \in Nat /\ l <= 6 * Short /\ k \in Nat /\ k < Short /\ Len(E) = 3 + k
  BY <1>4, <1>6, <1>7
<1>10. Len(w) = 7 + l + k
  BY <1>6, <1>8, <1>9
<1> HIDE DEF l, k
<1>11. Text(w, Long)
  <2>1. 7 + l + k < Long
    <3>1. 7 < Short
      BY Sizes
    <3> QED
      BY <1>9, <3>1, Sizes
  <2> QED
    BY <1>8, <1>10, <2>1 DEF Text
<1>12. Number(w, 0, 4) = m
  <2>1. Says(w, 0, 4, m)
    <3> SUFFICES ASSUME NEW j \in 1 .. 4
                 PROVE  w[0 + j] = N[j]
      BY DEF Says, N
    <3>1. 0 + j <= Len(w) /\ j \in 1 .. Len(N)
      BY <1>5, <1>9, <1>10
    <3> QED
      BY <1>8, <3>1 DEF Agrees
  <2>2. m < Bound(4) /\ 4 \in {1, 2, 4, 8} /\ 0 \in Nat
    BY Widths, Sizes
  <2> QED
    BY <1>1, <2>1, <2>2, NumberOf
<1>13. RangeItems(w, m) = [at |-> 4 + l, items |-> items, end |-> FALSE]
  <2>1. 4 + Len(h[m]) <= Len(w)
    BY <1>3, <1>9, <1>10 DEF l
  <2>2. ASSUME NEW i \in 1 .. m
        PROVE  Agrees(w, 4 + Len(h[i - 1]), p[i])
    <3>1. Agrees(F, Len(h[i - 1]), p[i]) /\ Len(h[i]) = Len(h[i - 1]) + Len(p[i]) /\ Len(h[i]) <= Len(F)
          /\ Len(h[i - 1]) \in Nat
      <4>1. i \in 1 .. Len(p) /\ i - 1 \in 0 .. Len(p) /\ h[Len(p)] = F
        BY <1>1, <1>3
      <4> QED
        BY <1>1, <1>3, <4>1, PartsAgree
    <3>2. p[i] \in Seq(Byte)
      BY <1>1
    <3>3. 4 + Len(F) <= Len(w) /\ Len(h[i - 1]) + Len(p[i]) <= Len(F) /\ 4 \in Nat
      <4>1. Len(h[i - 1]) + Len(p[i]) <= Len(F)
        BY <3>1, Zenon
      <4>2. 4 + l <= Len(w)
        BY <1>9, <1>10
      <4> QED
        BY <4>1, <4>2 DEF l
    <3> QED
      BY <1>4, <1>8, <3>1, <3>2, <3>3, Within
  <2>3. Parts(h, PairParts(items)) /\ \A i \in 1 .. m : Agrees(w, 4 + Len(h[i - 1]), PairParts(items)[i])
    BY <1>3, <2>2 DEF p
  <2> QED
    BY <1>1, <1>3, <1>8, <2>1, <2>3, ItemsRead DEF l
<1>14. /\ Agrees(w, 4 + l, E) /\ w[4 + l + 1] = x
       /\ Agrees(w, 5 + l, BigEndian(k, 2)) /\ Agrees(w, 7 + l, c)
  <2>1. Agrees(w, 4 + l, E)
    BY <1>8 DEF l
  <2>2. 1 \in 1 .. Len(E) /\ (4 + l) + 1 <= Len(w) /\ 4 + l \in Nat /\ (4 + l) + Len(E) <= Len(w)
    BY <1>9, <1>10
  <2>3. w[(4 + l) + 1] = E[1]
    BY <2>1, <2>2 DEF Agrees
  <2>4. BigEndian(k, 2) \in Seq(Byte) /\ Len(BigEndian(k, 2)) = 2
    BY <1>9, BigEndianIs
  <2>5. 1 + Len(BigEndian(k, 2)) <= Len(E) /\ 3 + Len(c) <= Len(E) /\ 1 \in Nat /\ 3 \in Nat
    <3>1. 1 + 2 <= 3 + k /\ 3 + k <= 3 + k
      BY <1>9
    <3>2. 1 + 2 <= Len(E) /\ 3 + k <= Len(E)
      BY <1>9, <3>1, Zenon
    <3> QED
      BY <2>4, <3>2 DEF k
  <2>6. Agrees(E, 1, BigEndian(k, 2)) /\ Agrees(E, 3, c)
    BY <1>6 DEF k
  <2>7. Agrees(w, (4 + l) + 1, BigEndian(k, 2)) /\ Agrees(w, (4 + l) + 3, c)
    BY <1>6, <1>7, <2>1, <2>2, <2>4, <2>5, <2>6, Within
  <2>8. (4 + l) + 1 = 5 + l /\ (4 + l) + 3 = 7 + l
    BY <1>9
  <2>9. Agrees(w, 5 + l, BigEndian(k, 2)) /\ Agrees(w, 7 + l, c)
    BY <2>7, <2>8
  <2> QED
    BY <1>6, <2>1, <2>3, <2>9
<1>15. Number(w, 5 + l, 2) = k
  <2>1. Says(w, 5 + l, 2, k)
    <3> DEFINE b == BigEndian(k, 2)
    <3> SUFFICES ASSUME NEW j \in 1 .. 2
                 PROVE  w[(5 + l) + j] = b[j]
      BY DEF Says
    <3>1. Len(b) = 2 /\ Agrees(w, 5 + l, b)
      BY <1>9, <1>14, BigEndianIs
    <3> HIDE DEF b
    <3>2. (5 + l) + j <= Len(w) /\ j \in 1 .. Len(b)
      BY <1>9, <1>10, <3>1
    <3> QED
      BY <3>1, <3>2 DEF Agrees
  <2>2. k < Bound(2) /\ 2 \in {1, 2, 4, 8} /\ 5 + l \in Nat
    BY <1>9, Widths
  <2> QED
    BY <1>9, <2>1, <2>2, NumberOf
<1>16. Bytes(w, 7 + l, k) = c
  <2>1. (7 + l) + Len(c) <= Len(w) /\ 7 + l \in Nat
    BY <1>9, <1>10 DEF k
  <2> QED
    BY <1>7, <1>8, <1>14, <2>1, BytesAgree DEF k
<1> DEFINE q == RangeItems(w, Number(w, 0, 4))
           at == q.at + 1
           n == IF at + 2 <= Len(w) THEN Number(w, at, 2) ELSE 0
<1>17. parse_range_response(w)
         = IF Len(w) < 4 THEN Refused
           ELSE [items |-> q.items, more |-> q.at < Len(w) /\ w[q.at + 1] # 0,
                 cursor |-> IF at + 2 + n <= Len(w) THEN Bytes(w, at + 2, n) ELSE <<>>]
  BY DEF parse_range_response
<1>18. q.at = 4 + l /\ q.items = items
  BY <1>12, <1>13
<1> HIDE DEF q
<1>19. at = 5 + l /\ at + 2 = 7 + l
  BY <1>9, <1>18
<1> HIDE DEF at
<1>20. n = k
  <2>1. at + 2 <= Len(w)
    BY <1>9, <1>10, <1>19
  <2> QED
    BY <1>15, <1>19, <2>1
<1> HIDE DEF n
<1>21. /\ ~(Len(w) < 4) /\ q.at < Len(w) /\ at + 2 + n <= Len(w)
       /\ w[q.at + 1] # 0 <=> more
  <2>1. ~(Len(w) < 4) /\ q.at < Len(w) /\ at + 2 + n <= Len(w)
    BY <1>9, <1>10, <1>18, <1>19, <1>20
  <2>2. w[q.at + 1] = x
    BY <1>14, <1>18
  <2> QED
    BY <1>6, <2>1, <2>2
<1>22. (q.at < Len(w) /\ w[q.at + 1] # 0) = more
  BY <1>21, Zenon
<1>23. parse_range_response(w) = [items |-> items, more |-> more, cursor |-> c]
  <2>1. (IF at + 2 + n <= Len(w) THEN Bytes(w, at + 2, n) ELSE <<>>) = c
    BY <1>16, <1>19, <1>20, <1>21
  <2> QED
    BY <1>17, <1>18, <1>21, <1>22, <2>1, Zenon
<1> QED
  BY <1>2, <1>11, <1>23

-----------------------------------------------------------------------------
(* Names behind commas.                                                      *)

Words == Seq(Seq(Byte))

\* What strtok makes of byte i when it has t from the bytes before.
NameStep(d, t, i) ==
  IF d[i] = Comma THEN t
  ELSE IF i = 1 \/ d[i - 1] = Comma THEN Append(t, <<d[i]>>)
  ELSE [t EXCEPT ![Len(t)] = Append(@, d[i])]

Named(v, d) == v[0] = <<>> /\ \A i \in 1 .. Len(d) : v[i] = NameStep(d, v[i - 1], i)

LEMMA NameStepIn ==
  ASSUME NEW d \in Seq(Byte), NEW t \in Words, NEW i \in 1 .. Len(d)
  PROVE  NameStep(d, t, i) \in Words
<1>1. d[i] \in Byte
  OBVIOUS
<1>2. <<d[i]>> \in Seq(Byte)
  BY <1>1
<1> DEFINE S == Seq(Byte)
           n == Len(t)
           g == [t EXCEPT ![n] = Append(@, d[i])]
<1>3. t \in Seq(S) /\ <<d[i]>> \in S
  BY <1>2 DEF Words
<1>4. \A s \in S : Append(s, d[i]) \in S
  BY <1>1, AppendProperties
<1> HIDE DEF S
<1>5. n \in Nat /\ t \in [1 .. n -> S]
  BY <1>3
<1> HIDE DEF n
<1>6. g \in [1 .. n -> S]
  BY <1>4, <1>5
<1>7. g \in Seq(S)
  <2> HIDE DEF g
  <2> QED
    BY <1>5, <1>6
<1>8. Append(t, <<d[i]>>) \in Seq(S)
  <2> DEFINE x == <<d[i]>>
  <2> HIDE DEF x
  <2>1. x \in S
    BY <1>3 DEF x
  <2>2. Append(t, x) \in Seq(S)
    BY <1>3, <2>1, AppendProperties
  <2> QED
    BY <2>2 DEF x
<1>9. NameStep(d, t, i) = IF d[i] = Comma THEN t
                          ELSE IF i = 1 \/ d[i - 1] = Comma THEN Append(t, <<d[i]>>) ELSE g
  BY DEF NameStep, n
<1> HIDE DEF g
<1>10. NameStep(d, t, i) \in Seq(S)
  BY <1>3, <1>7, <1>8, <1>9
<1> QED
  BY <1>10 DEF S, Words

LEMMA TokensAre ==
  ASSUME NEW d \in Seq(Byte)
  PROVE  \E v : Named(v, d) /\ tokens(d) = v[Len(d)]
<1> DEFINE n == Len(d)
           E(f, i) == IF i = 0 THEN <<>> ELSE NameStep(d, f[i - 1], i)
           F(f) == [i \in 0 .. n |-> E(f, i)]
           G == [x \in (1 .. n) \X Words |-> NameStep(d, x[2], x[1])]
           v == CHOOSE f : f = F(f)
<1>1. n \in Nat /\ <<>> \in Words
  BY DEF Words
<1>2. PICK b \in [0 .. n -> Words] : Steps(b, n, <<>>, G)
  <2>1. G \in [(1 .. n) \X Words -> Words]
    BY NameStepIn
  <2> DEFINE e == <<>>
  <2>2. e \in Words
    BY <1>1
  <2> HIDE DEF G, n, e
  <2>3. \E b \in [0 .. n -> Words] : Steps(b, n, e, G)
    BY <1>1, <2>1, <2>2, StepsExist
  <2> QED
    BY <2>3 DEF e
<1>3. b = F(b)
  <2>1. b[0] = <<>>
    BY <1>2 DEF Steps
  <2>2. ASSUME NEW i \in 1 .. n
        PROVE  b[i] = NameStep(d, b[i - 1], i)
    <3>1. i - 1 \in 0 .. n /\ b[i - 1] \in Words
      BY <1>1
    <3>2. b[i] = G[<<i, b[i - 1]>>]
      BY <1>2 DEF Steps
    <3> HIDE DEF n
    <3> QED
      BY <3>1, <3>2
  <2>3. \A i \in 0 .. n : i = 0 \/ (i # 0 /\ i \in 1 .. n)
    BY <1>1
  <2>4. \A i \in 0 .. n : b[i] = E(b, i)
    <3> HIDE DEF n
    <3> QED
      BY <2>1, <2>2, <2>3
  <2> HIDE DEF n, E
  <2> QED
    BY <2>4
<1>4. v = F(v)
  <2> HIDE DEF F
  <2> QED
    BY <1>3
<1>5. tokens(d) = v[n]
  BY DEF tokens, NameStep
<1> HIDE DEF v
<1>6. Named(v, d)
  <2>1. \A i \in 0 .. n : v[i] = E(v, i)
    <3>1. F(v) = [i \in 0 .. n |-> E(v, i)]
      OBVIOUS
    <3> HIDE DEF F, E, n
    <3> QED
      BY <1>4, <3>1
  <2>2. 0 \in 0 .. n /\ \A i \in 1 .. n : i \in 0 .. n /\ i # 0
    BY <1>1
  <2> HIDE DEF n
  <2>3. v[0] = <<>> /\ \A i \in 1 .. n : v[i] = NameStep(d, v[i - 1], i)
    BY <2>1, <2>2
  <2> QED
    BY <2>3 DEF Named, n
<1> QED
  BY <1>5, <1>6

GoesOn(u, b) == [u EXCEPT ![Len(u)] = Append(@, b)]

\* A name that goes on is the last one.
LEMMA LastGoesOn ==
  ASSUME NEW t \in Words, NEW s \in Seq(Byte), NEW b \in Byte, NEW u, u = Append(t, s)
  PROVE  GoesOn(u, b) = Append(t, Append(s, b))
<1> DEFINE S == Seq(Byte)
           r == Append(s, b)
           n == Len(t) + 1
           g == [u EXCEPT ![Len(u)] = Append(@, b)]
           k == Append(t, r)
<1>1. t \in Seq(S) /\ s \in S /\ r \in S
  BY AppendProperties DEF Words
<1> HIDE DEF S, r
<1>2. u \in Seq(S) /\ Len(u) = n /\ u[n] = s /\ n \in Nat /\ \A i \in 1 .. Len(t) : u[i] = t[i]
  BY <1>1, AppendProperties
<1>3. k \in Seq(S) /\ Len(k) = n /\ k[n] = r /\ \A i \in 1 .. Len(t) : k[i] = t[i]
  BY <1>1, AppendProperties
<1>4. \A i \in 1 .. n : i = n \/ (i # n /\ i \in 1 .. Len(t))
  BY <1>1
<1>5. n \in 1 .. n
  BY <1>1
<1>6. DOMAIN u = 1 .. n
  BY <1>2
<1> HIDE DEF n, k
<1>7. g[n] = r /\ \A i \in 1 .. n : i # n => g[i] = u[i]
  BY <1>2, <1>5, <1>6 DEF r
<1>8. g = [i \in 1 .. n |-> g[i]]
  BY <1>6
<1> HIDE DEF g
<1>9. \A i \in 1 .. n : g[i] \in S /\ g[i] = k[i]
  <2> SUFFICES ASSUME NEW i \in 1 .. n
               PROVE  g[i] \in S /\ g[i] = k[i]
    OBVIOUS
  <2>1. CASE i = n
    BY <1>1, <1>3, <1>7, <2>1
  <2>2. CASE i # n
    <3>1. i \in 1 .. Len(t)
      BY <1>4, <2>2
    <3>2. g[i] = t[i] /\ k[i] = t[i]
      BY <1>2, <1>3, <1>7, <2>2, <3>1
    <3>3. t[i] \in S
      BY <1>1, <3>1
    <3> QED
      BY <3>2, <3>3
  <2> QED
    BY <2>1, <2>2
<1>10. g \in Seq(S) /\ Len(g) = n
  <2> DEFINE e == [u EXCEPT ![Len(u)] = r]
  <2>1. Len(u) \in 1 .. Len(u)
    BY <1>2, <1>5
  <2>2. e \in Seq(S) /\ Len(e) = Len(u)
    <3> HIDE DEF e
    <3> QED
      BY <1>1, <1>2, <2>1, ExceptSeq DEF e
  <2>3. g = e
    BY <1>2 DEF g, r
  <2> HIDE DEF e
  <2> QED
    BY <1>2, <2>2, <2>3
<1>11. g = k
  BY <1>2, <1>3, <1>9, <1>10, SeqEqual
<1> QED
  BY <1>11 DEF g, k, r, GoesOn

LEMMA ListableIs ==
  ASSUME NEW s \in Listable
  PROVE  /\ s \in Countable /\ s \in Seq(Byte) /\ Len(s) \in Nat /\ Len(s) >= 1 /\ Len(s) < Short
         /\ \A j \in 1 .. Len(s) : s[j] # Comma
<1>1. s \in Countable /\ s # <<>> /\ ~Contains(s, Comma)
  BY DEF Listable
<1>2. s \in Seq(Byte) /\ Len(s) \in Nat /\ Len(s) < Short
  BY <1>1, StringIs, NameIs DEF Text
<1>3. Len(s) # 0
  BY <1>1, <1>2
<1>4. \A j \in 1 .. Len(s) : s[j] # Comma
  BY <1>1 DEF Contains
<1>5. Len(s) >= 1
  <2> DEFINE l == Len(s)
  <2>1. l \in Nat /\ l # 0
    BY <1>2, <1>3
  <2> HIDE DEF l
  <2>2. l >= 1
    BY <2>1
  <2> QED
    BY <2>2 DEF l
<1> QED
  BY <1>1, <1>2, <1>4, <1>5

\* A name behind a comma, or at the start, is one name more.
LEMMA NameTaken ==
  ASSUME NEW d \in Seq(Byte), NEW v, Named(v, d), NEW at \in Nat, NEW s \in Listable,
         at + Len(s) <= Len(d), Agrees(d, at, s), NEW t \in Words, v[at] = t,
         at = 0 \/ d[at] = Comma
  PROVE  v[at + Len(s)] = Append(t, s)
<1> DEFINE l == Len(s)
           H(j) == Append(t, SubSeq(s, 1, j))
           T == {j \in 0 .. l - 1 : v[at + (j + 1)] = H(j + 1)}
<1>1. l \in Nat /\ l >= 1 /\ s \in Seq(Byte) /\ \A j \in 1 .. l : s[j] # Comma /\ s[j] \in Byte
  BY ListableIs
<1>2. \A j \in 1 .. l : d[at + j] = s[j]
  <2> SUFFICES ASSUME NEW j \in 1 .. l
               PROVE  d[at + j] = s[j]
    OBVIOUS
  <2>1. at + j <= Len(d)
    <3>1. at + l <= Len(d) /\ Len(d) \in Nat
      OBVIOUS
    <3> HIDE DEF l
    <3> QED
      BY <1>1, <3>1
  <2> QED
    BY <2>1 DEF Agrees
<1>3. \A j \in 1 .. l : v[at + j] = NameStep(d, v[(at + j) - 1], at + j)
  <2> SUFFICES ASSUME NEW j \in 1 .. l
               PROVE  v[at + j] = NameStep(d, v[(at + j) - 1], at + j)
    OBVIOUS
  <2>1. at + j \in 1 .. Len(d)
    <3>1. at + l <= Len(d) /\ Len(d) \in Nat
      OBVIOUS
    <3> HIDE DEF l
    <3> QED
      BY <1>1, <3>1
  <2> QED
    BY <2>1 DEF Named
<1>4. 0 \in T
  <2>1. 1 \in 1 .. l /\ (at + 1) - 1 = at /\ 0 + 1 = 1 /\ 0 \in 0 .. l - 1 /\ 1 - 1 = 0
    BY <1>1
  <2>2. at + 1 = 1 \/ d[(at + 1) - 1] = Comma
    BY <2>1
  <2>3. d[at + 1] = s[1] /\ s[1] # Comma
    BY <1>1, <1>2, <2>1
  <2>4. v[at + 1] = NameStep(d, t, at + 1)
    BY <1>3, <2>1
  <2>5. v[at + 1] = Append(t, <<s[1]>>)
    BY <2>2, <2>3, <2>4 DEF NameStep
  <2>6. SubSeq(s, 1, 1) = <<s[1]>>
    <3>1. Append(SubSeq(s, 1, 1 - 1), s[1]) = SubSeq(s, 1, 1)
      BY <1>1, <2>1, OneMore
    <3>2. SubSeq(s, 1, 1 - 1) = <<>>
      BY <2>1, SubSeqEmpty
    <3>3. Append(<<>>, s[1]) = <<s[1]>>
      OBVIOUS
    <3> QED
      BY <3>1, <3>2, <3>3
  <2> HIDE DEF l
  <2> QED
    BY <2>1, <2>5, <2>6
<1>5. ASSUME NEW j \in 1 .. l - 1, j - 1 \in T
      PROVE  j \in T
  <2>1. /\ j \in 1 .. l /\ j + 1 \in 1 .. l /\ j \in 0 .. l - 1 /\ (j - 1) + 1 = j
        /\ (at + (j + 1)) - 1 = at + j /\ at + (j + 1) # 1 /\ (j + 1) - 1 = j
    BY <1>1
  <2>2. v[at + j] = H(j)
    BY <1>5, <2>1
  <2> HIDE DEF l
  <2>3. d[at + j] # Comma /\ d[at + (j + 1)] = s[j + 1] /\ s[j + 1] # Comma /\ s[j + 1] \in Byte
    BY <1>1, <1>2, <2>1
  <2>4. v[at + (j + 1)] = NameStep(d, H(j), at + (j + 1))
    BY <1>3, <2>1, <2>2
  <2> DEFINE u == H(j)
             q == SubSeq(s, 1, j)
  <2>5. NameStep(d, u, at + (j + 1)) = GoesOn(u, s[j + 1])
    <3> HIDE DEF u
    <3>1. d[(at + (j + 1)) - 1] # Comma
      BY <2>1, <2>3
    <3> QED
      BY <2>1, <2>3, <3>1 DEF NameStep, GoesOn
  <2>6. q \in Seq(Byte)
    <3>1. \A i \in 1 .. j : s[i] \in Byte
      BY <1>1, <2>1
    <3>2. 1 \in Int /\ j \in Int
      BY <2>1
    <3>3. SubSeq(s, 1, j) \in Seq(Byte)
      BY <3>1, <3>2, SubSeqProperties
    <3> QED
      BY <3>3
  <2>7. u = Append(t, q)
    OBVIOUS
  <2> HIDE DEF q, u
  <2>8. GoesOn(u, s[j + 1]) = Append(t, Append(q, s[j + 1]))
    <3>1. \A b \in Byte : GoesOn(u, b) = Append(t, Append(q, b))
      BY <2>6, <2>7, LastGoesOn, Zenon
    <3> QED
      BY <2>3, <3>1
  <2>9. Append(q, s[j + 1]) = SubSeq(s, 1, j + 1)
    <3>1. j + 1 \in 1 .. Len(s)
      BY <2>1 DEF l
    <3>2. Append(SubSeq(s, 1, (j + 1) - 1), s[j + 1]) = SubSeq(s, 1, j + 1)
      BY <1>1, <3>1, OneMore
    <3> QED
      BY <2>1, <3>2 DEF q
  <2>10. v[at + (j + 1)] = H(j + 1)
    BY <2>4, <2>5, <2>8, <2>9 DEF u
  <2> QED
    BY <2>1, <2>10
<1>6. l - 1 \in Nat /\ l - 1 \in 0 .. l - 1 /\ (l - 1) + 1 = l
  BY <1>1
<1>7. \A j \in 0 .. l - 1 : j \in T
  <2> HIDE DEF T, l
  <2> QED
    BY <1>4, <1>5, <1>6, Climb
<1>8. v[at + l] = H(l)
  <2>1. l - 1 \in T
    BY <1>6, <1>7
  <2>2. v[at + ((l - 1) + 1)] = H((l - 1) + 1)
    BY <2>1
  <2> QED
    BY <1>6, <2>2
<1>9. SubSeq(s, 1, l) = s
  BY <1>1, SubSeqFull
<1> QED
  BY <1>8, <1>9

\* The bytes of the names, each behind the first with its comma.
NameParts(names) == [i \in DOMAIN names |-> IF i = 1 THEN names[i] ELSE <<Comma>> \o names[i]]

LEMMA NamePartsAre ==
  ASSUME NEW m \in Nat, NEW names \in [1 .. m -> Listable]
  PROVE  /\ NameParts(names) \in Seq(Seq(Byte)) /\ Len(NameParts(names)) = m
         /\ joined(names) = FlattenSeq(NameParts(names)) /\ names \in Words /\ Len(names) = m
         /\ \A i \in 1 .. m : NameParts(names)[i] = IF i = 1 THEN names[i] ELSE <<Comma>> \o names[i]
<1> DEFINE p == NameParts(names)
<1>1. DOMAIN names = 1 .. m
  OBVIOUS
<1>2. <<Comma>> \in Seq(Byte)
  <2>1. Comma \in Byte
    BY Sizes DEF Comma, Byte
  <2> QED
    BY <2>1
<1>3. \A i \in 1 .. m : names[i] \in Seq(Byte)
  BY ListableIs
<1>4. \A i \in 1 .. m : <<Comma>> \o names[i] \in Seq(Byte)
  BY <1>2, <1>3, ConcatProperties
<1>5. p = [i \in 1 .. m |-> IF i = 1 THEN names[i] ELSE <<Comma>> \o names[i]]
  BY <1>1 DEF NameParts
<1>6. p \in [1 .. m -> Seq(Byte)]
  BY <1>3, <1>4, <1>5
<1>7. joined(names) = FlattenSeq(p)
  BY DEF joined, NameParts
<1>8. \A i \in 1 .. m : p[i] = IF i = 1 THEN names[i] ELSE <<Comma>> \o names[i]
  BY <1>5
<1> HIDE DEF p
<1>9. p \in Seq(Seq(Byte)) /\ Len(p) = m
  BY <1>6
<1>10. names \in Words /\ Len(names) = m
  <2>1. names \in [1 .. m -> Seq(Byte)]
    BY <1>3
  <2> QED
    BY <2>1 DEF Words
<1> QED
  BY <1>7, <1>8, <1>9, <1>10 DEF p

\* The names of a list are the ones that were put into it.
LEMMA NamesRead ==
  ASSUME NEW m \in Nat, NEW names \in [1 .. m -> Listable]
  PROVE  tokens(joined(names)) = names
<1> DEFINE p == NameParts(names)
           d == joined(names)
<1>1. /\ p \in Seq(Seq(Byte)) /\ Len(p) = m /\ d = FlattenSeq(p) /\ names \in Words /\ Len(names) = m
      /\ \A i \in 1 .. m : p[i] = IF i = 1 THEN names[i] ELSE <<Comma>> \o names[i]
  BY NamePartsAre
<1> HIDE DEF p, d
<1>2. PICK h : Parts(h, p) /\ d = h[m]
  BY <1>1, FlattenParts
<1>3. d \in Seq(Byte) /\ Len(d) \in Nat
  <2>1. m \in 0 .. Len(p)
    BY <1>1
  <2>2. d \in Seq(Byte)
    BY <1>1, <1>2, <2>1, PartsAgree
  <2> QED
    BY <2>2
<1>4. PICK v : Named(v, d) /\ tokens(d) = v[Len(d)]
  BY <1>3, TokensAre
<1> DEFINE T == {k \in 0 .. m : v[Len(h[k])] = SubSeq(names, 1, k)}
<1>5. Len(h[0]) = 0 /\ v[0] = <<>> /\ SubSeq(names, 1, 0) = <<>>
  <2>1. h[0] = <<>>
    BY <1>2 DEF Parts
  <2>2. SubSeq(names, 1, 0) = <<>>
    BY SubSeqEmpty
  <2> QED
    BY <1>4, <2>1, <2>2 DEF Named
<1>6. 0 \in T
  <2>1. 0 \in 0 .. m
    OBVIOUS
  <2>2. v[Len(h[0])] = SubSeq(names, 1, 0)
    BY <1>5
  <2> QED
    BY <2>1, <2>2
<1>7. ASSUME NEW k \in 1 .. m, k - 1 \in T
      PROVE  k \in T
  <2> DEFINE at == Len(h[k - 1])
             s == names[k]
             t == SubSeq(names, 1, k - 1)
  <2>1. /\ at \in Nat /\ Len(h[k]) = at + Len(p[k]) /\ Len(h[k]) <= Len(d) /\ Agrees(d, at, p[k])
        /\ Len(h[k]) \in Nat
    <3>1. k - 1 \in 0 .. Len(p) /\ k \in 1 .. Len(p) /\ k \in 0 .. Len(p) /\ h[Len(p)] = d
      BY <1>1, <1>2
    <3> QED
      BY <1>1, <1>2, <3>1, PartsAgree
  <2>2. s \in Listable /\ s \in Seq(Byte) /\ Len(s) \in Nat /\ Len(s) >= 1
    <3>1. s \in Listable
      OBVIOUS
    <3> QED
      BY <3>1, ListableIs
  <2>3. v[at] = t
    BY <1>7
  <2>4. t \in Words
    <3>1. \A i \in 1 .. k - 1 : names[i] \in Seq(Byte)
      BY ListableIs
    <3>2. 1 \in Int /\ k - 1 \in Int
      OBVIOUS
    <3>3. SubSeq(names, 1, k - 1) \in Seq(Seq(Byte))
      BY <3>1, <3>2, SubSeqProperties
    <3> QED
      BY <3>3 DEF Words
  <2>5. Append(t, s) = SubSeq(names, 1, k)
    <3>1. names \in Seq(Seq(Byte)) /\ k \in 1 .. Len(names)
      BY <1>1 DEF Words
    <3> QED
      BY <3>1, OneMore
  <2> HIDE DEF at, t, T
  <2>6. v[Len(h[k])] = Append(t, s)
    <3>1. CASE k = 1
      <4>1. p[k] = s /\ at = 0
        BY <1>1, <1>5, <3>1 DEF at
      <4> HIDE DEF s
      <4>2. at + Len(s) <= Len(d) /\ Len(h[k]) = at + Len(s) /\ Agrees(d, at, s)
        BY <2>1, <4>1
      <4>3. v[at + Len(s)] = Append(t, s)
        BY <1>3, <1>4, <2>1, <2>2, <2>3, <2>4, <4>1, <4>2, NameTaken
      <4> QED
        BY <4>2, <4>3
    <3>2. CASE k # 1
      <4> DEFINE c == <<Comma>>
      <4>1. p[k] = c \o s
        BY <1>1, <3>2
      <4>2. c \in Seq(Byte) /\ Len(c) = 1 /\ c[1] = Comma
        <5>1. Comma \in Byte
          BY Sizes DEF Comma, Byte
        <5> QED
          BY <5>1
      <4> HIDE DEF c, s
      <4>3. /\ Len(c \o s) = Len(c) + Len(s) /\ Agrees(c \o s, 0, c) /\ Agrees(c \o s, Len(c), s)
            /\ c \o s \in Seq(Byte)
        BY <2>2, <4>2, ConcatAgrees
      <4> DEFINE q == c \o s
      <4>4. Len(q) = 1 + Len(s) /\ Agrees(q, 0, c) /\ Agrees(q, 1, s) /\ q \in Seq(Byte) /\ p[k] = q
        <5> HIDE DEF q
        <5>1. Len(q) = Len(c) + Len(s) /\ Agrees(q, 0, c) /\ Agrees(q, Len(c), s)
              /\ q \in Seq(Byte) /\ p[k] = q
          BY <4>1, <4>3 DEF q
        <5> QED
          BY <4>2, <5>1
      <4> HIDE DEF q
      <4>5. Agrees(d, at, q) /\ at + Len(q) <= Len(d) /\ Len(h[k]) = (at + 1) + Len(s)
            /\ at + 1 \in Nat /\ (at + 1) + Len(s) <= Len(d)
        <5> DEFINE x == Len(s)
                   y == Len(d)
                   z == Len(h[k])
        <5>1. /\ x \in Nat /\ y \in Nat /\ z \in Nat /\ at \in Nat /\ z = at + Len(q) /\ Len(q) = 1 + x
              /\ z <= y
          BY <1>3, <2>1, <2>2, <4>4
        <5>2. Agrees(d, at, q)
          BY <2>1, <4>4
        <5> HIDE DEF x, y, z
        <5>3. at + Len(q) <= y /\ z = (at + 1) + x /\ at + 1 \in Nat /\ (at + 1) + x <= y
          BY <5>1
        <5> QED
          BY <5>2, <5>3 DEF x, y, z
      <4>6. Agrees(d, at + 0, c) /\ Agrees(d, at + 1, s)
        <5>1. 0 + Len(c) <= Len(q) /\ 1 + Len(s) <= Len(q) /\ 0 \in Nat /\ 1 \in Nat
          BY <2>2, <4>2, <4>4
        <5> QED
          BY <2>1, <2>2, <4>2, <4>4, <4>5, <5>1, Within
      <4>7. d[at + 1] = Comma /\ at + 1 \in 1 .. Len(d) /\ (at + 1) - 1 = at
        <5>1. at + 1 \in 1 .. Len(d) /\ (at + 1) - 1 = at /\ (at + 0) + 1 = at + 1 /\ 1 \in 1 .. Len(c)
          BY <1>3, <2>1, <2>2, <4>2, <4>5
        <5>2. (at + 0) + 1 <= Len(d)
          BY <1>3, <2>1, <5>1
        <5>3. d[(at + 0) + 1] = c[1]
          BY <4>6, <5>1, <5>2 DEF Agrees
        <5> QED
          BY <4>2, <5>1, <5>3
      <4>8. v[at + 1] = t
        <5>1. v[at + 1] = NameStep(d, v[(at + 1) - 1], at + 1)
          BY <1>4, <4>7 DEF Named
        <5> QED
          BY <2>3, <4>7, <5>1 DEF NameStep
      <4>9. v[(at + 1) + Len(s)] = Append(t, s)
        <5> DEFINE a == at + 1
        <5>1. /\ a \in Nat /\ a + Len(s) <= Len(d) /\ Agrees(d, a, s) /\ v[a] = t /\ d[a] = Comma
          BY <4>5, <4>6, <4>7, <4>8
        <5>a. a = 0 \/ d[a] = Comma
          BY <5>1
        <5> HIDE DEF a
        <5>b. d \in Seq(Byte) /\ Named(v, d)
          BY <1>3, <1>4
        <5>2. v[a + Len(s)] = Append(t, s)
          BY <2>2, <2>4, <5>1, <5>a, <5>b, NameTaken
        <5> QED
          BY <5>2 DEF a
      <4> QED
        BY <4>5, <4>9
    <3> QED
      BY <3>1, <3>2
  <2> QED
    BY <2>5, <2>6 DEF T
<1>8. \A k \in 0 .. m : k \in T
  <2> HIDE DEF T
  <2> QED
    BY <1>6, <1>7, Climb
<1>9. v[Len(d)] = SubSeq(names, 1, m)
  BY <1>2, <1>8
<1>10. SubSeq(names, 1, m) = names
  <2>1. names \in Seq(Seq(Byte))
    BY <1>1 DEF Words
  <2> QED
    BY <1>1, <2>1, SubSeqFull
<1>11. tokens(d) = names
  BY <1>4, <1>9, <1>10
<1> QED
  BY <1>11 DEF d

\* A list of two names fits into an answer.
LEMMA NamesFit ==
  ASSUME NEW m \in 0 .. 2, NEW names \in [1 .. m -> Listable]
  PROVE  Text(joined(names), Long)
<1> DEFINE p == NameParts(names)
           d == joined(names)
<1>1. /\ p \in Seq(Seq(Byte)) /\ Len(p) = m /\ d = FlattenSeq(p) /\ m \in Nat
      /\ \A i \in 1 .. m : p[i] = IF i = 1 THEN names[i] ELSE <<Comma>> \o names[i]
  BY NamePartsAre
<1> HIDE DEF p, d
<1>2. PICK h : Parts(h, p) /\ d = h[m]
  BY <1>1, FlattenParts
<1>3. d \in Seq(Byte)
  <2>1. m \in 0 .. Len(p)
    BY <1>1
  <2>2. h[m] \in Seq(Byte)
    BY <1>1, <1>2, <2>1, PartsAgree, Zenon
  <2> QED
    BY <1>2, <2>2
<1>4. ASSUME NEW i \in 1 .. m
      PROVE  Len(p[i]) \in Nat /\ Len(p[i]) <= Short + 1
  <2> DEFINE s == names[i]
             c == <<Comma>>
  <2>1. s \in Seq(Byte) /\ Len(s) \in Nat /\ Len(s) < Short
    <3>1. s \in Listable
      OBVIOUS
    <3> QED
      BY <3>1, ListableIs
  <2>2. c \in Seq(Byte) /\ Len(c) = 1
    <3>1. Comma \in Byte
      BY Sizes DEF Comma, Byte
    <3> QED
      BY <3>1
  <2> HIDE DEF s, c
  <2>3. Len(c \o s) = Len(c) + Len(s)
    BY <2>1, <2>2, ConcatAgrees
  <2>4. p[i] = s \/ p[i] = c \o s
    BY <1>1 DEF s, c
  <2> DEFINE x == Len(s)
             y == Len(p[i])
  <2>5. x \in Nat /\ x < Short /\ (y = x \/ y = 1 + x)
    BY <2>1, <2>2, <2>3, <2>4
  <2> HIDE DEF x, y
  <2>6. y \in Nat /\ y <= Short + 1
    BY <2>5, Sizes
  <2> QED
    BY <2>6 DEF y
<1>5. Len(h[0]) = 0
  <2>1. h[0] = <<>>
    BY <1>2 DEF Parts
  <2> QED
    BY <2>1
<1>6. \A i \in 1 .. m : Len(h[i]) = Len(h[i - 1]) + Len(p[i])
  BY <1>1, <1>2, PartsAgree
<1>7. Len(d) < Long
  <2>1. CASE m = 0
    BY <1>2, <1>5, <2>1, Sizes
  <2>2. CASE m = 1
    <3>1. 1 \in 1 .. m /\ 1 - 1 = 0
      BY <2>2
    <3> DEFINE x == Len(p[1])
    <3>2. x \in Nat /\ x <= Short + 1 /\ Len(h[1]) = 0 + x
      BY <1>4, <1>5, <1>6, <3>1
    <3> HIDE DEF x
    <3>3. Len(h[1]) < Long
      BY <3>2, Sizes
    <3> QED
      BY <1>2, <2>2, <3>3
  <2>3. CASE m = 2
    <3>1. 1 \in 1 .. m /\ 2 \in 1 .. m /\ 1 - 1 = 0 /\ 2 - 1 = 1
      BY <2>3
    <3> DEFINE x == Len(p[1])
               y == Len(p[2])
    <3>2. x \in Nat /\ x <= Short + 1 /\ y \in Nat /\ y <= Short + 1
      BY <1>4, <3>1
    <3>3. Len(h[1]) = 0 + x /\ Len(h[2]) = Len(h[1]) + y
      BY <1>5, <1>6, <3>1
    <3> HIDE DEF x, y
    <3>4. Len(h[2]) = x + y
      BY <3>2, <3>3
    <3>5. Len(h[2]) < Long
      BY <3>2, <3>4, Sizes
    <3> QED
      BY <1>2, <2>3, <3>5
  <2>4. m = 0 \/ m = 1 \/ m = 2
    OBVIOUS
  <2> QED
    BY <2>1, <2>2, <2>3, <2>4
<1> QED
  BY <1>3, <1>7 DEF Text, d

-----------------------------------------------------------------------------
(* The invariant: the bytes on the wire are the head of a message that one   *)
(* of the writers made, and the reader has taken what it makes of them.      *)

\* An answer of the server with this value.
Responds(w, status, value) ==
  /\ status \in Byte /\ Text(value, Long)
  /\ \E seq \in Seqs : w = encodeResponse(status, seq, value)

Greets(w, what) ==
  \E id \in Countable, m \in 0 .. 9 : \E plugins \in [1 .. m -> Countable] :
    what = [id |-> id, plugins |-> plugins] /\ w = encodeHandshake(id, plugins)

Notifies(w, what) ==
  \E topic \in Countable \ {<<>>}, headers \in Countable, payload \in Payload :
    what = [topic |-> topic, data |-> payload] /\ w = encodePubSubEvent(topic, headers, payload)

\* What each kind of message is, when what is meant by it is "what".
Sent(k, what, w) ==
  /\ w \in Seq(Byte)
  /\ \/ k = "request" /\ Request(what, w)
     \/ k \in {"overlong", "expiring"} /\ Request(Carried(k, what), w)
     \/ k = "vain" /\ Vain(w)
     \/ k = "answer" /\ \E status, value : what = Answer(status, value) /\ Responds(w, status, value)
     \/ k = "names" /\ \E value : what = tokens(value) /\ Responds(w, 0, value)
     \/ k = "items" /\ \E value : what = parse_range_response(value) /\ Responds(w, 0, value)
     \/ k = "handshake" /\ Greets(w, what)
     \/ k = "event" /\ Notifies(w, what)

\* What the reader makes of the bytes.
Reading(k, d) ==
  IF k \in {"request", "overlong", "expiring", "vain"} THEN Understood(d) ELSE Taken(k, d)

IInv ==
  /\ phase \in {"idle", "sent", "read"} /\ cut \in BOOLEAN /\ wire \in Seq(Byte)
  /\ phase = "idle" => ~cut
  /\ phase # "idle" => \E w : Sent(kind, meant, w) /\ Heads(wire, w) /\ (cut <=> Len(wire) < Len(w))
  /\ phase = "read" => got = Reading(kind, wire)

LEMMA RespondsReads ==
  ASSUME NEW w, NEW status, NEW value, Responds(w, status, value), NEW d, Heads(d, w)
  PROVE  /\ decode_response(d) = IF Len(d) < Len(w) THEN Refused ELSE Answer(status, value)
         /\ decode_range_response_binary(d) = decode_response(d)
         /\ Answer(status, value) # Refused /\ Answer(status, value).value = value
<1>1. PICK seq \in Seqs : w = encodeResponse(status, seq, value)
  BY DEF Responds
<1>2. status \in Byte /\ Text(value, Long)
  BY DEF Responds
<1>3. Answer(status, value).value = value
  BY DEF Answer
<1> QED
  BY <1>1, <1>2, <1>3, ResponseReads

\* A whole message is read as it was meant, a torn one is refused.
LEMMA SentReads ==
  ASSUME NEW k, NEW what, NEW w, Sent(k, what, w), k \notin {"overlong", "expiring", "vain", "event"}, NEW d, Heads(d, w)
  PROVE  Reading(k, d) = IF Len(d) < Len(w) THEN Refused ELSE what
<1>1. CASE k = "request"
  <2>1. Request(what, w)
    BY <1>1 DEF Sent
  <2>2. Understood(d) = IF Len(d) < Len(w) THEN Refused ELSE what
    BY <2>1, RequestArrives
  <2> QED
    BY <1>1, <2>2 DEF Reading
<1>2. CASE k = "answer"
  <2>1. PICK status, value : what = Answer(status, value) /\ Responds(w, status, value)
    BY <1>2 DEF Sent
  <2>2. decode_response(d) = IF Len(d) < Len(w) THEN Refused ELSE what
    BY <2>1, RespondsReads
  <2>3. Reading(k, d) = decode_response(d)
    BY <1>2 DEF Reading, Taken
  <2> QED
    BY <2>2, <2>3
<1>3. CASE k = "names"
  <2>1. PICK value : what = tokens(value) /\ Responds(w, 0, value)
    BY <1>3 DEF Sent
  <2>2. /\ decode_response(d) = IF Len(d) < Len(w) THEN Refused ELSE Answer(0, value)
        /\ Answer(0, value) # Refused /\ Answer(0, value).value = value
    BY <2>1, RespondsReads
  <2>3. Reading(k, d) = IF decode_response(d) = Refused THEN Refused ELSE tokens(decode_response(d).value)
    BY <1>3 DEF Reading, Taken
  <2> QED
    BY <2>1, <2>2, <2>3
<1>4. CASE k = "items"
  <2>1. PICK value : what = parse_range_response(value) /\ Responds(w, 0, value)
    BY <1>4 DEF Sent
  <2>2. /\ decode_range_response_binary(d) = IF Len(d) < Len(w) THEN Refused ELSE Answer(0, value)
        /\ Answer(0, value) # Refused /\ Answer(0, value).value = value
    BY <2>1, RespondsReads
  <2>3. Reading(k, d) = IF decode_range_response_binary(d) = Refused THEN Refused
                        ELSE parse_range_response(decode_range_response_binary(d).value)
    BY <1>4 DEF Reading, Taken
  <2> QED
    BY <2>1, <2>2, <2>3
<1>5. CASE k = "handshake"
  <2>1. Greets(w, what)
    BY <1>5 DEF Sent
  <2>2. PICK id \in Countable, m \in 0 .. 9 : \E plugins \in [1 .. m -> Countable] :
          what = [id |-> id, plugins |-> plugins] /\ w = encodeHandshake(id, plugins)
    BY <2>1 DEF Greets
  <2>3. PICK plugins \in [1 .. m -> Countable] :
          what = [id |-> id, plugins |-> plugins] /\ w = encodeHandshake(id, plugins)
    BY <2>2
  <2>4. parse_handshake(d) = IF Len(d) < Len(w) THEN Refused ELSE what
    BY <2>3, HandshakeReads
  <2>5. Reading(k, d) = parse_handshake(d)
    BY <1>5 DEF Reading, Taken
  <2> QED
    BY <2>4, <2>5
<1>6. k \in {"request", "answer", "names", "items", "handshake"}
  BY DEF Sent
<1> QED
  BY <1>1, <1>2, <1>3, <1>4, <1>5, <1>6

\* Of a torn event at most the payload is missing.
LEMMA EventSentReads ==
  ASSUME NEW what, NEW w, Sent("event", what, w), NEW d, Heads(d, w)
  PROVE  /\ Reading("event", d) \in IF Len(d) < Len(w)
                                    THEN {Refused, [topic |-> what.topic, data |-> <<>>]} ELSE {what}
         /\ \A r \in {decode_response(d), decode_range_response_binary(d)} :
              r = Refused \/ (Len(d) > Short + 8 /\ r.status = Event0xFF)
<1>1. PICK topic \in Countable \ {<<>>}, headers \in Countable, payload \in Payload :
        what = [topic |-> topic, data |-> payload] /\ w = encodePubSubEvent(topic, headers, payload)
  BY DEF Sent, Notifies
<1>2. topic \in Countable /\ topic # <<>> /\ Heads(d, encodePubSubEvent(topic, headers, payload))
  BY <1>1
<1>3. Reading("event", d) = process_pubsub_event(d)
  BY DEF Reading, Taken
<1>4. /\ Len(d) < Len(w) =>
           process_pubsub_event(d) \in {Refused, [topic |-> topic, data |-> <<>>]}
      /\ Len(d) = Len(w) => process_pubsub_event(d) = [topic |-> topic, data |-> payload]
  BY <1>1, <1>2, EventReads
<1>5. what.topic = topic
  BY <1>1
<1>6. Len(d) < Len(w) \/ Len(d) = Len(w)
  <2>1. Len(d) \in Nat /\ Len(w) \in Nat /\ Len(d) <= Len(w)
    BY DEF Heads
  <2> QED
    BY <2>1
<1>7. Len(d) = Len(w) => ~(Len(d) < Len(w))
  <2>1. Len(d) \in Nat /\ Len(w) \in Nat
    BY DEF Heads
  <2> QED
    BY <2>1
<1>8. Reading("event", d) \in IF Len(d) < Len(w)
                              THEN {Refused, [topic |-> what.topic, data |-> <<>>]} ELSE {what}
  <2>1. CASE Len(d) < Len(w)
    BY <1>3, <1>4, <1>5, <2>1
  <2>2. CASE Len(d) = Len(w)
    BY <1>1, <1>3, <1>4, <1>7, <2>2
  <2> QED
    BY <1>6, <2>1, <2>2
<1>9. /\ decode_range_response_binary(d) = decode_response(d)
      /\ \/ decode_response(d) = Refused
         \/ Len(d) > Short + 8 /\ decode_response(d).status = Event0xFF
  BY <1>1, <1>2, EventNoAnswer
<1>10. \A r \in {decode_response(d), decode_range_response_binary(d)} :
         r = Refused \/ (Len(d) > Short + 8 /\ r.status = Event0xFF)
  BY <1>9
<1> QED
  BY <1>8, <1>10

-----------------------------------------------------------------------------
(* Each action sends such a message, shortens it or reads it.                *)

LEMMA SendsKeeps ==
  ASSUME IInv, NEW k, NEW what, NEW w, Sends(k, what, w), Sent(k, what, w)
  PROVE  IInv'
<1>1. phase = "idle" /\ ~cut /\ cut \in BOOLEAN
  BY DEF IInv, Sends
<1>2. phase' = "sent" /\ kind' = k /\ meant' = what /\ wire' = w /\ cut' = cut
  BY DEF Sends
<1>3. w \in Seq(Byte) /\ Heads(w, w)
  BY Whole DEF Sent
<1>4. ~(Len(w) < Len(w))
  <2>1. Len(w) \in Nat
    BY <1>3
  <2> QED
    BY <2>1
<1>5. \E u : Sent(k, what, u) /\ Heads(w, u) /\ (cut <=> Len(w) < Len(u))
  BY <1>1, <1>3, <1>4
<1> QED
  BY <1>1, <1>2, <1>3, <1>5 DEF IInv

\* A request is one whatever is meant by it.
LEMMA RequestIs ==
  ASSUME NEW seq \in Seqs, NEW cmd, NEW key, NEW fields, NEW value, Requested(cmd, key, fields, value)
  PROVE  /\ Request(<<cmd, key, fields>>, encode_request(cmd, seq, key, value))
         /\ encode_request(cmd, seq, key, value) \in Seq(Byte)
<1> DEFINE w == encode_request(cmd, seq, key, value)
<1>1. Request(<<cmd, key, fields>>, w)
  BY DEF Request
<1>2. Fit(RequestFields, <<cmd, seq, 0, key, value>>)
  BY RequestFits DEF Requested
<1>3. w = Encode(RequestFields, <<cmd, seq, 0, key, value>>)
  <2>1. Cut(key) = key
    BY CutIs DEF Requested, Text
  <2> QED
    BY <2>1 DEF encode_request, RequestFields
<1> HIDE DEF w
<1>4. w \in Seq(Byte)
  BY <1>2, <1>3, OffsetsExist
<1> QED
  BY <1>1, <1>4 DEF w

LEMMA AskKeeps ==
  ASSUME IInv, Ask
  PROVE  IInv'
<1> DEFINE With(seq, cmd, key, fields, payload) ==
             Asks("request", <<cmd, key, fields>>, encode_request(cmd, seq, key, payload))
           Asked(seq, a, b, c, limit) ==
             \/ With(seq, Command.set, a, <<b>>, b)
             \/ With(seq, Command.range, <<>>, <<a, b, limit, c>>, encode_range_request(a, b, limit, c))
             \/ With(seq, Command.prefix, <<>>, <<a, limit, c>>, encode_prefix_request(a, limit, c))
             \/ With(seq, Command.subscribe, <<>>, <<0, a, <<>>>>, subscribe_payload(a))
             \/ With(seq, Command.history, <<>>, <<a, limit, limit>>,
                     encode_history_request(a, limit, limit))
             \/ With(seq, Command.presence, a, <<0>>, encode_presence_request(0))
             \/ With(seq, Command.watch, <<>>, <<a, b, 0>>, watch_payload(a, b))
<1>1. PICK seq \in Seqs, a \in Countable, b \in Countable, c \in Countable :
        \E limit \in {0, Base} : Asked(seq, a, b, c, limit)
  BY DEF Ask
<1>2. PICK limit \in {0, Base} : Asked(seq, a, b, c, limit)
  BY <1>1
<1>3. ASSUME NEW cmd, NEW key, NEW fields, NEW value, Requested(cmd, key, fields, value),
             With(seq, cmd, key, fields, value)
      PROVE  IInv'
  <2> DEFINE w == encode_request(cmd, seq, key, value)
             m == <<cmd, key, fields>>
  <2>1. Request(m, w) /\ w \in Seq(Byte)
    BY <1>3, RequestIs
  <2>2. Sends("request", m, w)
    BY <1>3 DEF Asks
  <2> HIDE DEF m, w
  <2>3. Sent("request", m, w)
    BY <2>1 DEF Sent
  <2> QED
    BY <2>2, <2>3, SendsKeeps
<1>4. /\ Requested(Command.set, a, <<b>>, b)
      /\ Requested(Command.range, <<>>, <<a, b, limit, c>>, encode_range_request(a, b, limit, c))
      /\ Requested(Command.prefix, <<>>, <<a, limit, c>>, encode_prefix_request(a, limit, c))
      /\ Requested(Command.subscribe, <<>>, <<0, a, <<>>>>, subscribe_payload(a))
      /\ Requested(Command.history, <<>>, <<a, limit, limit>>, encode_history_request(a, limit, limit))
      /\ Requested(Command.presence, a, <<0>>, encode_presence_request(0))
      /\ Requested(Command.watch, <<>>, <<a, b, 0>>, watch_payload(a, b))
  BY AskRequests
<1> HIDE DEF With
<1>5. CASE With(seq, Command.set, a, <<b>>, b)
  BY <1>3, <1>4, <1>5
<1>6. CASE With(seq, Command.range, <<>>, <<a, b, limit, c>>, encode_range_request(a, b, limit, c))
  BY <1>3, <1>4, <1>6
<1>7. CASE With(seq, Command.prefix, <<>>, <<a, limit, c>>, encode_prefix_request(a, limit, c))
  BY <1>3, <1>4, <1>7
<1>8. CASE With(seq, Command.subscribe, <<>>, <<0, a, <<>>>>, subscribe_payload(a))
  BY <1>3, <1>4, <1>8
<1>9. CASE With(seq, Command.history, <<>>, <<a, limit, limit>>, encode_history_request(a, limit, limit))
  BY <1>3, <1>4, <1>9
<1>10. CASE With(seq, Command.presence, a, <<0>>, encode_presence_request(0))
  BY <1>3, <1>4, <1>10
<1>11. CASE With(seq, Command.watch, <<>>, <<a, b, 0>>, watch_payload(a, b))
  BY <1>3, <1>4, <1>11
<1> QED
  BY <1>2, <1>5, <1>6, <1>7, <1>8, <1>9, <1>10, <1>11

LEMMA AskTooMuchKeeps ==
  ASSUME IInv, AskTooMuch
  PROVE  IInv'
<1>1. PICK seq \in Seqs, a \in String, b \in Countable :
        LET bytes == encode_request(Command.set, seq, a, b)
        IN \/ a \notin Countable /\ Asks("overlong", <<Command.set, a, <<b>>>>, bytes)
           \/ a \in Countable /\ Asks("expiring", <<Command.set, a, <<b>>, Base>>, bytes)
  BY DEF AskTooMuch
<1> DEFINE w == encode_request(Command.set, seq, a, b)
<1>2. w = encode_request(Command.set, seq, Cut(a), b)
  <2>1. Cut(Cut(a)) = Cut(a)
    BY AnyStringIs, CutIs DEF Text
  <2> QED
    BY <2>1 DEF encode_request
<1>3. Requested(Command.set, Cut(a), <<b>>, b)
  BY AnyStringIs, SetRequest
<1>4. Request(<<Command.set, Cut(a), <<b>>>>, w) /\ w \in Seq(Byte)
  BY <1>2, <1>3, RequestIs
<1>5. CASE a \notin Countable /\ Asks("overlong", <<Command.set, a, <<b>>>>, w)
  <2> DEFINE what == <<Command.set, a, <<b>>>>
  <2>1. what[1] = Command.set /\ what[2] = a /\ what[3] = <<b>>
    OBVIOUS
  <2> HIDE DEF w, what
  <2>2. Carried("overlong", what) = <<Command.set, Cut(a), <<b>>>>
    BY <2>1 DEF Carried
  <2>3. Sent("overlong", what, w)
    BY <1>4, <2>2 DEF Sent
  <2>4. Sends("overlong", what, w)
    BY <1>5 DEF Asks, what
  <2> QED
    BY <2>3, <2>4, SendsKeeps
<1>6. CASE a \in Countable /\ Asks("expiring", <<Command.set, a, <<b>>, Base>>, w)
  <2> DEFINE what == <<Command.set, a, <<b>>, Base>>
  <2>1. what[1] = Command.set /\ what[2] = a /\ what[3] = <<b>>
    OBVIOUS
  <2> HIDE DEF w, what
  <2>2. Carried("expiring", what) = <<Command.set, Cut(a), <<b>>>>
    BY <2>1 DEF Carried
  <2>3. Sent("expiring", what, w)
    BY <1>4, <2>2 DEF Sent
  <2>4. Sends("expiring", what, w)
    BY <1>6 DEF Asks, what
  <2> QED
    BY <2>3, <2>4, SendsKeeps
<1> QED
  BY <1>1, <1>5, <1>6

LEMMA AskInVainKeeps ==
  ASSUME IInv, AskInVain
  PROVE  IInv'
<1>1. PICK seq \in Seqs, a \in Countable, b \in Countable, c \in Countable :
        \/ Sends("vain", <<"publish", a, b>>, publish_request(seq, a, b))
        \/ Sends("vain", <<"set", a, b>>, bb_batch_set(seq, << <<a, b>>, <<b, c>> >>))
        \/ Sends("vain", <<"get", a, b>>, bb_batch_get(seq, <<a, b>>))
        \/ Sends("vain", <<"delete", a>>, bb_batch_delete(seq, <<a>>))
  BY DEF AskInVain
<1>2. ASSUME NEW what, NEW w, Vain(w), Sends("vain", what, w)
      PROVE  IInv'
  <2>1. Sent("vain", what, w)
    BY <1>2 DEF Sent, Vain
  <2> QED
    BY <1>2, <2>1, SendsKeeps
<1>3. Vain(publish_request(seq, a, b))
  BY PublishInVain
<1>4. /\ Vain(bb_batch_set(seq, << <<a, b>>, <<b, c>> >>)) /\ Vain(bb_batch_get(seq, <<a, b>>))
      /\ Vain(bb_batch_delete(seq, <<a>>))
  BY BatchesInVain
<1>5. CASE Sends("vain", <<"publish", a, b>>, publish_request(seq, a, b))
  BY <1>2, <1>3, <1>5
<1>6. CASE Sends("vain", <<"set", a, b>>, bb_batch_set(seq, << <<a, b>>, <<b, c>> >>))
  BY <1>2, <1>4, <1>6
<1>7. CASE Sends("vain", <<"get", a, b>>, bb_batch_get(seq, <<a, b>>))
  BY <1>2, <1>4, <1>7
<1>8. CASE Sends("vain", <<"delete", a>>, bb_batch_delete(seq, <<a>>))
  BY <1>2, <1>4, <1>8
<1> QED
  BY <1>1, <1>5, <1>6, <1>7, <1>8

LEMMA ServerSendsKeeps ==
  ASSUME IInv, ServerSends
  PROVE  IInv'
<1>1. ASSUME NEW k, NEW what, NEW seq \in Seqs, NEW status \in Byte, NEW value, Text(value, Long),
             \/ k = "answer" /\ what = Answer(status, value)
             \/ k = "names" /\ status = 0 /\ what = tokens(value)
             \/ k = "items" /\ status = 0 /\ what = parse_range_response(value),
             Sends(k, what, encodeResponse(status, seq, value))
      PROVE  IInv'
  <2> DEFINE w == encodeResponse(status, seq, value)
  <2>1. w \in Seq(Byte)
    BY <1>1, ResponseIs
  <2>2. Responds(w, status, value)
    BY <1>1 DEF Responds
  <2>3. Sends(k, what, w)
    BY <1>1
  <2> HIDE DEF w
  <2>4. Sent(k, what, w)
    BY <1>1, <2>1, <2>2 DEF Sent
  <2> QED
    BY <2>3, <2>4, SendsKeeps
<1>2. 0 \in Byte /\ \A status \in 0 .. 6 : status \in Byte
  BY Sizes DEF Byte
<1>3. CASE \E seq \in Seqs, status \in 0 .. 6, p \in Payload :
             Sends("answer", [status |-> status, value |-> p], encodeResponse(status, seq, p))
  <2>1. PICK seq \in Seqs, status \in 0 .. 6, p \in Payload :
          Sends("answer", [status |-> status, value |-> p], encodeResponse(status, seq, p))
    BY <1>3
  <2>2. Text(p, Long) /\ status \in Byte
    BY <1>2, PayloadIs
  <2>3. Sends("answer", Answer(status, p), encodeResponse(status, seq, p))
    BY <2>1 DEF Answer
  <2> QED
    BY <1>1, <2>2, <2>3
<1>4. CASE \E seq \in Seqs, m \in 0 .. 2 : \E names \in [1 .. m -> Listable] :
             Sends("names", names, encodeResponse(0, seq, joined(names)))
  <2>1. PICK seq \in Seqs, m \in 0 .. 2 : \E names \in [1 .. m -> Listable] :
          Sends("names", names, encodeResponse(0, seq, joined(names)))
    BY <1>4
  <2>2. PICK names \in [1 .. m -> Listable] :
          Sends("names", names, encodeResponse(0, seq, joined(names)))
    BY <2>1
  <2>3. Text(joined(names), Long) /\ tokens(joined(names)) = names
    <3>1. m \in Nat
      OBVIOUS
    <3> QED
      BY <3>1, NamesRead, NamesFit
  <2> DEFINE value == joined(names)
  <2>4. Text(value, Long) /\ names = tokens(value) /\ Sends("names", names, encodeResponse(0, seq, value))
    BY <2>2, <2>3
  <2> HIDE DEF value
  <2> QED
    BY <1>1, <1>2, <2>4
<1>5. CASE \E seq \in Seqs, more \in BOOLEAN, a, b, c \in Countable :
             \E items \in {<<>>, << <<a, b>> >>, << <<b, c>>, <<a, b>> >>} :
               Sends("items", [items |-> items, more |-> more, cursor |-> c],
                     encodeResponse(0, seq, encodeRangeResponse(items, more, c)))
  <2>1. PICK seq \in Seqs, more \in BOOLEAN, a \in Countable, b \in Countable, c \in Countable :
          \E items \in {<<>>, << <<a, b>> >>, << <<b, c>>, <<a, b>> >>} :
            Sends("items", [items |-> items, more |-> more, cursor |-> c],
                  encodeResponse(0, seq, encodeRangeResponse(items, more, c)))
    BY <1>5
  <2>2. PICK items \in {<<>>, << <<a, b>> >>, << <<b, c>>, <<a, b>> >>} :
          Sends("items", [items |-> items, more |-> more, cursor |-> c],
                encodeResponse(0, seq, encodeRangeResponse(items, more, c)))
    BY <2>1
  <2>3. \E m \in 0 .. 2 : items \in Pairs(m)
    <3> DEFINE x == <<a, b>>
               y == <<b, c>>
               X == Countable \X Countable
    <3>1. x \in X /\ y \in X
      OBVIOUS
    <3>2. items = <<>> \/ items = <<x>> \/ items = <<y, x>>
      OBVIOUS
    <3> HIDE DEF x, y, X
    <3>3. /\ <<>> \in [1 .. 0 -> X] /\ <<x>> \in [1 .. 1 -> X] /\ <<y, x>> \in [1 .. 2 -> X]
      BY <3>1
    <3>4. 0 \in 0 .. 2 /\ 1 \in 0 .. 2 /\ 2 \in 0 .. 2
      OBVIOUS
    <3> QED
      BY <3>2, <3>3, <3>4 DEF Pairs, X
  <2>4. PICK m \in 0 .. 2 : items \in Pairs(m)
    BY <2>3
  <2> DEFINE value == encodeRangeResponse(items, more, c)
             what == [items |-> items, more |-> more, cursor |-> c]
  <2>5. Text(value, Long) /\ parse_range_response(value) = what
    BY <2>4, RangeResponseReads
  <2>6. Sends("items", what, encodeResponse(0, seq, value))
    BY <2>2
  <2> HIDE DEF value, what
  <2> QED
    BY <1>1, <1>2, <2>5, <2>6
<1>6. CASE \E id, a, b \in Countable : \E plugins \in {<<>>, <<a>>, <<a, b>>} :
             Sends("handshake", [id |-> id, plugins |-> plugins], encodeHandshake(id, plugins))
  <2>1. PICK id \in Countable, a \in Countable, b \in Countable : \E plugins \in {<<>>, <<a>>, <<a, b>>} :
          Sends("handshake", [id |-> id, plugins |-> plugins], encodeHandshake(id, plugins))
    BY <1>6
  <2>2. PICK plugins \in {<<>>, <<a>>, <<a, b>>} :
          Sends("handshake", [id |-> id, plugins |-> plugins], encodeHandshake(id, plugins))
    BY <2>1
  <2>3. \E m \in 0 .. 9 : plugins \in [1 .. m -> Countable]
    <3>1. <<>> \in [1 .. 0 -> Countable] /\ <<a>> \in [1 .. 1 -> Countable] /\ <<a, b>> \in [1 .. 2 -> Countable]
      OBVIOUS
    <3>2. 0 \in 0 .. 9 /\ 1 \in 0 .. 9 /\ 2 \in 0 .. 9
      OBVIOUS
    <3>3. plugins = <<>> \/ plugins = <<a>> \/ plugins = <<a, b>>
      OBVIOUS
    <3> QED
      BY <3>1, <3>2, <3>3
  <2>4. PICK m \in 0 .. 9 : plugins \in [1 .. m -> Countable]
    BY <2>3
  <2> DEFINE w == encodeHandshake(id, plugins)
             what == [id |-> id, plugins |-> plugins]
  <2>5. w \in Seq(Byte)
    BY <2>4, HandshakeReads
  <2>6. Greets(w, what)
    BY <2>4 DEF Greets
  <2>7. Sends("handshake", what, w)
    BY <2>2
  <2> HIDE DEF w, what
  <2>8. Sent("handshake", what, w)
    BY <2>5, <2>6 DEF Sent
  <2> QED
    BY <2>7, <2>8, SendsKeeps
<1>7. CASE \E topic \in Countable \ {<<>>}, headers \in Countable, p \in Payload :
             Sends("event", [topic |-> topic, data |-> p], encodePubSubEvent(topic, headers, p))
  <2>1. PICK topic \in Countable \ {<<>>}, headers \in Countable, p \in Payload :
          Sends("event", [topic |-> topic, data |-> p], encodePubSubEvent(topic, headers, p))
    BY <1>7
  <2> DEFINE w == encodePubSubEvent(topic, headers, p)
             what == [topic |-> topic, data |-> p]
  <2>2. w \in Seq(Byte)
    <3> DEFINE e == EventHead(topic, headers, Len(p))
    <3>1. w = e \o p /\ p \in Seq(Byte) /\ e \in Seq(Byte)
      BY EventIs
    <3> HIDE DEF e, w
    <3> QED
      BY <3>1, ConcatAgrees
  <2>3. Notifies(w, what)
    BY DEF Notifies
  <2>4. Sends("event", what, w)
    BY <2>1
  <2> HIDE DEF w, what
  <2>5. Sent("event", what, w)
    BY <2>2, <2>3 DEF Sent
  <2> QED
    BY <2>4, <2>5, SendsKeeps
<1> QED
  BY <1>3, <1>4, <1>5, <1>6, <1>7 DEF ServerSends

LEMMA TearKeeps ==
  ASSUME IInv, Tear
  PROVE  IInv'
<1>1. PICK n \in 1 .. Len(wire) - 1 : wire' = SubSeq(wire, 1, n)
  BY DEF Tear
<1>2. phase = "sent" /\ ~cut /\ cut' = TRUE /\ UNCHANGED <<phase, kind, meant, got>>
  BY DEF Tear
<1>3. wire \in Seq(Byte) /\ Len(wire) \in Nat
  BY DEF IInv
<1>4. PICK w : Sent(kind, meant, w) /\ Heads(wire, w) /\ (cut <=> Len(wire) < Len(w))
  BY <1>2 DEF IInv
<1>5. wire' \in Seq(Byte) /\ Len(wire') = n /\ n \in Nat /\ n < Len(wire)
      /\ \A j \in 1 .. n : wire'[j] = wire[j]
  <2>1. /\ \A i \in 1 .. n : wire[i] \in Byte
        /\ n \in Nat /\ 1 \in Int /\ n \in Int /\ 1 <= n /\ n < Len(wire) /\ (n - 1) + 1 = n
    BY <1>3
  <2>2. /\ SubSeq(wire, 1, n) \in Seq(Byte)
        /\ Len(SubSeq(wire, 1, n)) = IF 1 <= n THEN n - 1 + 1 ELSE 0
        /\ \A i \in 1 .. n - 1 + 1 : SubSeq(wire, 1, n)[i] = wire[1 + i - 1]
    BY <2>1, SubSeqProperties
  <2>3. \A i \in 1 .. n : i \in 1 .. n - 1 + 1 /\ 1 + i - 1 = i
    BY <2>1
  <2> QED
    BY <1>1, <2>1, <2>2, <2>3
<1>6. Len(w) \in Nat /\ Len(wire) <= Len(w) /\ w \in Seq(Byte) /\ \A j \in 1 .. Len(wire) : wire[j] = w[j]
  BY <1>4 DEF Heads
<1>7. Len(wire') < Len(w) /\ Len(wire') <= Len(w)
  BY <1>3, <1>5, <1>6
<1>8. \A j \in 1 .. n : wire'[j] = w[j]
  <2>1. \A j \in 1 .. n : j \in 1 .. Len(wire)
    BY <1>3, <1>5
  <2> QED
    BY <1>5, <1>6, <2>1
<1>9. Heads(wire', w)
  BY <1>5, <1>6, <1>7, <1>8 DEF Heads
<1>10. \E u : Sent(kind', meant', u) /\ Heads(wire', u) /\ (cut' <=> Len(wire') < Len(u))
  BY <1>2, <1>4, <1>7, <1>9
<1> QED
  BY <1>2, <1>5, <1>10 DEF IInv

LEMMA ReceiveKeeps ==
  ASSUME IInv, Receive
  PROVE  IInv'
BY DEF IInv, Receive, Reading

LEMMA IInvAlways == Spec => []IInv
<1>1. Init => IInv
  <2> SUFFICES ASSUME Init
               PROVE  IInv
    OBVIOUS
  <2>1. phase = "idle" /\ cut = FALSE /\ wire = <<>>
    BY DEF Init
  <2>2. wire \in Seq(Byte)
    BY <2>1
  <2>3. phase \in {"idle", "sent", "read"} /\ phase # "read"
    BY <2>1
  <2> QED
    BY <2>1, <2>2, <2>3, Zenon DEF IInv
<1>2. IInv /\ [Next]_vars => IInv'
  <2> SUFFICES ASSUME IInv, [Next]_vars
               PROVE  IInv'
    OBVIOUS
  <2>1. CASE Ask
    BY <2>1, AskKeeps
  <2>7. CASE AskTooMuch
    BY <2>7, AskTooMuchKeeps
  <2>2. CASE AskInVain
    BY <2>2, AskInVainKeeps
  <2>3. CASE ServerSends
    BY <2>3, ServerSendsKeeps
  <2>4. CASE Tear
    BY <2>4, TearKeeps
  <2>5. CASE Receive
    BY <2>5, ReceiveKeeps
  <2>6. CASE UNCHANGED vars
    BY <2>6 DEF IInv, vars, Reading
  <2> QED
    BY <2>1, <2>2, <2>3, <2>4, <2>5, <2>6, <2>7 DEF Next
<1> QED
  BY <1>1, <1>2, PTL DEF Spec

-----------------------------------------------------------------------------
(* What the client and the server can rely on, for any number of values of a  *)
(* byte, any strings, any sequence numbers and any point where a message is   *)
(* torn.                                                                      *)

\* Nothing but bytes is on the wire.
THEOREM TypeCorrect == Spec => []TypeOK
<1>1. IInv => TypeOK
  BY DEF IInv, TypeOK
<1> QED
  BY <1>1, IInvAlways, PTL

LEMMA ReadIsTaken ==
  ASSUME IInv, phase = "read"
  PROVE  \E w : /\ Sent(kind, meant, w) /\ Heads(wire, w) /\ (cut <=> Len(wire) < Len(w))
                /\ got = Reading(kind, wire)
BY DEF IInv

\* The server's decoders of protocol.nim give back what the encoders of protocol.c,
\* bitbarrel.c and pubsub.c were given: command, key and the fields of the value.  Of bb_set
\* with an overlong key or a time to live they give back what was sent of it.
THEOREM RequestsAreUnderstood == Spec => []RequestsArrive
<1>1. IInv => RequestsArrive
  <2> SUFFICES ASSUME IInv, phase = "read", kind \in {"request", "overlong", "expiring"}, ~cut
               PROVE  got = Carried(kind, meant)
    BY DEF RequestsArrive, Arrived
  <2>1. PICK w : /\ Sent(kind, meant, w) /\ Heads(wire, w) /\ (cut <=> Len(wire) < Len(w))
                 /\ got = Reading(kind, wire)
    BY ReadIsTaken
  <2>2. Request(Carried(kind, meant), w)
    <3>1. Carried("request", meant) = meant
      BY DEF Carried
    <3> QED
      BY <2>1, <3>1 DEF Sent
  <2>3. Understood(wire) = Carried(kind, meant)
    BY <2>1, <2>2, RequestArrives
  <2> QED
    BY <2>1, <2>3 DEF Reading
<1> QED
  BY <1>1, IInvAlways, PTL

\* Wherever a request is torn, and whatever is in a batch or a publication, the server
\* refuses it: decodeRequest and the decoders of the values raise at the end of the data.
THEOREM NothingElseIsUnderstood == Spec => []NothingElseArrives
<1>1. IInv => NothingElseArrives
  <2> SUFFICES ASSUME IInv, phase = "read", kind = "vain" \/ (kind \in {"request", "overlong", "expiring"} /\ cut)
               PROVE  got = Refused
    BY DEF NothingElseArrives, Arrived
  <2>1. PICK w : /\ Sent(kind, meant, w) /\ Heads(wire, w) /\ (cut <=> Len(wire) < Len(w))
                 /\ got = Reading(kind, wire)
    BY ReadIsTaken
  <2>2. CASE kind = "vain"
    <3>1. Vain(w)
      BY <2>1, <2>2 DEF Sent
    <3> QED
      BY <2>1, <2>2, <3>1 DEF Vain, Reading
  <2>3. CASE kind \in {"request", "overlong", "expiring"} /\ cut
    <3>1. PICK m : Request(m, w)
      BY <2>1, <2>3 DEF Sent
    <3>2. Understood(wire) = Refused
      BY <2>1, <2>3, <3>1, RequestArrives
    <3> QED
      BY <2>1, <2>3, <3>2 DEF Reading
  <2> QED
    BY <2>2, <2>3
<1> QED
  BY <1>1, IInvAlways, PTL

\* The client's parsers give back what the server wrote: values, names and keys, items with
\* their cursor and mark for more, the handshake, topics and payloads.
THEOREM AnswersAreRead == Spec => []AnswersArrive
<1>1. IInv => AnswersArrive
  <2> SUFFICES ASSUME IInv, phase = "read", ~cut,
                      kind \in {"answer", "names", "items", "handshake", "event"}
               PROVE  got = meant
    BY DEF AnswersArrive, Arrived
  <2>1. PICK w : /\ Sent(kind, meant, w) /\ Heads(wire, w) /\ (cut <=> Len(wire) < Len(w))
                 /\ got = Reading(kind, wire)
    BY ReadIsTaken
  <2>2. CASE kind = "event"
    BY <2>1, <2>2, EventSentReads
  <2>3. CASE kind # "event"
    <3>1. kind \notin {"overlong", "expiring", "vain", "event"}
      BY <2>3
    <3> QED
      BY <2>1, <3>1, SentReads
  <2> QED
    BY <2>2, <2>3
<1> QED
  BY <1>1, IInvAlways, PTL

\* No parser takes a torn answer or handshake for a shorter one; of a torn event
\* process_pubsub_event loses at most the payload.
THEOREM TornAnswersFail == Spec => []TornAnswersAreRefused
<1>1. IInv => TornAnswersAreRefused
  <2> SUFFICES ASSUME IInv, phase = "read", cut
               PROVE  /\ kind \in {"answer", "names", "items", "handshake"} => got = Refused
                      /\ kind = "event" => got \in {Refused, [topic |-> meant.topic, data |-> <<>>]}
    BY DEF TornAnswersAreRefused, Arrived
  <2>1. PICK w : /\ Sent(kind, meant, w) /\ Heads(wire, w) /\ (cut <=> Len(wire) < Len(w))
                 /\ got = Reading(kind, wire)
    BY ReadIsTaken
  <2>2. ASSUME kind = "event"
        PROVE  got \in {Refused, [topic |-> meant.topic, data |-> <<>>]}
    BY <2>1, <2>2, EventSentReads
  <2>3. ASSUME kind \in {"answer", "names", "items", "handshake"}
        PROVE  got = Refused
    <3>1. kind \notin {"overlong", "expiring", "vain", "event"}
      BY <2>3
    <3> QED
      BY <2>1, <3>1, SentReads
  <2> QED
    BY <2>2, <2>3
<1> QED
  BY <1>1, IInvAlways, PTL

\* An event, whole or torn, that a call takes for its answer is refused by decode_response
\* and decode_range_response_binary, or has the status 0xFF, which no caller takes for success.
THEOREM EventsAreNoAnswers == Spec => []EventIsNoAnswer
<1>1. IInv => EventIsNoAnswer
  <2> SUFFICES ASSUME IInv, phase = "sent", kind = "event",
                      NEW r \in {decode_response(wire), decode_range_response_binary(wire)}
               PROVE  r = Refused \/ (Len(wire) > Short + 8 /\ r.status = Event0xFF)
    BY DEF EventIsNoAnswer
  <2>1. PICK w : Sent(kind, meant, w) /\ Heads(wire, w)
    BY DEF IInv
  <2>2. \A x \in {decode_response(wire), decode_range_response_binary(wire)} :
          x = Refused \/ (Len(wire) > Short + 8 /\ x.status = Event0xFF)
    BY <2>1, EventSentReads
  <2> QED
    BY <2>2
<1> QED
  BY <1>1, IInvAlways, PTL

=============================================================================
