------------------------------- MODULE Ranks --------------------------------
(***************************************************************************)
(* Lemmas about the number of smaller elements that an element of a finite *)
(* set has under a strict total order. The models of nodemap.c, of its     *)
(* list_sort and of auto-affinity.c say "the n-th" and "the first n" this  *)
(* way. The order is a set of pairs. Then induction for the loops of the   *)
(* models, and the arithmetic of quotients and remainders that both        *)
(* programs place CPUs with.                                               *)
(***************************************************************************)
EXTENDS Integers, FiniteSets, FiniteSetTheorems, WellFoundedInduction, TLAPS

StrictOrder(S, R) ==
  /\ \A x \in S : <<x, x>> \notin R
  /\ \A x, y, z \in S : <<x, y>> \in R /\ <<y, z>> \in R => <<x, z>> \in R
  /\ \A x, y \in S : x = y \/ <<x, y>> \in R \/ <<y, x>> \in R

\* How many elements of S come before x.
RankOf(S, R, x) == Cardinality({y \in S : <<y, x>> \in R})

LEMMA RankBounds ==
  ASSUME NEW S, IsFiniteSet(S), NEW R, StrictOrder(S, R), NEW x \in S
  PROVE  RankOf(S, R, x) \in 0 .. Cardinality(S) - 1
<1> DEFINE B == {y \in S : <<y, x>> \in R}
<1>1. B \in SUBSET (S \ {x})
  BY DEF StrictOrder
<1>2. /\ IsFiniteSet(S \ {x}) /\ Cardinality(S \ {x}) = Cardinality(S) - 1
      /\ Cardinality(S) \in Nat
  BY FS_RemoveElement, FS_CardinalityType
<1> HIDE DEF B
<1>3. IsFiniteSet(B) /\ Cardinality(B) <= Cardinality(S) - 1
  BY <1>1, <1>2, FS_Subset
<1>4. Cardinality(B) \in Nat
  BY <1>3, FS_CardinalityType
<1> QED
  BY <1>2, <1>3, <1>4 DEF B, RankOf

\* What comes later has more before it.
LEMMA RankGrows ==
  ASSUME NEW S, IsFiniteSet(S), NEW R, StrictOrder(S, R), NEW x \in S, NEW y \in S, <<x, y>> \in R
  PROVE  RankOf(S, R, x) < RankOf(S, R, y)
<1> DEFINE A == {z \in S : <<z, x>> \in R}
           B == {z \in S : <<z, y>> \in R}
<1>1. A \subseteq B /\ x \in B /\ x \notin A
  BY DEF StrictOrder
<1>2. B \in SUBSET S
  OBVIOUS
<1> HIDE DEF A, B
<1>3. IsFiniteSet(B)
  BY <1>2, FS_Subset
<1>4. Cardinality(A) <= Cardinality(B) /\ Cardinality(A) # Cardinality(B) /\ IsFiniteSet(A)
  BY <1>1, <1>3, FS_Subset
<1>5. Cardinality(A) \in Nat /\ Cardinality(B) \in Nat
  BY <1>3, <1>4, FS_CardinalityType
<1> QED
  BY <1>4, <1>5 DEF A, B, RankOf

\* Ranks are different, and every number up to the last is one.
LEMMA RankBijection ==
  ASSUME NEW S, IsFiniteSet(S), NEW R, StrictOrder(S, R)
  PROVE  /\ \A x, y \in S : RankOf(S, R, x) = RankOf(S, R, y) => x = y
         /\ \A n \in 0 .. Cardinality(S) - 1 : \E x \in S : RankOf(S, R, x) = n
<1> DEFINE N == 0 .. Cardinality(S) - 1
           f == [x \in S |-> RankOf(S, R, x)]
<1>1. \A x, y \in S : RankOf(S, R, x) = RankOf(S, R, y) => x = y
  <2> SUFFICES ASSUME NEW x \in S, NEW y \in S, RankOf(S, R, x) = RankOf(S, R, y), x # y
               PROVE  FALSE
    OBVIOUS
  <2>1. <<x, y>> \in R \/ <<y, x>> \in R
    BY DEF StrictOrder
  <2>2. RankOf(S, R, x) < RankOf(S, R, y) \/ RankOf(S, R, y) < RankOf(S, R, x)
    BY <2>1, RankGrows
  <2>3. RankOf(S, R, x) \in Int /\ RankOf(S, R, y) \in Int
    BY RankBounds
  <2> QED
    BY <2>2, <2>3
<1>2. Cardinality(S) \in Nat
  BY FS_CardinalityType
<1>3. IsFiniteSet(N) /\ Cardinality(N) = Cardinality(S)
  BY <1>2, FS_Interval
<1>4. f \in [S -> N]
  BY RankBounds
<1>5. f \in Injection(S, N)
  BY <1>1, <1>4 DEF Injection, IsInjective
<1> HIDE DEF f, N
<1>6. f \in Surjection(S, N)
  BY <1>3, <1>5, FS_Injection
<1>7. \A n \in N : \E x \in S : f[x] = n
  BY <1>6 DEF Surjection
<1> QED
  BY <1>1, <1>7 DEF f, N

\* The elements with fewer than n before them are n.
LEMMA FirstN ==
  ASSUME NEW S, IsFiniteSet(S), NEW R, StrictOrder(S, R), NEW n \in 0 .. Cardinality(S)
  PROVE  Cardinality({x \in S : RankOf(S, R, x) < n}) = n
<1> DEFINE T == {x \in S : RankOf(S, R, x) < n}
           N == 0 .. n - 1
           f == [x \in T |-> RankOf(S, R, x)]
<1>0. n \in Nat /\ Cardinality(S) \in Nat
  BY FS_CardinalityType
<1>1. f \in [T -> N]
  BY <1>0, RankBounds
<1>2. f \in Injection(T, N)
  BY <1>1, RankBijection DEF Injection, IsInjective
<1>3. f \in Surjection(T, N)
  <2> SUFFICES ASSUME NEW k \in N
               PROVE  \E x \in T : f[x] = k
    BY <1>1 DEF Surjection
  <2>1. k \in 0 .. Cardinality(S) - 1
    BY <1>0
  <2>2. PICK x \in S : RankOf(S, R, x) = k
    BY <2>1, RankBijection
  <2>3. x \in T
    BY <1>0, <2>2
  <2> QED
    BY <2>2, <2>3
<1>4. IsFiniteSet(N) /\ Cardinality(N) = n
  <2>1. n - 1 \in Int /\ 0 \in Int
    BY <1>0
  <2>2. IsFiniteSet(N) /\ Cardinality(N) = IF 0 > n - 1 THEN 0 ELSE (n - 1) - 0 + 1
    BY ONLY <2>1, FS_Interval
  <2> QED
    BY <1>0, <2>2
<1> HIDE DEF f, N, T
<1>5. Cardinality(T) = Cardinality(N)
  BY <1>2, <1>3, <1>4, FS_Injection
<1> QED
  BY <1>4, <1>5 DEF T

\* An injective image has as many elements.
LEMMA SameSize ==
  ASSUME NEW S, IsFiniteSet(S), NEW T, NEW f \in [S -> T],
         \A x, y \in S : f[x] = f[y] => x = y, \A t \in T : \E x \in S : f[x] = t
  PROVE  IsFiniteSet(T) /\ Cardinality(T) = Cardinality(S)
<1>1. f \in Bijection(S, T)
  BY DEF Bijection, Injection, Surjection, IsInjective
<1> QED
  BY <1>1, FS_Bijection DEF ExistsBijection

\* The least of two numbers.
LEMMA MinOfTwo ==
  ASSUME NEW a \in Int, NEW b \in Int
  PROVE  (CHOOSE x \in {a, b} : \A y \in {a, b} : x =< y) = IF a <= b THEN a ELSE b
<1> DEFINE m == IF a <= b THEN a ELSE b
<1>1. m \in {a, b} /\ \A y \in {a, b} : m =< y
  OBVIOUS
<1>2. \A x \in {a, b} : (\A y \in {a, b} : x =< y) => x = m
  OBVIOUS
<1> QED
  BY <1>1, <1>2

\* A set of naturals has a least one: induction, as a fact about sets.
LEMMA Least ==
  ASSUME NEW T \in SUBSET Nat, T # {}
  PROVE  \E n \in T : \A m \in T : n <= m
<1> DEFINE R == OpToRel(<, Nat)
<1>1. IsWellFoundedOn(R, Nat)
  BY NatLessThanWellFounded
<1>2. \A x, y \in Nat : x < y => <<x, y>> \in R
  BY DEF OpToRel
<1> HIDE DEF R
<1>3. PICK x \in T : \A y \in T : ~(<<y, x>> \in R)
  BY <1>1, WFMin
<1>4. \A y \in T : ~(y < x)
  BY <1>2, <1>3
<1>5. \A y \in T : x <= y
  BY <1>4
<1> QED
  BY <1>5

LEMMA Greatest ==
  ASSUME NEW N \in Nat, NEW T \in SUBSET (1 .. N), T # {}
  PROVE  \E n \in T : \A m \in T : m <= n
<1> DEFINE U == {u \in Nat : \E n \in T : u = N - n}
<1>0. \A n \in T : n \in Int /\ N - n \in Nat
  OBVIOUS
<1>1. U \in SUBSET Nat /\ U # {}
  BY <1>0
<1> HIDE DEF U
<1>2. PICK u \in U : \A v \in U : u <= v
  BY <1>1, Least
<1>3. PICK n \in T : u = N - n
  BY DEF U
<1>4. ASSUME NEW m \in T PROVE m <= n
  <2>1. N - m \in U
    BY <1>0 DEF U
  <2>2. N - n <= N - m /\ m \in Int /\ n \in Int
    BY <1>0, <1>2, <1>3, <2>1
  <2> QED
    BY <2>2
<1> QED
  BY <1>4

-----------------------------------------------------------------------------
(* Induction, and what a function makes of a value in rounds.              *)

LEMMA Induct ==
  ASSUME NEW T \in SUBSET Nat, 0 \in T, \A n \in T : n + 1 \in T
  PROVE  T = Nat
<1> SUFFICES ASSUME Nat \ T # {} PROVE FALSE
  OBVIOUS
<1>1. PICK n \in Nat \ T : \A m \in Nat \ T : n <= m
  BY Least
<1>2. n # 0 /\ n - 1 \in Nat
  BY <1>1
<1>3. n - 1 \in T
  BY <1>1, <1>2
<1> QED
  BY <1>1, <1>2, <1>3

\* g is what the function f makes of x in M rounds.
Rounds(g, D, f, x, M) ==
  g \in [0 .. M -> D] /\ g[0] = x /\ \A n \in 1 .. M : g[n] = f[g[n - 1]]

LEMMA RoundsExist ==
  ASSUME NEW D, NEW f \in [D -> D], NEW x \in D, NEW M \in Nat
  PROVE  \E g : Rounds(g, D, f, x, M)
<1> DEFINE OK(k, g) == g[0] = x /\ \A n \in 1 .. k : g[n] = f[g[n - 1]]
           T == {k \in Nat : \E g \in [0 .. k -> D] : OK(k, g)}
<1>1. 0 \in T
  <2>1. [n \in 0 .. 0 |-> x] \in [0 .. 0 -> D] /\ OK(0, [n \in 0 .. 0 |-> x])
    OBVIOUS
  <2> QED
    BY <2>1
<1>2. ASSUME NEW k \in T PROVE k + 1 \in T
  <2>1. PICK g \in [0 .. k -> D] : OK(k, g)
    OBVIOUS
  <2> DEFINE h == [n \in 0 .. k + 1 |-> IF n = k + 1 THEN f[g[k]] ELSE g[n]]
  <2>2. k \in Nat /\ g[k] \in D /\ f[g[k]] \in D
    OBVIOUS
  <2>3. h \in [0 .. k + 1 -> D]
    BY <2>2
  <2>4. \A n \in 0 .. k : h[n] = g[n]
    BY <2>2
  <2>5. h[k + 1] = f[g[k]]
    BY <2>2
  <2> HIDE DEF h
  <2>6. OK(k + 1, h)
    BY <2>1, <2>2, <2>4, <2>5
  <2> QED
    BY <2>2, <2>3, <2>6
<1> HIDE DEF T
<1>3. M \in T
  BY <1>1, <1>2, Induct DEF T
<1> QED
  BY <1>3 DEF T, Rounds

\* A function that is defined by rounds as these are.
LEMMA RoundsOnly ==
  ASSUME NEW D, NEW f \in [D -> D], NEW x \in D, NEW M \in Nat, NEW g, Rounds(g, D, f, x, M),
         NEW h, h[0] = x, \A n \in 1 .. M : h[n - 1] \in D => h[n] = f[h[n - 1]]
  PROVE  \A n \in 0 .. M : h[n] = g[n]
<1> DEFINE T == {n \in Nat : n <= M => h[n] = g[n]}
<1>1. 0 \in T
  BY DEF Rounds
<1>2. ASSUME NEW n \in T PROVE n + 1 \in T
  <2> SUFFICES ASSUME n + 1 <= M PROVE h[n + 1] = g[n + 1]
    OBVIOUS
  <2>1. n \in Nat /\ n + 1 \in 1 .. M /\ h[n] = g[n] /\ (n + 1) - 1 = n /\ g[n] \in D
    BY DEF Rounds
  <2>2. h[n + 1] = f[h[n]] /\ g[n + 1] = f[g[n]]
    BY <2>1 DEF Rounds
  <2> QED
    BY <2>1, <2>2
<1> HIDE DEF T
<1>3. T = Nat
  <2>1. T \subseteq Nat
    BY DEF T
  <2> QED
    BY <2>1, <1>1, <1>2, Induct
<1> QED
  BY <1>3 DEF T

-----------------------------------------------------------------------------
(* Quotients and remainders.                                               *)

LEMMA DivMod ==
  ASSUME NEW a \in Int, NEW n \in Nat \ {0}
  PROVE  a % n \in 0 .. n - 1 /\ a = (n * (a \div n)) + (a % n) /\ a \div n \in Int
OBVIOUS

LEMMA NoMultiple ==
  ASSUME NEW n \in Nat \ {0}, NEW d \in Int, NEW e \in Int,
         n * d - n * e < n, -n < n * d - n * e
  PROVE  d = e
<1>1. n * d - n * e = n * (d - e)
  OBVIOUS
<1>2. \A k \in Int : n * k < n /\ -n < n * k => k = 0
  OBVIOUS
<1>3. d - e = 0
  BY <1>1, <1>2
<1> QED
  BY <1>3

\* Numbers less than n apart have different remainders.
LEMMA SameMod ==
  ASSUME NEW n \in Nat \ {0}, NEW a \in Int, NEW b \in Int, a % n = b % n, a - b < n, b - a < n
  PROVE  a = b
<1> DEFINE d == a \div n
           e == b \div n
           r == a % n
<1>1. a = n * d + r /\ b = n * e + r /\ d \in Int /\ e \in Int /\ r \in Int
  BY DivMod
<1> HIDE DEF d, e, r
<1>2. n * d - n * e < n /\ -n < n * d - n * e
  BY <1>1
<1>3. d = e
  BY <1>1, <1>2, NoMultiple
<1> QED
  BY <1>1, <1>3

LEMMA ModIs ==
  ASSUME NEW n \in Nat \ {0}, NEW z \in 0 .. n - 1, NEW q \in Int, NEW x \in Int, x = z + n * q
  PROVE  x % n = z /\ x \div n = q
<1> DEFINE d == x \div n
           r == x % n
<1>1. x = n * d + r /\ d \in Int /\ r \in 0 .. n - 1
  BY DivMod
<1> HIDE DEF d, r
<1>2. n * d - n * q < n /\ -n < n * d - n * q
  BY <1>1
<1>3. d = q
  BY <1>1, <1>2, NoMultiple
<1>4. r = z
  BY <1>1, <1>3
<1> QED
  BY <1>3, <1>4 DEF r, d

=============================================================================
