----------------------------- MODULE ListProofs -----------------------------
(***************************************************************************)
(* Proof that the linked nodes of lib/list.c behave as a sequence with     *)
(* cursors (Implements), that the list and its iterators stay in shape     *)
(* (Shape), and that iterators miss nothing (VisitsAll).                   *)
(***************************************************************************)
EXTENDS List, Ranks

-----------------------------------------------------------------------------
(* Sequences.                                                              *)

LEMMA InsertAtFacts ==
  ASSUME NEW S, NEW s \in Seq(S), NEW k \in 1 .. Len(s) + 1, NEW x \in S
  PROVE  /\ InsertAt(s, k, x) \in Seq(S) /\ Len(InsertAt(s, k, x)) = Len(s) + 1
         /\ \A n \in 1 .. k - 1 : InsertAt(s, k, x)[n] = s[n]
         /\ InsertAt(s, k, x)[k] = x
         /\ \A n \in k + 1 .. Len(s) + 1 : InsertAt(s, k, x)[n] = s[n - 1]
<1> DEFINE t == SubSeq(s, 1, k - 1)
           u == SubSeq(s, k, Len(s))
<1>1. /\ t \in Seq(S) /\ Len(t) = k - 1
      /\ \A n \in 1 .. k - 1 : t[n] = s[n]
  OBVIOUS
<1>2. /\ u \in Seq(S) /\ Len(u) = Len(s) + 1 - k
      /\ \A n \in 1 .. Len(s) + 1 - k : u[n] = s[k + n - 1]
  OBVIOUS
<1>3. InsertAt(s, k, x) = t \o <<x>> \o u
  BY DEF InsertAt
<1> HIDE DEF t, u
<1> DEFINE v == t \o <<x>>
<1>4. v \in Seq(S) /\ Len(v) = k /\ \A n \in 1 .. k : v[n] = IF n < k THEN s[n] ELSE x
  BY <1>1
<1> HIDE DEF v
<1>5. v \o u \in Seq(S) /\ Len(v \o u) = Len(s) + 1
  BY <1>2, <1>4
<1>6. ASSUME NEW n \in 1 .. Len(s) + 1
      PROVE  (v \o u)[n] = IF n < k THEN s[n] ELSE IF n = k THEN x ELSE s[n - 1]
  <2>1. (v \o u)[n] = IF n <= k THEN v[n] ELSE u[n - k]
    BY <1>2, <1>4, SMTT(40)
  <2>2. CASE n > k
    <3>1. n - k \in 1 .. Len(s) + 1 - k /\ k + (n - k) - 1 = n - 1
      BY <2>2
    <3> QED
      BY <1>2, <2>1, <2>2, <3>1
  <2> QED
    BY <1>4, <2>1, <2>2
<1> QED
  BY <1>3, <1>5, <1>6, SMTT(40) DEF v

LEMMA RemoveAtFacts ==
  ASSUME NEW S, NEW s \in Seq(S), NEW k \in 1 .. Len(s)
  PROVE  /\ RemoveAt(s, k) \in Seq(S) /\ Len(RemoveAt(s, k)) = Len(s) - 1
         /\ \A n \in 1 .. Len(s) - 1 : RemoveAt(s, k)[n] = IF n < k THEN s[n] ELSE s[n + 1]
<1> DEFINE t == SubSeq(s, 1, k - 1)
           u == SubSeq(s, k + 1, Len(s))
<1>1. /\ t \in Seq(S) /\ Len(t) = k - 1
      /\ \A n \in 1 .. k - 1 : t[n] = s[n]
  OBVIOUS
<1>2. /\ u \in Seq(S) /\ Len(u) = Len(s) - k
      /\ \A n \in 1 .. Len(s) - k : u[n] = s[k + n]
  <2>1. k + 1 \in 1 .. Len(s) + 1
    OBVIOUS
  <2> QED
    BY <2>1
<1>3. RemoveAt(s, k) = t \o u
  BY DEF RemoveAt
<1> HIDE DEF t, u
<1>4. t \o u \in Seq(S) /\ Len(t \o u) = Len(s) - 1
  BY <1>1, <1>2
<1>5. ASSUME NEW n \in 1 .. Len(s) - 1
      PROVE  (t \o u)[n] = IF n < k THEN s[n] ELSE s[n + 1]
  <2>1. (t \o u)[n] = IF n <= k - 1 THEN t[n] ELSE u[n - (k - 1)]
    BY <1>1, <1>2, SMTT(40)
  <2>2. CASE n >= k
    <3>1. n - (k - 1) \in 1 .. Len(s) - k /\ k + (n - (k - 1)) = n + 1
      BY <2>2
    <3> QED
      BY <1>2, <2>1, <2>2, <3>1
  <2> QED
    BY <1>1, <2>1, <2>2
<1> QED
  BY <1>3, <1>4, <1>5

\* Two sequences with the same elements are the same.
LEMMA SameSeq ==
  ASSUME NEW S, NEW s \in Seq(S), NEW t \in Seq(S), Len(s) = Len(t),
         \A n \in 1 .. Len(s) : s[n] = t[n]
  PROVE  s = t
OBVIOUS

LEMMA Segment ==
  ASSUME NEW n \in Nat
  PROVE  IsFiniteSet(1 .. n) /\ Cardinality(1 .. n) = n
BY FS_Interval

\* A sequence without repetitions has no more elements than there are.
LEMMA ShortSeq ==
  ASSUME NEW S, IsFiniteSet(S), NEW s \in Seq(S), IsInjective(s)
  PROVE  /\ Len(s) <= Cardinality(S)
         /\ Len(s) = Cardinality(S) <=> \A x \in S : \E n \in 1 .. Len(s) : s[n] = x
<1>1. s \in Injection(1 .. Len(s), S)
  BY DEF IsInjective, Injection
<1>2. Cardinality(1 .. Len(s)) = Len(s) /\ Len(s) \in Nat
  BY FS_Interval, SMTT(40)
<1>3. /\ Cardinality(1 .. Len(s)) <= Cardinality(S)
      /\ Cardinality(1 .. Len(s)) = Cardinality(S) <=> s \in Surjection(1 .. Len(s), S)
  BY <1>1, FS_Injection
<1>4. s \in Surjection(1 .. Len(s), S) <=> \A x \in S : \E n \in 1 .. Len(s) : s[n] = x
  BY DEF Surjection
<1> QED
  BY <1>2, <1>3, <1>4

-----------------------------------------------------------------------------
(* The chain of nodes.                                                     *)

Pointers == [Addr -> Node \cup {Null}]

LEMMA Sizes == Cardinality(Node) \in Nat
BY ListAssumption, FS_CardinalityType

\* The pointers lead to one sequence of nodes.
LEMMA ChainIs ==
  ASSUME NEW next \in Pointers, NEW s, Links(next, s)
  PROVE  ChainOf(next) = s
<1> DEFINE M == Cardinality(Node)
           D == Addr \cup {Null}
           F(p) == IF p = Null THEN Null ELSE next[p]
           f == [p \in D |-> F(p)]
           P(h) == h = [k \in 0 .. M |-> IF k = 0 THEN ListHead
                                         ELSE LET p == h[k - 1] IN IF p = Null THEN Null ELSE next[p]]
<1>1. M \in Nat /\ Len(s) \in 0 .. M /\ s \in Seq(Node)
  BY Sizes, ShortSeq, ListAssumption DEF Links
<1>2. f \in [D -> D] /\ \A p \in D : f[p] = F(p)
  BY DEF Pointers, Addr
<1>3. ListHead \in D
  BY DEF Addr
<1> HIDE DEF f, D, M
<1>4. PICK g : Rounds(g, D, f, ListHead, M)
  BY <1>1, <1>2, <1>3, RoundsExist, Zenon
<1>5. P(g)
  <2>1. g \in [0 .. M -> D] /\ g[0] = ListHead
    BY <1>4 DEF Rounds
  <2>2. \A n \in 1 .. M : g[n] = F(g[n - 1])
    BY <1>1, <1>2, <1>4, <2>1 DEF Rounds
  <2> QED
    BY <1>1, <2>1, <2>2
<1> DEFINE at == CHOOSE h : P(h)
<1>6. P(at)
  BY <1>5
<1>7. ChainOf(next) = [k \in 1 .. Cardinality({n \in 1 .. M : at[n] # Null}) |-> at[k]]
  BY DEF ChainOf, M
<1> HIDE DEF at
<1> DEFINE At(k) == IF k <= Len(s) THEN AddrAt(s, k) ELSE Null
           T == {k \in Nat : k <= M => at[k] = At(k)}
<1>8. 0 \in T
  BY <1>1, <1>6 DEF AddrAt
<1>9. ASSUME NEW k \in T PROVE k + 1 \in T
  <2> SUFFICES ASSUME k + 1 <= M PROVE at[k + 1] = At(k + 1)
    OBVIOUS
  <2>1. k \in Nat /\ k + 1 \in 1 .. M /\ (k + 1) - 1 = k /\ at[k] = At(k)
    BY <1>1
  <2>2. at[k + 1] = F(At(k))
    BY <1>1, <1>6, <2>1
  <2>3. CASE k <= Len(s)
    <3>1. AddrAt(s, k) # Null
      BY <1>1, <2>1, <2>3, ListAssumption DEF AddrAt
    <3>2. next[AddrAt(s, k)] = NodeAt(s, k + 1)
      BY <1>1, <2>1, <2>3 DEF Links
    <3>3. NodeAt(s, k + 1) = At(k + 1)
      BY <1>1, <2>1, <2>3 DEF NodeAt, AddrAt
    <3> QED
      BY <2>2, <2>3, <3>1, <3>2, <3>3
  <2>4. CASE k > Len(s)
    BY <1>1, <2>1, <2>2, <2>4
  <2> QED
    BY <1>1, <2>1, <2>3, <2>4
<1> HIDE DEF T
<1>10. T = Nat
  <2>1. T \subseteq Nat
    BY DEF T
  <2> QED
    BY <1>8, <1>9, <2>1, Induct
<1>11. \A k \in 1 .. M : at[k] = IF k <= Len(s) THEN s[k] ELSE Null
  BY <1>1, <1>10 DEF T, AddrAt
<1>12. {n \in 1 .. M : at[n] # Null} = 1 .. Len(s)
  <2>1. \A k \in 1 .. Len(s) : s[k] # Null /\ k \in 1 .. M
    BY <1>1, ListAssumption
  <2> QED
    BY <1>1, <1>11, <2>1
<1>13. Cardinality(1 .. Len(s)) = Len(s)
  <2>1. Len(s) \in Nat
    BY <1>1
  <2> QED
    BY <2>1, Segment
<1>14. ChainOf(next) = [k \in 1 .. Len(s) |-> at[k]]
  BY <1>7, <1>12, <1>13
<1>15. [k \in 1 .. Len(s) |-> at[k]] = [k \in 1 .. Len(s) |-> s[k]]
  BY <1>1, <1>11
<1> QED
  BY <1>1, <1>14, <1>15

\* The least element.
LEMMA MinIs ==
  ASSUME NEW I \in SUBSET Int, NEW n \in I, \A m \in I : n <= m
  PROVE  Min(I) = n
<1>1. \A m \in I : (\A k \in I : m <= k) => m = n
  OBVIOUS
<1>2. Min(I) \in I /\ \A k \in I : Min(I) <= k
  BY DEF Min
<1> QED
  BY <1>1, <1>2

LEMMA IndexIs ==
  ASSUME NEW s \in Seq(Node), IsInjective(s), NEW k \in 1 .. Len(s) + 1
  PROVE  IndexOf(s, NodeAt(s, k)) = k
<1>1. CASE k = Len(s) + 1
  BY <1>1 DEF IndexOf, NodeAt
<1>2. CASE k \in 1 .. Len(s)
  <2> DEFINE I == {i \in 1 .. Len(s) : s[i] = s[k]}
  <2>1. I = {k}
    BY <1>2 DEF IsInjective
  <2>2. NodeAt(s, k) = s[k] /\ s[k] # Null
    BY <1>2, ListAssumption DEF NodeAt
  <2>3. IndexOf(s, s[k]) = IF I # {} THEN Min(I) ELSE 0
    BY <2>2 DEF IndexOf, SelectInSeq
  <2>4. Min({k}) = k
    <3>1. {k} \in SUBSET Int /\ k \in {k} /\ \A m \in {k} : k <= m
      OBVIOUS
    <3> QED
      BY <3>1, MinIs
  <2> QED
    BY <2>1, <2>2, <2>3, <2>4
<1> QED
  BY <1>1, <1>2

Cursor == [next : Nat, cur : BOOLEAN]

\* Before and after the cursor c.
Before(s, c) == AddrAt(s, c.next - (IF c.cur THEN 2 ELSE 1))

\* What memory holds is what the model reads out of it.
LEMMA Reads ==
  ASSUME NEW m \in Memory, NEW its \in SUBSET Iter, NEW s, NEW cur \in [Iter -> Cursor],
         Holds(m, s, cur, its),
         \A i \in Iter \ its : cur[i] = [next |-> 1, cur |-> FALSE]
  PROVE  ChainOf(m.next) = s /\ CursorsOf(m, its) = cur
<1>1. s \in Seq(Node) /\ IsInjective(s) /\ Links(m.next, s)
  BY DEF Holds, Links
<1>2. ChainOf(m.next) = s
  BY <1>1, ChainIs DEF Memory, Pointers
<1>3. ASSUME NEW i \in its
      PROVE  /\ IndexOf(s, m.pos[i]) = cur[i].next
             /\ (m.next[m.prev[i]] # m.pos[i]) = cur[i].cur
  <2> DEFINE c == cur[i]
             n == cur[i].next
  <2>1. /\ i \in Iter /\ c \in Cursor /\ n \in 1 .. Len(s) + 1 /\ (c.cur => n > 1)
        /\ m.prev[i] = Before(s, c) /\ m.pos[i] = NodeAt(s, n)
    BY DEF Holds, Before
  <2>2. IndexOf(s, m.pos[i]) = n
    BY <1>1, <2>1, IndexIs
  <2>3. CASE ~c.cur
    <3>1. m.prev[i] = AddrAt(s, n - 1) /\ n - 1 \in 0 .. Len(s)
      BY <1>1, <2>1, <2>3 DEF Before
    <3>2. m.next[m.prev[i]] = NodeAt(s, (n - 1) + 1)
      BY <1>1, <3>1 DEF Links
    <3>3. (n - 1) + 1 = n
      BY <2>1
    <3>4. m.next[m.prev[i]] = m.pos[i]
      BY <2>1, <3>2, <3>3
    <3>5. c.cur = FALSE
      BY <2>1, <2>3 DEF Cursor
    <3> QED
      BY <2>2, <3>4, <3>5
  <2>4. CASE c.cur
    <3>1. m.prev[i] = AddrAt(s, n - 2) /\ n - 2 \in 0 .. Len(s) /\ n - 1 \in 1 .. Len(s)
      BY <1>1, <2>1, <2>4 DEF Before
    <3>2. m.next[m.prev[i]] = NodeAt(s, (n - 2) + 1) /\ (n - 2) + 1 = n - 1
      BY <1>1, <2>1, <3>1 DEF Links
    <3>3. NodeAt(s, n - 1) # NodeAt(s, n)
      BY <1>1, <2>1, <3>1, ListAssumption DEF NodeAt, IsInjective
    <3> QED
      BY <2>1, <2>2, <2>4, <3>2, <3>3 DEF Cursor
  <2> QED
    BY <2>3, <2>4
<1>4. \A i \in Iter : CursorsOf(m, its)[i] = cur[i]
  <2> SUFFICES ASSUME NEW i \in its PROVE CursorsOf(m, its)[i] = cur[i]
    BY DEF CursorsOf
  <2>1. cur[i] = [next |-> cur[i].next, cur |-> cur[i].cur]
    BY DEF Cursor
  <2>2. CursorsOf(m, its)[i] = [next |-> IndexOf(s, m.pos[i]), cur |-> m.next[m.prev[i]] # m.pos[i]]
    BY <1>2 DEF CursorsOf
  <2> QED
    BY <1>3, <2>1, <2>2
<1> QED
  BY <1>2, <1>4 DEF CursorsOf

\* The places in a chain: all different.
LEMMA Places ==
  ASSUME NEW s \in Seq(Node), IsInjective(s)
  PROVE  /\ \A k \in 0 .. Len(s) : AddrAt(s, k) \in Addr /\ AddrAt(s, k) # Null
         /\ \A k \in 1 .. Len(s) + 1 : NodeAt(s, k) \in Node \cup {Null}
         /\ \A k \in 1 .. Len(s) : NodeAt(s, k) = s[k] /\ AddrAt(s, k) = s[k] /\ s[k] \in Node
         /\ NodeAt(s, Len(s) + 1) = Null /\ AddrAt(s, 0) = ListHead
         /\ \A j, k \in 0 .. Len(s) : AddrAt(s, j) = AddrAt(s, k) => j = k
         /\ \A j, k \in 1 .. Len(s) + 1 : NodeAt(s, j) = NodeAt(s, k) => j = k
BY ListAssumption DEF AddrAt, NodeAt, Addr, IsInjective

\* Chain s with node p at index k.
LEMMA InsertPlaces ==
  ASSUME NEW s \in Seq(Node), IsInjective(s), NEW k \in 1 .. Len(s) + 1, NEW p \in Node,
         p \notin Range(s)
  PROVE  LET t == InsertAt(s, k, p) IN
         /\ t \in Seq(Node) /\ IsInjective(t) /\ Len(t) = Len(s) + 1
         /\ \A j \in 0 .. Len(s) + 1 :
              AddrAt(t, j) = IF j < k THEN AddrAt(s, j) ELSE IF j = k THEN p ELSE AddrAt(s, j - 1)
         /\ \A j \in 1 .. Len(s) + 2 :
              NodeAt(t, j) = IF j < k THEN NodeAt(s, j) ELSE IF j = k THEN p ELSE NodeAt(s, j - 1)
<1> DEFINE t == InsertAt(s, k, p)
<1>1. t \in Seq(Node) /\ Len(t) = Len(s) + 1
  BY InsertAtFacts
<1>2. (\A n \in 1 .. k - 1 : t[n] = s[n]) /\ t[k] = p
  BY InsertAtFacts
<1>3. \A n \in k + 1 .. Len(s) + 1 : t[n] = s[n - 1]
  BY InsertAtFacts
<1> HIDE DEF t
<1>4. \A n \in 1 .. Len(s) : s[n] # p
  BY DEF Range
<1>5. IsInjective(t)
  <2> SUFFICES ASSUME NEW a \in 1 .. Len(s) + 1, NEW b \in 1 .. Len(s) + 1, t[a] = t[b]
               PROVE  a = b
    BY <1>1 DEF IsInjective
  <2>1. \A i, j \in 1 .. Len(s) : s[i] = s[j] => i = j
    BY DEF IsInjective
  <2> DEFINE At(j) == IF j < k THEN j ELSE j - 1
  <2>2. ASSUME NEW j \in 1 .. Len(s) + 1, j # k
        PROVE  t[j] = s[At(j)] /\ At(j) \in 1 .. Len(s)
    BY <1>2, <1>3, <2>2
  <2>3. CASE a = k \/ b = k
    <3>1. ASSUME NEW j \in 1 .. Len(s) + 1, j # k PROVE t[j] # p
      <4>1. t[j] = s[At(j)] /\ At(j) \in 1 .. Len(s)
        BY <2>2, <3>1
      <4> QED
        BY <1>4, <4>1
    <3> QED
      BY <1>2, <2>3, <3>1
  <2>4. CASE a # k /\ b # k
    <3>1. At(a) = At(b)
      BY <2>1, <2>2, <2>4
    <3> QED
      BY <2>4, <3>1
  <2> QED
    BY <2>3, <2>4
<1>6. \A j \in 0 .. Len(s) + 1 :
        AddrAt(t, j) = IF j < k THEN AddrAt(s, j) ELSE IF j = k THEN p ELSE AddrAt(s, j - 1)
  <2> SUFFICES ASSUME NEW j \in 0 .. Len(s) + 1
               PROVE  AddrAt(t, j) = IF j < k THEN AddrAt(s, j) ELSE IF j = k THEN p ELSE AddrAt(s, j - 1)
    OBVIOUS
  <2>1. CASE j < k
    BY <1>2, <2>1 DEF AddrAt
  <2>2. CASE j = k
    BY <1>2, <2>2 DEF AddrAt
  <2>3. CASE j > k
    BY <1>3, <2>3 DEF AddrAt
  <2> QED
    BY <2>1, <2>2, <2>3
<1>7. \A j \in 1 .. Len(s) + 2 :
        NodeAt(t, j) = IF j < k THEN NodeAt(s, j) ELSE IF j = k THEN p ELSE NodeAt(s, j - 1)
  <2> SUFFICES ASSUME NEW j \in 1 .. Len(s) + 2
               PROVE  NodeAt(t, j) = IF j < k THEN NodeAt(s, j) ELSE IF j = k THEN p ELSE NodeAt(s, j - 1)
    OBVIOUS
  <2>1. CASE j < k
    BY <1>1, <1>2, <2>1 DEF NodeAt
  <2>2. CASE j = k
    BY <1>1, <1>2, <2>2 DEF NodeAt
  <2>3. CASE j > k
    BY <1>1, <1>3, <2>3 DEF NodeAt
  <2> QED
    BY <2>1, <2>2, <2>3
<1> QED
  BY <1>1, <1>5, <1>6, <1>7 DEF t

\* Chain s without the node at index k.
LEMMA RemovePlaces ==
  ASSUME NEW s \in Seq(Node), IsInjective(s), NEW k \in 1 .. Len(s), NEW t, t = RemoveAt(s, k)
  PROVE  /\ t \in Seq(Node) /\ IsInjective(t) /\ Len(t) = Len(s) - 1
         /\ \A j \in 0 .. Len(s) - 1 :
              AddrAt(t, j) = IF j < k THEN AddrAt(s, j) ELSE AddrAt(s, j + 1)
         /\ \A j \in 1 .. Len(s) : NodeAt(t, j) = IF j < k THEN NodeAt(s, j) ELSE NodeAt(s, j + 1)
<1>1. /\ t \in Seq(Node) /\ Len(t) = Len(s) - 1
      /\ \A n \in 1 .. Len(s) - 1 : t[n] = IF n < k THEN s[n] ELSE s[n + 1]
  BY RemoveAtFacts, Zenon
<1>2. IsInjective(t)
  <2> SUFFICES ASSUME NEW a \in 1 .. Len(s) - 1, NEW b \in 1 .. Len(s) - 1, t[a] = t[b]
               PROVE  a = b
    BY <1>1 DEF IsInjective
  <2>1. \A i, j \in 1 .. Len(s) : s[i] = s[j] => i = j
    BY DEF IsInjective
  <2> DEFINE At(j) == IF j < k THEN j ELSE j + 1
  <2>2. t[a] = s[At(a)] /\ t[b] = s[At(b)]
    BY <1>1
  <2>3. At(a) \in 1 .. Len(s) /\ At(b) \in 1 .. Len(s)
    BY <1>1
  <2>4. At(a) = At(b)
    BY <2>1, <2>2, <2>3
  <2> QED
    BY <2>4
<1>3. \A j \in 0 .. Len(s) - 1 :
        AddrAt(t, j) = IF j < k THEN AddrAt(s, j) ELSE AddrAt(s, j + 1)
  BY <1>1 DEF AddrAt
<1>4. \A j \in 1 .. Len(s) : NodeAt(t, j) = IF j < k THEN NodeAt(s, j) ELSE NodeAt(s, j + 1)
  BY <1>1 DEF NodeAt
<1> QED
  BY <1>1, <1>2, <1>3, <1>4

-----------------------------------------------------------------------------
(* list_node_create and list_node_destroy.                                 *)

\* Where a cursor at n is after something went in at index k, and what Holds
\* says of an iterator at a cursor [next |-> n, cur |-> b].
Later(n, b, k) == IF n > k \/ (n = k /\ ~b) THEN n + 1 ELSE n

LaterCursors(cur, k) ==
  [i \in Iter |-> IF i \in open
                  THEN [next |-> Later(cur[i].next, cur[i].cur, k), cur |-> cur[i].cur]
                  ELSE cur[i]]

AtCursor(m, s, n, b, i) ==
  /\ n \in 1 .. Len(s) + 1 /\ (b => n > 1)
  /\ m.prev[i] = AddrAt(s, n - (IF b THEN 2 ELSE 1)) /\ m.pos[i] = NodeAt(s, n)

LEMMA HoldsParts ==
  ASSUME NEW m, NEW s, NEW cur, NEW its
  PROVE  Holds(m, s, cur, its) <=>
           /\ Links(m.next, s) /\ m.count = Len(s) /\ m.tail = AddrAt(s, Len(s))
           /\ \A i \in its : AtCursor(m, s, cur[i].next, cur[i].cur, i)
BY DEF Holds, AtCursor

LEMMA CreateMemory ==
  ASSUME NEW m \in Memory, NEW pp \in Addr, NEW p \in Node, NEW x \in Item
  PROVE  NodeCreate(m, pp, p, x) \in Memory
BY DEF NodeCreate, Memory, Addr

LEMMA CreateLinks ==
  ASSUME NEW m \in Memory, NEW s, Links(m.next, s), NEW k \in 1 .. Len(s) + 1,
         NEW p \in Node, p \notin Range(s), NEW x
  PROVE  Links(NodeCreate(m, AddrAt(s, k - 1), p, x).next, InsertAt(s, k, p))
<1> DEFINE t == InsertAt(s, k, p)
           pp == AddrAt(s, k - 1)
           next == [m.next EXCEPT ![p] = m.next[pp], ![pp] = p]
<1>1. s \in Seq(Node) /\ IsInjective(s)
  BY DEF Links
<1>2. /\ t \in Seq(Node) /\ IsInjective(t) /\ Len(t) = Len(s) + 1
      /\ \A j \in 0 .. Len(s) + 1 :
           AddrAt(t, j) = IF j < k THEN AddrAt(s, j) ELSE IF j = k THEN p ELSE AddrAt(s, j - 1)
      /\ \A j \in 1 .. Len(s) + 2 :
           NodeAt(t, j) = IF j < k THEN NodeAt(s, j) ELSE IF j = k THEN p ELSE NodeAt(s, j - 1)
  BY <1>1, InsertPlaces
<1> HIDE DEF t
<1>3. k - 1 \in 0 .. Len(s) /\ pp \in Addr /\ p \in Addr
  BY <1>1, Places DEF Addr
<1>4. \A a \in Addr : next[a] = IF a = pp THEN p ELSE IF a = p THEN m.next[pp] ELSE m.next[a]
  BY <1>3 DEF Memory
<1>5. \A j \in 0 .. Len(s) : AddrAt(s, j) # p /\ AddrAt(s, j) \in Addr /\ m.next[AddrAt(s, j)] = NodeAt(s, j + 1)
  BY <1>1, Places, ListAssumption DEF AddrAt, Range, Links
<1>6. \A j \in 0 .. Len(s) : AddrAt(s, j) = pp => j = k - 1
  BY <1>1, <1>3, Places
<1> HIDE DEF next, pp
<1>7. ASSUME NEW j \in 0 .. Len(s) + 1 PROVE next[AddrAt(t, j)] = NodeAt(t, j + 1)
  <2>1. CASE j < k - 1
    <3>1. AddrAt(t, j) = AddrAt(s, j) /\ NodeAt(t, j + 1) = NodeAt(s, j + 1) /\ j \in 0 .. Len(s)
      BY <1>1, <1>2, <2>1
    <3>2. next[AddrAt(s, j)] = m.next[AddrAt(s, j)]
      BY <1>4, <1>5, <1>6, <2>1, <3>1
    <3> QED
      BY <1>5, <3>1, <3>2
  <2>2. CASE j = k - 1
    <3>1. AddrAt(t, j) = pp /\ NodeAt(t, j + 1) = p
      BY <1>1, <1>2, <2>2 DEF pp
    <3> QED
      BY <1>3, <1>4, <3>1
  <2>3. CASE j = k
    <3>1. AddrAt(t, j) = p /\ NodeAt(t, j + 1) = NodeAt(s, k)
      BY <1>1, <1>2, <2>3
    <3>2. m.next[pp] = NodeAt(s, k) /\ p # pp
      BY <1>3, <1>5 DEF pp
    <3> QED
      BY <1>3, <1>4, <3>1, <3>2
  <2>4. CASE j > k
    <3>1. AddrAt(t, j) = AddrAt(s, j - 1) /\ NodeAt(t, j + 1) = NodeAt(s, j) /\ j - 1 \in 0 .. Len(s)
      BY <1>1, <1>2, <2>4
    <3>2. next[AddrAt(s, j - 1)] = m.next[AddrAt(s, j - 1)]
      BY <1>4, <1>5, <1>6, <2>4, <3>1
    <3>3. (j - 1) + 1 = j
      OBVIOUS
    <3> QED
      BY <1>5, <3>1, <3>2, <3>3
  <2> QED
    BY <2>1, <2>2, <2>3, <2>4
<1>8. NodeCreate(m, AddrAt(s, k - 1), p, x).next = next
  BY DEF NodeCreate, next, pp
<1> QED
  BY <1>2, <1>7, <1>8 DEF Links, t

LEMMA CreateCursors ==
  ASSUME NEW m \in Memory, NEW s, Links(m.next, s), NEW k \in 1 .. Len(s) + 1,
         NEW p \in Node, p \notin Range(s), NEW x, NEW i \in Iter, i \in open,
         NEW n \in Nat, NEW b \in BOOLEAN, AtCursor(m, s, n, b, i)
  PROVE  AtCursor(NodeCreate(m, AddrAt(s, k - 1), p, x), InsertAt(s, k, p), Later(n, b, k), b, i)
<1> DEFINE t == InsertAt(s, k, p)
           pp == AddrAt(s, k - 1)
           m2 == NodeCreate(m, pp, p, x)
           old == m.next[pp]
<1> SUFFICES AtCursor(m2, t, Later(n, b, k), b, i)
  OBVIOUS
<1>1. s \in Seq(Node) /\ IsInjective(s)
  BY DEF Links
<1>2. /\ t \in Seq(Node) /\ IsInjective(t) /\ Len(t) = Len(s) + 1
      /\ \A j \in 0 .. Len(s) + 1 :
           AddrAt(t, j) = IF j < k THEN AddrAt(s, j) ELSE IF j = k THEN p ELSE AddrAt(s, j - 1)
      /\ \A j \in 1 .. Len(s) + 2 :
           NodeAt(t, j) = IF j < k THEN NodeAt(s, j) ELSE IF j = k THEN p ELSE NodeAt(s, j - 1)
  BY <1>1, InsertPlaces
<1> HIDE DEF t
<1>3. k - 1 \in 0 .. Len(s) /\ (k - 1) + 1 = k
  BY <1>1
<1>4. old = NodeAt(s, k)
  BY <1>3 DEF Links
<1>5. /\ m2.prev[i] = IF m.prev[i] = pp THEN p ELSE m.prev[i]
      /\ m2.pos[i] = IF m.prev[i] # pp /\ m.pos[i] = old THEN p ELSE m.pos[i]
  BY DEF NodeCreate
<1>6. /\ n \in 1 .. Len(s) + 1 /\ (b => n > 1)
      /\ m.prev[i] = AddrAt(s, n - (IF b THEN 2 ELSE 1))
  BY DEF AtCursor
<1>7. m.pos[i] = NodeAt(s, n) /\ (m.pos[i] = old <=> n = k)
  BY <1>1, <1>4, <1>6, Places DEF AtCursor
<1> HIDE DEF m2, pp, old
<1>8. CASE b = FALSE
  <2>1. m.prev[i] = AddrAt(s, n - 1) /\ n - 1 \in 0 .. Len(s)
    BY <1>1, <1>6, <1>8
  <2>2. m.prev[i] = pp <=> n = k
    BY <1>1, <1>3, <1>6, <2>1, Places DEF pp
  <2>3. CASE n < k
    <3>1. Later(n, b, k) = n
      BY <1>8, <2>3 DEF Later
    <3>2. AddrAt(t, n - 1) = AddrAt(s, n - 1) /\ NodeAt(t, n) = NodeAt(s, n) /\ n \in 1 .. Len(t) + 1
      BY <1>1, <1>2, <1>6, <2>3
    <3>3. m2.prev[i] = AddrAt(s, n - 1) /\ m2.pos[i] = NodeAt(s, n)
      BY <1>5, <1>6, <1>7, <2>1, <2>2, <2>3
    <3> QED
      BY <1>8, <3>1, <3>2, <3>3 DEF AtCursor
  <2>4. CASE n >= k
    <3>1. Later(n, b, k) = n + 1
      BY <1>8, <2>4 DEF Later
    <3>2. /\ AddrAt(t, n) = IF n = k THEN p ELSE AddrAt(s, n - 1)
          /\ NodeAt(t, n + 1) = NodeAt(s, n)
          /\ n + 1 \in 1 .. Len(t) + 1 /\ (n + 1) - 1 = n
      BY <1>1, <1>2, <1>6, <2>4
    <3>3. m2.prev[i] = AddrAt(t, n) /\ m2.pos[i] = NodeAt(s, n)
      BY <1>5, <1>6, <1>7, <2>1, <2>2, <2>4, <3>2
    <3> QED
      BY <1>8, <3>1, <3>2, <3>3 DEF AtCursor
  <2> QED
    BY <1>6, <2>3, <2>4
<1>9. CASE b = TRUE
  <2>1. n > 1 /\ m.prev[i] = AddrAt(s, n - 2) /\ n - 2 \in 0 .. Len(s)
    BY <1>1, <1>6, <1>9
  <2>2. m.prev[i] = pp <=> n - 1 = k
    BY <1>1, <1>3, <1>6, <2>1, Places DEF pp
  <2>3. CASE n <= k
    <3>1. Later(n, b, k) = n
      BY <1>9, <2>3 DEF Later
    <3>2. /\ AddrAt(t, n - 2) = AddrAt(s, n - 2) /\ n \in 1 .. Len(t) + 1
          /\ NodeAt(t, n) = IF n = k THEN p ELSE NodeAt(s, n)
      BY <1>1, <1>2, <1>6, <2>1, <2>3
    <3>3. m2.prev[i] = AddrAt(s, n - 2) /\ m2.pos[i] = NodeAt(t, n)
      BY <1>5, <1>6, <1>7, <2>1, <2>2, <2>3, <3>2
    <3> QED
      BY <1>9, <2>1, <3>1, <3>2, <3>3 DEF AtCursor
  <2>4. CASE n > k
    <3>1. Later(n, b, k) = n + 1
      BY <2>4 DEF Later
    <3>2. /\ AddrAt(t, n - 1) = IF n - 1 = k THEN p ELSE AddrAt(s, n - 2)
          /\ NodeAt(t, n + 1) = NodeAt(s, n)
          /\ n + 1 \in 1 .. Len(t) + 1 /\ n + 1 > 1 /\ (n + 1) - 2 = n - 1
      <4>1. (n - 1) - 1 = n - 2 /\ n - 1 \in 0 .. Len(s) + 1 /\ n - 1 >= k
        BY <1>1, <1>6, <2>1, <2>4
      <4>2. AddrAt(t, n - 1) = IF n - 1 = k THEN p ELSE AddrAt(s, (n - 1) - 1)
        BY <1>2, <4>1
      <4> QED
        BY <1>1, <1>2, <1>6, <2>4, <4>1, <4>2
    <3>3. m2.prev[i] = AddrAt(t, n - 1) /\ m2.pos[i] = NodeAt(s, n)
      BY <1>5, <1>6, <1>7, <2>1, <2>2, <2>4, <3>2
    <3> QED
      BY <1>9, <3>1, <3>2, <3>3 DEF AtCursor
  <2> QED
    BY <1>6, <2>3, <2>4
<1> QED
  BY <1>8, <1>9

LEMMA CreateHolds ==
  ASSUME open \subseteq Iter, NEW m \in Memory, NEW s, NEW cur \in [Iter -> Cursor],
         Holds(m, s, cur, open), NEW k \in 1 .. Len(s) + 1,
         NEW p \in Node, p \notin Range(s), NEW x
  PROVE  Holds(NodeCreate(m, AddrAt(s, k - 1), p, x), InsertAt(s, k, p),
               LaterCursors(cur, k), open)
<1> DEFINE t == InsertAt(s, k, p)
           pp == AddrAt(s, k - 1)
           m2 == NodeCreate(m, pp, p, x)
           cur2 == LaterCursors(cur, k)
<1>1. Links(m.next, s) /\ s \in Seq(Node) /\ IsInjective(s)
  BY HoldsParts DEF Links
<1>2. Links(m2.next, t)
  BY <1>1, CreateLinks
<1>3. /\ Len(t) = Len(s) + 1
      /\ AddrAt(t, Len(s) + 1) = IF Len(s) + 1 = k THEN p ELSE AddrAt(s, Len(s))
  <2>1. /\ Len(t) = Len(s) + 1
        /\ \A j \in 0 .. Len(s) + 1 :
             AddrAt(t, j) = IF j < k THEN AddrAt(s, j) ELSE IF j = k THEN p ELSE AddrAt(s, j - 1)
    BY <1>1, InsertPlaces
  <2> HIDE DEF t
  <2>2. Len(s) + 1 \in 0 .. Len(s) + 1 /\ (Len(s) + 1) - 1 = Len(s)
    BY <1>1
  <2> QED
    BY <2>1, <2>2
<1>4. m.next[pp] = NodeAt(s, k) /\ (m.next[pp] = Null <=> k = Len(s) + 1)
  <2>1. k - 1 \in 0 .. Len(s) /\ (k - 1) + 1 = k /\ Len(s) + 1 \in 1 .. Len(s) + 1
    BY <1>1
  <2>2. m.next[pp] = NodeAt(s, k)
    BY <2>1, <1>1 DEF Links
  <2>3. NodeAt(s, Len(s) + 1) = Null /\ (NodeAt(s, k) = NodeAt(s, Len(s) + 1) => k = Len(s) + 1)
    BY <1>1, <2>1, Places
  <2> QED
    BY <2>2, <2>3
<1>5. m2.count = Len(t) /\ m2.tail = AddrAt(t, Len(t))
  BY <1>3, <1>4 DEF NodeCreate, Holds
<1>6. ASSUME NEW i \in open PROVE AtCursor(m2, t, cur2[i].next, cur2[i].cur, i)
  <2>1. i \in Iter /\ cur[i].next \in Nat /\ cur[i].cur \in BOOLEAN
    BY DEF Cursor
  <2>2. cur2[i].next = Later(cur[i].next, cur[i].cur, k) /\ cur2[i].cur = cur[i].cur
    BY <2>1 DEF LaterCursors
  <2>3. AtCursor(m, s, cur[i].next, cur[i].cur, i)
    BY HoldsParts
  <2>4. AtCursor(m2, t, Later(cur[i].next, cur[i].cur, k), cur[i].cur, i)
    BY <1>1, <2>1, <2>3, CreateCursors
  <2> QED
    BY <2>2, <2>4
<1> QED
  BY <1>2, <1>5, <1>6, HoldsParts

\* Where a cursor is after the item at index k went, and whether it still knows
\* which item it returned.
Sooner(n, k) == IF k < n THEN n - 1 ELSE n
Knows(n, b, k) == b /\ k # n - 1 /\ k # n

SoonerCursors(cur, k) ==
  [i \in Iter |-> IF i \in open
                  THEN [next |-> Sooner(cur[i].next, k), cur |-> Knows(cur[i].next, cur[i].cur, k)]
                  ELSE cur[i]]

LEMMA DestroyMemory ==
  ASSUME NEW m \in Memory, NEW pp \in Addr, m.next[pp] # Null, m.count > 0
  PROVE  NodeDestroy(m, pp) \in Memory
BY DEF NodeDestroy, Memory, Addr

LEMMA DestroyLinks ==
  ASSUME NEW m \in Memory, NEW s, Links(m.next, s), NEW k \in 1 .. Len(s)
  PROVE  /\ m.next[AddrAt(s, k - 1)] = s[k] /\ s[k] # Null
         /\ m.next[s[k]] = NodeAt(s, k + 1)
         /\ Links(NodeDestroy(m, AddrAt(s, k - 1)).next, RemoveAt(s, k))
<1> DEFINE t == RemoveAt(s, k)
           pp == AddrAt(s, k - 1)
           p == s[k]
           next == [m.next EXCEPT ![pp] = m.next[p], ![p] = Null]
<1>1. s \in Seq(Node) /\ IsInjective(s)
  BY DEF Links
<1>2. /\ t \in Seq(Node) /\ IsInjective(t) /\ Len(t) = Len(s) - 1
      /\ \A j \in 0 .. Len(s) - 1 : AddrAt(t, j) = IF j < k THEN AddrAt(s, j) ELSE AddrAt(s, j + 1)
      /\ \A j \in 1 .. Len(s) : NodeAt(t, j) = IF j < k THEN NodeAt(s, j) ELSE NodeAt(s, j + 1)
  BY <1>1, RemovePlaces
<1> HIDE DEF t
<1>3. k - 1 \in 0 .. Len(s) /\ (k - 1) + 1 = k /\ k \in 0 .. Len(s)
  BY <1>1
<1>4. pp \in Addr /\ p \in Addr /\ p = AddrAt(s, k) /\ p = NodeAt(s, k) /\ pp # p /\ p # Null
  BY <1>1, <1>3, Places, ListAssumption DEF Addr
<1>5. m.next[pp] = p /\ m.next[p] = NodeAt(s, k + 1)
  BY <1>3, <1>4 DEF Links
<1>6. \A a \in Addr : next[a] = IF a = p THEN Null ELSE IF a = pp THEN m.next[p] ELSE m.next[a]
  BY <1>4 DEF Memory
<1>7. \A j \in 0 .. Len(s) : /\ AddrAt(s, j) \in Addr /\ m.next[AddrAt(s, j)] = NodeAt(s, j + 1)
                             /\ AddrAt(s, j) = p => j = k
                             /\ AddrAt(s, j) = pp => j = k - 1
  BY <1>1, <1>3, <1>4, Places DEF Links
<1>8. NodeDestroy(m, pp).next = next
  BY <1>4, <1>5 DEF NodeDestroy
<1> HIDE DEF next, pp, p
<1>9. ASSUME NEW j \in 0 .. Len(s) - 1 PROVE next[AddrAt(t, j)] = NodeAt(t, j + 1)
  <2>1. CASE j < k - 1
    <3>1. AddrAt(t, j) = AddrAt(s, j) /\ NodeAt(t, j + 1) = NodeAt(s, j + 1) /\ j \in 0 .. Len(s)
      BY <1>1, <1>2, <2>1
    <3>2. next[AddrAt(s, j)] = m.next[AddrAt(s, j)]
      BY <1>6, <1>7, <2>1, <3>1
    <3> QED
      BY <1>7, <3>1, <3>2
  <2>2. CASE j = k - 1
    <3>1. AddrAt(t, j) = pp /\ NodeAt(t, j + 1) = NodeAt(s, k + 1)
      BY <1>1, <1>2, <2>2 DEF pp
    <3> QED
      BY <1>4, <1>5, <1>6, <3>1
  <2>3. CASE j >= k
    <3>1. AddrAt(t, j) = AddrAt(s, j + 1) /\ NodeAt(t, j + 1) = NodeAt(s, (j + 1) + 1) /\ j + 1 \in 0 .. Len(s)
      BY <1>1, <1>2, <2>3
    <3>2. next[AddrAt(s, j + 1)] = m.next[AddrAt(s, j + 1)]
      BY <1>6, <1>7, <2>3, <3>1
    <3> QED
      BY <1>7, <3>1, <3>2
  <2> QED
    BY <2>1, <2>2, <2>3
<1>10. Links(next, t)
  BY <1>1, <1>2, <1>9 DEF Links
<1> QED
  BY <1>4, <1>5, <1>8, <1>10 DEF pp, p, t

LEMMA DestroyCursors ==
  ASSUME NEW m \in Memory, NEW s, Links(m.next, s), NEW k \in 1 .. Len(s),
         NEW i \in Iter, i \in open,
         NEW n \in Nat, NEW b \in BOOLEAN, AtCursor(m, s, n, b, i)
  PROVE  AtCursor(NodeDestroy(m, AddrAt(s, k - 1)), RemoveAt(s, k), Sooner(n, k), Knows(n, b, k), i)
<1> DEFINE t == RemoveAt(s, k)
           pp == AddrAt(s, k - 1)
           p == s[k]
           m2 == NodeDestroy(m, pp)
<1> SUFFICES AtCursor(m2, t, Sooner(n, k), Knows(n, b, k), i)
  OBVIOUS
<1>1. s \in Seq(Node) /\ IsInjective(s)
  BY DEF Links
<1>2. /\ t \in Seq(Node) /\ IsInjective(t) /\ Len(t) = Len(s) - 1
      /\ \A j \in 0 .. Len(s) - 1 : AddrAt(t, j) = IF j < k THEN AddrAt(s, j) ELSE AddrAt(s, j + 1)
      /\ \A j \in 1 .. Len(s) : NodeAt(t, j) = IF j < k THEN NodeAt(s, j) ELSE NodeAt(s, j + 1)
  BY <1>1, RemovePlaces
<1>3. k - 1 \in 0 .. Len(s) /\ k \in 0 .. Len(s)
  BY <1>1
<1>4. p = AddrAt(s, k) /\ p = NodeAt(s, k)
  BY <1>1, <1>3, Places
<1>5. /\ m2.prev[i] = IF m.pos[i] = p \/ m.prev[i] = p THEN pp ELSE m.prev[i]
      /\ m2.pos[i] = IF m.pos[i] = p THEN NodeAt(s, k + 1) ELSE m.pos[i]
  <2>1. m.next[pp] = p /\ p # Null /\ m.next[p] = NodeAt(s, k + 1)
    BY DestroyLinks
  <2> QED
    BY <2>1 DEF NodeDestroy
<1>6. /\ n \in 1 .. Len(s) + 1 /\ (b => n > 1)
      /\ m.prev[i] = AddrAt(s, n - (IF b THEN 2 ELSE 1))
  BY DEF AtCursor
<1>7. m.pos[i] = NodeAt(s, n) /\ (m.pos[i] = p <=> n = k)
  <2>1. k \in 1 .. Len(s) + 1
    BY <1>1
  <2> QED
    BY <1>1, <1>4, <1>6, <2>1, Places DEF AtCursor
<1> HIDE DEF m2, pp, p, t
<1>8. CASE n = k
  <2>1. Sooner(n, k) = k /\ Knows(n, b, k) = FALSE
    BY <1>8 DEF Sooner, Knows
  <2>2. AddrAt(t, k - 1) = pp /\ NodeAt(t, k) = NodeAt(s, k + 1) /\ k \in 1 .. Len(t) + 1
    BY <1>1, <1>2 DEF pp
  <2> QED
    BY <1>5, <1>7, <1>8, <2>1, <2>2 DEF AtCursor
<1>9. CASE n # k /\ b = FALSE
  <2>0. Knows(n, b, k) = FALSE
    BY <1>9 DEF Knows
  <2>1. m.prev[i] = AddrAt(s, n - 1) /\ n - 1 \in 0 .. Len(s)
    BY <1>1, <1>6, <1>9
  <2>2. m.prev[i] = p <=> n - 1 = k
    BY <1>1, <1>3, <1>4, <2>1, Places
  <2>3. CASE n < k
    <3>1. Sooner(n, k) = n
      BY <2>3 DEF Sooner
    <3>2. AddrAt(t, n - 1) = AddrAt(s, n - 1) /\ NodeAt(t, n) = NodeAt(s, n) /\ n \in 1 .. Len(t) + 1
      BY <1>1, <1>2, <1>6, <2>3
    <3>3. m2.prev[i] = AddrAt(s, n - 1) /\ m2.pos[i] = NodeAt(s, n)
      BY <1>5, <1>6, <1>7, <1>9, <2>1, <2>2, <2>3
    <3> QED
      BY <2>0, <3>1, <3>2, <3>3 DEF AtCursor
  <2>4. CASE n > k
    <3>1. Sooner(n, k) = n - 1
      BY <2>4 DEF Sooner
    <3>2. /\ AddrAt(t, n - 2) = IF n - 1 = k THEN pp ELSE AddrAt(s, n - 1)
          /\ NodeAt(t, n - 1) = NodeAt(s, n)
          /\ n - 1 \in 1 .. Len(t) + 1 /\ (n - 1) - 1 = n - 2
      <4>1. n - 2 \in 0 .. Len(s) - 1 /\ (n - 2) + 1 = n - 1 /\ n - 1 \in 1 .. Len(s) /\ (n - 1) + 1 = n
        BY <1>1, <1>6, <2>4
      <4>2. AddrAt(t, n - 2) = IF n - 2 < k THEN AddrAt(s, n - 2) ELSE AddrAt(s, n - 1)
        BY <1>2, <4>1
      <4>3. NodeAt(t, n - 1) = NodeAt(s, n)
        BY <1>2, <2>4, <4>1
      <4> QED
        BY <1>1, <1>2, <1>6, <2>4, <4>1, <4>2, <4>3 DEF pp
    <3>3. m2.prev[i] = AddrAt(t, n - 2) /\ m2.pos[i] = NodeAt(s, n)
      BY <1>5, <1>6, <1>7, <1>9, <2>1, <2>2, <2>4, <3>2
    <3> QED
      BY <2>0, <3>1, <3>2, <3>3 DEF AtCursor
  <2> QED
    BY <1>6, <1>9, <2>3, <2>4
<1>10. CASE n # k /\ b = TRUE
  <2>1. n > 1 /\ m.prev[i] = AddrAt(s, n - 2) /\ n - 2 \in 0 .. Len(s)
    BY <1>1, <1>6, <1>10
  <2>2. m.prev[i] = p <=> n - 2 = k
    BY <1>1, <1>3, <1>4, <2>1, Places
  <2>3. CASE n < k
    <3>1. Sooner(n, k) = n /\ Knows(n, b, k) = TRUE
      BY <1>6, <1>10, <2>3 DEF Sooner, Knows
    <3>2. AddrAt(t, n - 2) = AddrAt(s, n - 2) /\ NodeAt(t, n) = NodeAt(s, n) /\ n \in 1 .. Len(t) + 1
      BY <1>1, <1>2, <1>6, <2>1, <2>3
    <3>3. m2.prev[i] = AddrAt(s, n - 2) /\ m2.pos[i] = NodeAt(s, n)
      BY <1>5, <1>6, <1>7, <2>1, <2>2, <2>3
    <3> QED
      BY <2>1, <3>1, <3>2, <3>3 DEF AtCursor
  <2>4. CASE n - 1 = k
    <3>1. Sooner(n, k) = k /\ Knows(n, b, k) = FALSE
      BY <1>6, <2>4 DEF Sooner, Knows
    <3>2. AddrAt(t, k - 1) = pp /\ NodeAt(t, k) = NodeAt(s, n) /\ k \in 1 .. Len(t) + 1
      BY <1>1, <1>2, <1>6, <2>4 DEF pp
    <3>3. m2.prev[i] = pp /\ m2.pos[i] = NodeAt(s, n)
      <4>1. n - 2 = k - 1
        BY <1>6, <2>4
      <4> QED
        BY <1>5, <1>7, <1>10, <2>1, <2>2, <4>1 DEF pp
    <3> QED
      BY <3>1, <3>2, <3>3 DEF AtCursor
  <2>5. CASE n - 1 > k
    <3>1. Sooner(n, k) = n - 1 /\ Knows(n, b, k) = TRUE
      BY <1>6, <1>10, <2>5 DEF Sooner, Knows
    <3>2. /\ AddrAt(t, n - 3) = IF n - 2 = k THEN pp ELSE AddrAt(s, n - 2)
          /\ NodeAt(t, n - 1) = NodeAt(s, n)
          /\ n - 1 \in 1 .. Len(t) + 1 /\ (n - 1) - 2 = n - 3 /\ n - 1 > 1
      <4>1. n - 3 \in 0 .. Len(s) - 1 /\ (n - 3) + 1 = n - 2 /\ n - 1 \in 1 .. Len(s) /\ (n - 1) + 1 = n
        BY <1>1, <1>6, <2>5
      <4>2. AddrAt(t, n - 3) = IF n - 3 < k THEN AddrAt(s, n - 3) ELSE AddrAt(s, n - 2)
        BY <1>2, <4>1
      <4>3. NodeAt(t, n - 1) = NodeAt(s, n)
        BY <1>2, <2>5, <4>1
      <4> QED
        BY <1>1, <1>2, <1>6, <2>5, <4>1, <4>2, <4>3 DEF pp
    <3>3. m2.prev[i] = AddrAt(t, n - 3) /\ m2.pos[i] = NodeAt(s, n)
      BY <1>5, <1>6, <1>7, <1>10, <2>1, <2>2, <2>5, <3>2
    <3> QED
      BY <3>1, <3>2, <3>3 DEF AtCursor
  <2>6. n < k \/ n - 1 = k \/ n - 1 > k
    BY <1>10
  <2> QED
    BY <2>3, <2>4, <2>5, <2>6
<1> QED
  BY <1>8, <1>9, <1>10

LEMMA DestroyHolds ==
  ASSUME open \subseteq Iter, NEW m \in Memory, NEW s, NEW cur \in [Iter -> Cursor],
         Holds(m, s, cur, open), NEW k \in 1 .. Len(s)
  PROVE  Holds(NodeDestroy(m, AddrAt(s, k - 1)), RemoveAt(s, k), SoonerCursors(cur, k), open)
<1> DEFINE t == RemoveAt(s, k)
           pp == AddrAt(s, k - 1)
           m2 == NodeDestroy(m, pp)
           cur2 == SoonerCursors(cur, k)
<1>1. Links(m.next, s) /\ s \in Seq(Node) /\ IsInjective(s)
  BY HoldsParts DEF Links
<1>2. Links(m2.next, t) /\ m.next[pp] = s[k] /\ s[k] # Null /\ m.next[s[k]] = NodeAt(s, k + 1)
  BY <1>1, DestroyLinks
<1>3. /\ Len(t) = Len(s) - 1
      /\ AddrAt(t, Len(s) - 1) = IF Len(s) = k THEN pp ELSE AddrAt(s, Len(s))
  <2>1. /\ Len(t) = Len(s) - 1
        /\ \A j \in 0 .. Len(s) - 1 : AddrAt(t, j) = IF j < k THEN AddrAt(s, j) ELSE AddrAt(s, j + 1)
    BY <1>1, RemovePlaces
  <2> HIDE DEF t
  <2>2. Len(s) - 1 \in 0 .. Len(s) - 1 /\ (Len(s) - 1) + 1 = Len(s) /\ Len(s) \in Nat
    BY <1>1
  <2>3. AddrAt(t, Len(s) - 1) = IF Len(s) - 1 < k THEN AddrAt(s, Len(s) - 1) ELSE AddrAt(s, (Len(s) - 1) + 1)
    BY <2>1, <2>2
  <2> QED
    BY <2>1, <2>2, <2>3
<1>4. NodeAt(s, k + 1) = Null <=> k = Len(s)
  <2>1. k + 1 \in 1 .. Len(s) + 1 /\ Len(s) + 1 \in 1 .. Len(s) + 1 /\ Len(s) \in Nat
    BY <1>1
  <2>2. NodeAt(s, Len(s) + 1) = Null /\ (NodeAt(s, k + 1) = NodeAt(s, Len(s) + 1) => k + 1 = Len(s) + 1)
    BY <1>1, <2>1, Places
  <2> QED
    BY <2>1, <2>2
<1>5. m2.count = Len(t) /\ m2.tail = AddrAt(t, Len(t))
  BY <1>2, <1>3, <1>4 DEF NodeDestroy, Holds
<1>6. ASSUME NEW i \in open PROVE AtCursor(m2, t, cur2[i].next, cur2[i].cur, i)
  <2> DEFINE n == cur[i].next
             b == cur[i].cur
  <2>1. i \in Iter /\ n \in Nat /\ b \in BOOLEAN
    BY DEF Cursor
  <2>2. cur2[i].next = Sooner(n, k) /\ cur2[i].cur = Knows(n, b, k)
    BY <2>1 DEF SoonerCursors
  <2>3. AtCursor(m, s, n, b, i)
    BY HoldsParts
  <2>4. AtCursor(m2, t, Sooner(n, k), Knows(n, b, k), i)
    BY <1>1, <2>1, <2>3, DestroyCursors
  <2> QED
    BY <2>2, <2>4
<1> QED
  BY <1>2, <1>5, <1>6, HoldsParts

LEMMA CursorsTyped ==
  ASSUME NEW cur \in [Iter -> Cursor], NEW s \in Seq(Node), NEW k \in Nat
  PROVE  /\ LaterCursors(cur, k) \in [Iter -> Cursor]
         /\ (\A i \in open : cur[i].next > 0) => SoonerCursors(cur, k) \in [Iter -> Cursor]
BY DEF LaterCursors, SoonerCursors, Cursor, Later, Sooner, Knows

-----------------------------------------------------------------------------
(* The invariant, and what a step must show to keep it.                    *)

Start == [next |-> 1, cur |-> FALSE]

\* Nodes that iterators have before them.
Ahead(s, cur, its, d) ==
  \A i \in its : \A p \in d[i] : \E k \in cur[i].next .. Len(s) : s[k] = p

LEMMA InvFacts ==
  ASSUME ListInv
  PROVE  /\ live \in BOOLEAN /\ mem \in Memory /\ open \subseteq Iter
         /\ Chain \in Seq(Node) /\ IsInjective(Chain) /\ Links(mem.next, Chain)
         /\ Len(Chain) \in Nat /\ DOMAIN Chain = 1 .. Len(Chain)
         /\ mem.count = Len(Chain) /\ mem.tail = AddrAt(Chain, Len(Chain))
         /\ Cursors \in [Iter -> Cursor]
         /\ \A i \in Iter \ open : Cursors[i] = Start
         /\ \A i \in open : AtCursor(mem, Chain, Cursors[i].next, Cursors[i].cur, i)
         /\ free = Node \ Range(Chain) /\ Range(Chain) \subseteq Node
         /\ \A k \in 1 .. Len(Chain) : Chain[k] \in Node /\ mem.data[Chain[k]] \in Item
         /\ Ahead(Chain, Cursors, open, due)
<1>1. live \in BOOLEAN /\ mem \in Memory /\ open \subseteq Iter
  BY DEF ListInv
<1>2. Holds(mem, Chain, Cursors, open)
  BY DEF ListInv
<1>3. /\ Links(mem.next, Chain) /\ mem.count = Len(Chain) /\ mem.tail = AddrAt(Chain, Len(Chain))
      /\ \A i \in open : AtCursor(mem, Chain, Cursors[i].next, Cursors[i].cur, i)
  BY <1>2, HoldsParts
<1>4. Chain \in Seq(Node) /\ IsInjective(Chain)
  BY <1>3 DEF Links
<1>5. \A i \in Iter \ open : Cursors[i] = Start
  BY DEF Cursors, CursorsOf, Start
<1>6. ASSUME NEW i \in open PROVE Cursors[i] \in Cursor
  <2>1. \E n : \E b \in BOOLEAN : Cursors[i] = [next |-> n, cur |-> b]
    <3>1. Cursors[i] = [next |-> IndexOf(ChainOf(mem.next), mem.pos[i]),
                        cur |-> mem.next[mem.prev[i]] # mem.pos[i]]
      BY <1>1 DEF Cursors, CursorsOf
    <3>2. (mem.next[mem.prev[i]] # mem.pos[i]) \in BOOLEAN
      OBVIOUS
    <3> QED
      BY <3>1, <3>2
  <2>2. Cursors[i].next \in Nat
    BY <1>3, <1>4 DEF AtCursor
  <2> QED
    BY <2>1, <2>2 DEF Cursor
<1>7. Cursors \in [Iter -> Cursor]
  <2>1. \A i \in Iter : Cursors[i] \in Cursor
    <3>1. Start \in Cursor
      BY DEF Cursor, Start
    <3>2. \A i \in Iter : i \in open \/ Cursors[i] = Start
      BY <1>5
    <3> QED
      BY <1>6, <3>1, <3>2
  <2>2. Cursors = [i \in Iter |-> Cursors[i]]
    BY DEF Cursors, CursorsOf
  <2> QED
    BY <2>1, <2>2
<1>8. Range(Chain) \subseteq Node /\ \A k \in 1 .. Len(Chain) : Chain[k] \in Range(Chain)
  BY <1>4 DEF Range
<1> QED
  BY <1>1, <1>3, <1>4, <1>5, <1>7, <1>8 DEF ListInv, Ahead

\* The same of the state after a step, once its nodes and cursors are known.
LEMMA StepTo ==
  ASSUME mem' \in Memory, open' \subseteq Iter, NEW s, NEW cur \in [Iter -> Cursor],
         Holds(mem', s, cur, open'), \A i \in Iter \ open' : cur[i] = Start
  PROVE  Chain' = s /\ Cursors' = cur
<1>1. ChainOf((mem').next) = s /\ CursorsOf(mem', open') = cur
  BY Reads DEF Start
<1>2. Chain' = ChainOf((mem').next) /\ Cursors' = CursorsOf(mem', open')
  BY DEF Chain, Cursors
<1> QED
  BY <1>1, <1>2

LEMMA InvStep ==
  ASSUME live' \in BOOLEAN, mem' \in Memory, open' \subseteq Iter,
         ~live' => mem' = Empty /\ open' = {},
         NEW s, NEW cur \in [Iter -> Cursor],
         Holds(mem', s, cur, open'), \A i \in Iter \ open' : cur[i] = Start,
         free' = Node \ Range(s), \A p \in Range(s) : (mem').data[p] \in Item,
         due' \in [Iter -> SUBSET Node], Ahead(s, cur, open', due')
  PROVE  ListInv' /\ Chain' = s /\ Cursors' = cur
<1>1. Chain' = s /\ Cursors' = cur
  BY StepTo
<1> QED
  BY <1>1 DEF ListInv, Ahead

-----------------------------------------------------------------------------
(* What is inserted and removed at an address.                             *)

\* ListSpec has the library's operators under names of its own.
LEMMA SameCardinality ==
  ASSUME NEW S
  PROVE  Abstract!Cardinality(S) = Cardinality(S)
BY Zenon DEF Cardinality, Abstract!Cardinality, IsFiniteSet, Abstract!IsFiniteSet

LEMMA SameInsertAt ==
  ASSUME NEW s, NEW k, NEW x
  PROVE  /\ Abstract!InsertAt(s, k, x) = InsertAt(s, k, x)
         /\ Abstract!RemoveAt(s, k) = RemoveAt(s, k)
BY DEF InsertAt, Abstract!InsertAt, RemoveAt, Abstract!RemoveAt

LEMMA InsertedIs ==
  ASSUME NEW k, Cursors \in [Iter -> Cursor]
  PROVE  Abstract!Inserted(k) = LaterCursors(Cursors, k)
<1>1. \A c \in Cursor : c = [next |-> c.next, cur |-> c.cur]
  BY DEF Cursor
<1>2. ASSUME NEW i \in Iter PROVE Abstract!Inserted(k)[i] = LaterCursors(Cursors, k)[i]
  <2> DEFINE c == Cursors[i]
  <2>1. c = [next |-> c.next, cur |-> c.cur]
    BY <1>1
  <2>2. Abstract!Inserted(k)[i] =
          IF i \in open /\ (c.next > k \/ (c.next = k /\ ~c.cur))
          THEN [next |-> c.next + 1, cur |-> c.cur] ELSE c
    BY DEF Abstract!Inserted
  <2>3. LaterCursors(Cursors, k)[i] =
          IF i \in open THEN [next |-> Later(c.next, c.cur, k), cur |-> c.cur] ELSE c
    BY DEF LaterCursors
  <2> QED
    BY <2>1, <2>2, <2>3 DEF Later
<1> QED
  BY <1>2 DEF Abstract!Inserted, LaterCursors

LEMMA RemovedIs ==
  ASSUME NEW k \in Nat, Cursors \in [Iter -> Cursor]
  PROVE  Abstract!Removed({k}) = SoonerCursors(Cursors, k)
<1>1. \A n \in Nat : Cardinality({d \in {k} : d < n}) = IF k < n THEN 1 ELSE 0
  <2> SUFFICES ASSUME NEW n \in Nat
               PROVE  Cardinality({d \in {k} : d < n}) = IF k < n THEN 1 ELSE 0
    OBVIOUS
  <2>1. CASE k < n
    <3>1. {d \in {k} : d < n} = {k}
      BY <2>1
    <3> QED
      BY <2>1, <3>1, FS_Singleton
  <2>2. CASE ~(k < n)
    <3>1. {d \in {k} : d < n} = {}
      BY <2>2
    <3> QED
      BY <2>2, <3>1, FS_EmptySet
  <2> QED
    BY <2>1, <2>2
<1>2. ASSUME NEW i \in Iter PROVE Abstract!Removed({k})[i] = SoonerCursors(Cursors, k)[i]
  <2> DEFINE c == Cursors[i]
             n == c.next
  <2>1. n \in Nat /\ c.cur \in BOOLEAN
    BY DEF Cursor
  <2>2. Abstract!Removed({k})[i] =
          IF i \notin open THEN c
          ELSE [next |-> n - Cardinality({d \in {k} : d < n}),
                cur  |-> c.cur /\ {k} \cap {n - 1, n} = {}]
    BY SameCardinality DEF Abstract!Removed
  <2>3. SoonerCursors(Cursors, k)[i] =
          IF i \in open THEN [next |-> Sooner(n, k), cur |-> Knows(n, c.cur, k)] ELSE c
    BY DEF SoonerCursors
  <2>4. n - Cardinality({d \in {k} : d < n}) = Sooner(n, k)
    BY <1>1, <2>1 DEF Sooner
  <2>5. (c.cur /\ {k} \cap {n - 1, n} = {}) = Knows(n, c.cur, k)
    BY <2>1 DEF Knows
  <2> QED
    BY <2>2, <2>3, <2>4, <2>5
<1> QED
  BY <1>2 DEF Abstract!Removed, SoonerCursors

LEMMA RangeIs ==
  ASSUME NEW S, NEW s \in Seq(S)
  PROVE  \A x : x \in Range(s) <=> \E j \in 1 .. Len(s) : s[j] = x
BY DEF Range

LEMMA InsertRange ==
  ASSUME NEW S, NEW s \in Seq(S), NEW k \in 1 .. Len(s) + 1, NEW p \in S
  PROVE  Range(InsertAt(s, k, p)) = Range(s) \cup {p}
<1> DEFINE t == InsertAt(s, k, p)
<1>1. t \in Seq(S) /\ Len(t) = Len(s) + 1
  BY InsertAtFacts
<1>2. (\A j \in 1 .. k - 1 : t[j] = s[j]) /\ t[k] = p
  BY InsertAtFacts
<1>3. \A j \in k + 1 .. Len(s) + 1 : t[j] = s[j - 1]
  BY InsertAtFacts
<1> HIDE DEF t
<1>4. ASSUME NEW j \in 1 .. Len(t) PROVE t[j] \in Range(s) \cup {p}
  <2>1. CASE j < k
    BY <1>1, <1>2, <2>1 DEF Range
  <2>2. CASE j > k
    <3>1. j - 1 \in 1 .. Len(s) /\ t[j] = s[j - 1]
      BY <1>1, <1>3, <2>2
    <3> QED
      BY <1>1, <3>1 DEF Range
  <2> QED
    BY <1>2, <2>1, <2>2
<1>5. ASSUME NEW j \in 1 .. Len(s) PROVE \E n \in 1 .. Len(t) : t[n] = s[j]
  <2>1. CASE j < k
    BY <1>1, <1>2, <2>1
  <2>2. CASE j >= k
    <3>1. j + 1 \in k + 1 .. Len(s) + 1 /\ (j + 1) - 1 = j /\ j + 1 \in 1 .. Len(t)
      BY <1>1, <2>2
    <3> QED
      BY <1>3, <3>1
  <2> QED
    BY <1>1, <2>1, <2>2
<1>6. \E n \in 1 .. Len(t) : t[n] = p
  BY <1>1, <1>2
<1>7. \A x : x \in Range(t) <=> x \in Range(s) \cup {p}
  BY <1>1, <1>4, <1>5, <1>6, RangeIs, SMTT(40)
<1> QED
  BY <1>7 DEF t

LEMMA RemoveRange ==
  ASSUME NEW S, NEW s \in Seq(S), IsInjective(s), NEW k \in 1 .. Len(s)
  PROVE  Range(RemoveAt(s, k)) = Range(s) \ {s[k]}
<1> DEFINE t == RemoveAt(s, k)
<1>1. t \in Seq(S) /\ Len(t) = Len(s) - 1
  BY RemoveAtFacts
<1>2. \A j \in 1 .. Len(s) - 1 : t[j] = IF j < k THEN s[j] ELSE s[j + 1]
  BY RemoveAtFacts
<1> HIDE DEF t
<1>3. \A i, j \in 1 .. Len(s) : s[i] = s[j] => i = j
  BY DEF IsInjective
<1>4. ASSUME NEW j \in 1 .. Len(t) PROVE t[j] \in Range(s) \ {s[k]}
  <2> DEFINE n == IF j < k THEN j ELSE j + 1
  <2>1. n \in 1 .. Len(s) /\ n # k /\ t[j] = s[n]
    BY <1>1, <1>2
  <2> QED
    BY <1>3, <2>1 DEF Range
<1>5. ASSUME NEW j \in 1 .. Len(s), j # k PROVE \E n \in 1 .. Len(t) : t[n] = s[j]
  <2>1. CASE j < k
    BY <1>1, <1>2, <2>1
  <2>2. CASE j > k
    <3>1. j - 1 \in 1 .. Len(t) /\ (j - 1) + 1 = j /\ ~(j - 1 < k)
      BY <1>1, <2>2
    <3> QED
      BY <1>1, <1>2, <3>1
  <2> QED
    BY <1>5, <2>1, <2>2
<1>6. \A x : x \in Range(t) <=> x \in Range(s) \ {s[k]}
  <2> SUFFICES ASSUME NEW x PROVE x \in Range(t) <=> x \in Range(s) \ {s[k]}
    OBVIOUS
  <2>1. x \in Range(t) => x \in Range(s) \ {s[k]}
    BY <1>1, <1>4, RangeIs
  <2>2. x \in Range(s) \ {s[k]} => x \in Range(t)
    <3>1. (\E j \in 1 .. Len(s) : s[j] = x) <=> x \in Range(s)
      BY RangeIs
    <3>2. (\E j \in 1 .. Len(t) : t[j] = x) <=> x \in Range(t)
      BY <1>1, RangeIs
    <3> QED
      BY <1>5, <3>1, <3>2
  <2> QED
    BY <2>1, <2>2
<1> QED
  BY <1>6 DEF t

\* What the nodes of a sequence contain, and after one came or went.
Mapped(s, f) == [j \in 1 .. Len(s) |-> f[s[j]]]

LEMMA ItemsAre ==
  ASSUME ListInv
  PROVE  Items = Mapped(Chain, mem.data)
BY InvFacts DEF Items, Mapped

LEMMA InsertMapped ==
  ASSUME NEW S, NEW V, NEW s \in Seq(S), NEW k \in 1 .. Len(s) + 1, NEW p \in S, NEW x \in V,
         NEW f, NEW g, \A j \in 1 .. Len(s) : g[s[j]] = f[s[j]] /\ f[s[j]] \in V, g[p] = x
  PROVE  Mapped(InsertAt(s, k, p), g) = InsertAt(Mapped(s, f), k, x)
<1> DEFINE t == InsertAt(s, k, p)
           u == [j \in 1 .. Len(s) |-> f[s[j]]]
           w == InsertAt(u, k, x)
           v == [j \in 1 .. Len(t) |-> g[t[j]]]
<1> SUFFICES v = w
  BY DEF Mapped
<1>1. t \in Seq(S) /\ Len(t) = Len(s) + 1
  BY InsertAtFacts
<1>2. (\A j \in 1 .. k - 1 : t[j] = s[j]) /\ t[k] = p
  BY InsertAtFacts
<1>3. \A j \in k + 1 .. Len(s) + 1 : t[j] = s[j - 1]
  BY InsertAtFacts
<1>4. /\ u \in Seq(V) /\ Len(u) = Len(s) /\ k \in 1 .. Len(u) + 1
      /\ \A j \in 1 .. Len(s) : u[j] = f[s[j]]
  OBVIOUS
<1> HIDE DEF u
<1>5. w \in Seq(V) /\ Len(w) = Len(s) + 1
  BY <1>4, InsertAtFacts
<1>6. (\A j \in 1 .. k - 1 : w[j] = u[j]) /\ w[k] = x
  <2>1. u \in Seq(V) /\ k \in 1 .. Len(u) + 1 /\ x \in V
    BY <1>4
  <2> QED
    BY ONLY <2>1, InsertAtFacts
<1>7. \A j \in k + 1 .. Len(s) + 1 : w[j] = u[j - 1]
  <2>1. u \in Seq(V) /\ k \in 1 .. Len(u) + 1 /\ x \in V
    BY <1>4
  <2>2. \A j \in k + 1 .. Len(u) + 1 : w[j] = u[j - 1]
    BY ONLY <2>1, InsertAtFacts
  <2> QED
    BY <1>4, <2>2
<1> HIDE DEF t, w
<1>8. ASSUME NEW j \in 1 .. Len(s) + 1 PROVE g[t[j]] = w[j]
  <2>1. CASE j < k
    BY <1>2, <1>4, <1>6, <2>1
  <2>2. CASE j = k
    BY <1>2, <1>6, <2>2
  <2>3. CASE j > k
    <3>1. j - 1 \in 1 .. Len(s) /\ j \in k + 1 .. Len(s) + 1
      BY <2>3
    <3> QED
      BY <1>3, <1>4, <1>7, <3>1
  <2> QED
    BY <2>1, <2>2, <2>3
<1>9. v = [j \in 1 .. Len(w) |-> w[j]]
  BY <1>1, <1>5, <1>8
<1> QED
  BY <1>5, <1>9

LEMMA RemoveMapped ==
  ASSUME NEW S, NEW s \in Seq(S), NEW k \in 1 .. Len(s), NEW f, NEW g,
         \A j \in 1 .. Len(s) : j # k => g[s[j]] = f[s[j]]
  PROVE  Mapped(RemoveAt(s, k), g) = RemoveAt(Mapped(s, f), k)
<1> DEFINE V == {f[s[j]] : j \in 1 .. Len(s)}
           t == RemoveAt(s, k)
           u == [j \in 1 .. Len(s) |-> f[s[j]]]
           w == RemoveAt(u, k)
           v == [j \in 1 .. Len(t) |-> g[t[j]]]
<1> SUFFICES v = w
  BY DEF Mapped
<1>1. t \in Seq(S) /\ Len(t) = Len(s) - 1
  BY RemoveAtFacts
<1>2. \A j \in 1 .. Len(s) - 1 : t[j] = IF j < k THEN s[j] ELSE s[j + 1]
  BY RemoveAtFacts
<1>3. u \in Seq(V) /\ Len(u) = Len(s) /\ \A j \in 1 .. Len(s) : u[j] = f[s[j]]
  OBVIOUS
<1> HIDE DEF u
<1>4. w \in Seq(V) /\ Len(w) = Len(s) - 1
  BY <1>3, RemoveAtFacts
<1>5. \A j \in 1 .. Len(s) - 1 : w[j] = IF j < k THEN u[j] ELSE u[j + 1]
  <2>1. u \in Seq(V) /\ k \in 1 .. Len(u)
    BY <1>3
  <2>2. \A j \in 1 .. Len(u) - 1 : w[j] = IF j < k THEN u[j] ELSE u[j + 1]
    BY ONLY <2>1, RemoveAtFacts DEF w
  <2> QED
    BY <1>3, <2>2
<1> HIDE DEF t, w
<1>6. ASSUME NEW j \in 1 .. Len(s) - 1 PROVE g[t[j]] = w[j]
  <2> DEFINE n == IF j < k THEN j ELSE j + 1
  <2>1. n \in 1 .. Len(s) /\ n # k /\ t[j] = s[n] /\ w[j] = u[n]
    BY <1>2, <1>5
  <2> QED
    BY <1>3, <2>1
<1>7. v = [j \in 1 .. Len(w) |-> w[j]]
  BY <1>1, <1>4, <1>6
<1> QED
  BY <1>4, <1>7

LEMMA AheadInserted ==
  ASSUME NEW s \in Seq(Node), NEW k \in 1 .. Len(s) + 1, NEW p \in Node,
         NEW cur \in [Iter -> Cursor], open \subseteq Iter, \A i \in open : cur[i].next > 0,
         NEW d, Ahead(s, cur, open, d)
  PROVE  Ahead(InsertAt(s, k, p), LaterCursors(cur, k), open, d)
<1> DEFINE t == InsertAt(s, k, p)
<1>1. t \in Seq(Node) /\ Len(t) = Len(s) + 1
  BY InsertAtFacts
<1>2. \A j \in 1 .. k - 1 : t[j] = s[j]
  BY InsertAtFacts
<1>3. \A j \in k + 1 .. Len(s) + 1 : t[j] = s[j - 1]
  BY InsertAtFacts
<1> HIDE DEF t
<1>4. ASSUME NEW i \in open, NEW q \in d[i]
      PROVE  \E j \in LaterCursors(cur, k)[i].next .. Len(t) : t[j] = q
  <2> DEFINE n == cur[i].next
             b == cur[i].cur
  <2>1. n \in Nat /\ n > 0 /\ LaterCursors(cur, k)[i].next = Later(n, b, k)
    BY DEF LaterCursors, Cursor
  <2>2. PICK j \in n .. Len(s) : s[j] = q
    BY DEF Ahead
  <2> HIDE DEF n, b
  <2>3. CASE j < k
    <3>1. Later(n, b, k) = n
      BY <2>1, <2>2, <2>3 DEF Later
    <3>2. j \in n .. Len(t) /\ j \in 1 .. k - 1
      BY <1>1, <2>1, <2>2, <2>3
    <3> QED
      BY <1>2, <2>1, <2>2, <3>1, <3>2
  <2>4. CASE j >= k
    <3>1. j + 1 \in k + 1 .. Len(s) + 1 /\ (j + 1) - 1 = j
      BY <2>1, <2>2, <2>4
    <3>2. t[j + 1] = q
      BY <1>3, <2>2, <3>1
    <3>3. j + 1 \in Later(n, b, k) .. Len(t)
      BY <1>1, <2>1, <2>2 DEF Later
    <3> QED
      BY <2>1, <3>2, <3>3
  <2> QED
    BY <2>1, <2>2, <2>3, <2>4
<1> QED
  BY <1>4 DEF Ahead, t

LEMMA AheadRemoved ==
  ASSUME NEW s \in Seq(Node), IsInjective(s), NEW k \in 1 .. Len(s),
         NEW cur \in [Iter -> Cursor], open \subseteq Iter, \A i \in open : cur[i].next > 0,
         NEW d, Ahead(s, cur, open, d)
  PROVE  Ahead(RemoveAt(s, k), SoonerCursors(cur, k), open, [i \in Iter |-> d[i] \ {s[k]}])
<1> DEFINE t == RemoveAt(s, k)
           e == [i \in Iter |-> d[i] \ {s[k]}]
<1>1. t \in Seq(Node) /\ Len(t) = Len(s) - 1
  BY RemoveAtFacts
<1>2. \A j \in 1 .. Len(s) - 1 : t[j] = IF j < k THEN s[j] ELSE s[j + 1]
  BY RemoveAtFacts
<1> HIDE DEF t
<1>3. ASSUME NEW i \in open, NEW q \in e[i]
      PROVE  \E j \in SoonerCursors(cur, k)[i].next .. Len(t) : t[j] = q
  <2> DEFINE n == cur[i].next
             b == cur[i].cur
  <2>1. n \in Nat /\ n > 0 /\ SoonerCursors(cur, k)[i].next = Sooner(n, k)
    BY DEF SoonerCursors, Cursor
  <2>2. q \in d[i] /\ q # s[k]
    OBVIOUS
  <2>3. PICK j \in n .. Len(s) : s[j] = q
    BY <2>2 DEF Ahead
  <2> HIDE DEF n, b, e
  <2>4. CASE j < k
    <3>1. j \in 1 .. Len(s) - 1 /\ j \in Sooner(n, k) .. Len(t)
      BY <1>1, <2>1, <2>3, <2>4 DEF Sooner
    <3> QED
      BY <1>2, <2>1, <2>3, <2>4, <3>1
  <2>5. CASE j > k
    <3>1. j - 1 \in 1 .. Len(s) - 1 /\ j - 1 \in Sooner(n, k) .. Len(t) /\ (j - 1) + 1 = j /\ ~(j - 1 < k)
      BY <1>1, <2>1, <2>3, <2>5 DEF Sooner
    <3> QED
      BY <1>2, <2>1, <2>3, <3>1
  <2>6. j # k
    BY <2>2, <2>3
  <2> QED
    BY <2>1, <2>3, <2>4, <2>5, <2>6
<1> QED
  BY <1>3 DEF Ahead, t

\* A call that inserts at index k.
LEMMA InsertStep ==
  ASSUME ListInv, live, NEW k \in 1 .. Len(Chain) + 1, NEW x \in Item,
         InsertAtAddr(AddrAt(Chain, k - 1), x)
  PROVE  ListInv' /\ Abstract!Insert(k, x)
<1> DEFINE s == Chain
           cur == Cursors
           pp == AddrAt(Chain, k - 1)
<1>1. /\ mem \in Memory /\ open \subseteq Iter
      /\ s \in Seq(Node) /\ IsInjective(s) /\ Links(mem.next, s) /\ Len(s) \in Nat
      /\ cur \in [Iter -> Cursor] /\ (\A i \in Iter \ open : cur[i] = Start)
      /\ free = Node \ Range(s) /\ Range(s) \subseteq Node
      /\ \A j \in 1 .. Len(s) : s[j] \in Node /\ mem.data[s[j]] \in Item
      /\ Ahead(s, cur, open, due)
  BY InvFacts
<1>2. \A i \in open : cur[i].next > 0
  BY InvFacts DEF AtCursor
<1>3. /\ live' = live /\ open' = open /\ due' = due
      /\ \/ \E p \in free : mem' = NodeCreate(mem, pp, p, x) /\ free' = free \ {p} /\ ret' = x
         \/ free = {} /\ ret' = Null /\ mem' = mem /\ free' = free
  BY DEF InsertAtAddr
<1>4. Holds(mem, s, cur, open) /\ due \in [Iter -> SUBSET Node]
  BY DEF ListInv
<1>5. k - 1 \in 0 .. Len(s) /\ pp \in Addr
  BY <1>1, Places
<1>8. k \in 1 .. Len(s) + 1
  OBVIOUS
<1>6. ASSUME free = {}, ret' = Null, mem' = mem, free' = free
      PROVE  ListInv' /\ Abstract!InsertItem(k, x)
  <2>1. Chain' = Chain /\ Cursors' = Cursors /\ Items' = Items
    BY <1>3, <1>6 DEF Chain, Cursors, Items
  <2>2. Len(s) = Cardinality(Node)
    <3>1. \A p \in Node : \E j \in 1 .. Len(s) : s[j] = p
      BY <1>1, <1>6 DEF Range
    <3> QED
      BY <1>1, <3>1, ShortSeq, ListAssumption
  <2>3. ListInv'
    BY <1>3, <1>6, <2>1 DEF ListInv
  <2>4. Len(Items) = Cardinality(Node)
    BY <1>1, <2>2 DEF Items
  <2> QED
    BY <1>6, <2>1, <2>3, <2>4, SameCardinality DEF Abstract!InsertItem
<1>7. ASSUME NEW p \in free, mem' = NodeCreate(mem, pp, p, x), free' = free \ {p}, ret' = x
      PROVE  ListInv' /\ Abstract!InsertItem(k, x)
  <2> DEFINE t == InsertAt(s, k, p)
             cur2 == LaterCursors(cur, k)
  <2>1. p \in Node /\ p \notin Range(s)
    BY <1>1
  <2>2. mem' \in Memory
    BY <1>1, <1>5, <1>7, <2>1, CreateMemory
  <2>3. Holds(mem', t, cur2, open')
    BY <1>1, <1>3, <1>4, <1>7, <2>1, CreateHolds
  <2>4. cur2 \in [Iter -> Cursor] /\ \A i \in Iter \ open' : cur2[i] = Start
    BY <1>1, <1>3, CursorsTyped DEF LaterCursors
  <2>5. t \in Seq(Node) /\ Len(t) = Len(s) + 1
    BY <1>1, <2>1, InsertAtFacts
  <2>7. Ahead(t, cur2, open', due')
    BY <1>1, <1>2, <1>3, <2>1, AheadInserted
  <2> HIDE DEF t, cur2, s, cur, pp
  <2>8. Range(t) = Range(s) \cup {p}
    BY <1>1, <1>8, <2>1, InsertRange DEF t
  <2>9. (mem').data = [mem.data EXCEPT ![p] = x] /\ mem.data \in [Node -> Item \cup {Null}]
    BY <1>1, <1>7 DEF NodeCreate, Memory
  <2>10. \A q \in Range(t) : (mem').data[q] \in Item
    <3>1. \A q \in Range(s) : mem.data[q] \in Item /\ q \in Node
      BY <1>1 DEF Range
    <3> QED
      BY <2>1, <2>8, <2>9, <3>1
  <2>11. free' = Node \ Range(t)
    BY <1>1, <1>7, <2>8
  <2>12. ListInv' /\ Chain' = t /\ Cursors' = cur2
    BY <1>1, <1>3, <1>4, <2>2, <2>3, <2>4, <2>7, <2>10, <2>11, InvStep
  <2>13. Items' = InsertAt(Items, k, x)
    <3>1. Items = Mapped(s, mem.data)
      BY <1>1 DEF Items, Mapped, s
    <3>2. Items' = Mapped(t, (mem').data)
      BY <2>5, <2>12 DEF Items, Mapped
    <3>3. \A j \in 1 .. Len(s) : (mem').data[s[j]] = mem.data[s[j]] /\ mem.data[s[j]] \in Item
      BY <1>1, <2>1, <2>9 DEF Range
    <3>4. (mem').data[p] = x
      BY <2>1, <2>9
    <3>5. Mapped(InsertAt(s, k, p), (mem').data) = InsertAt(Mapped(s, mem.data), k, x)
      BY <1>1, <1>8, <2>1, <3>3, <3>4, InsertMapped, SMTT(40)
    <3> QED
      BY <3>1, <3>2, <3>5 DEF t
  <2>14. Len(Items) < Cardinality(Node)
    <3>1. Len(s) <= Cardinality(Node) /\ Len(s) # Cardinality(Node)
      <4>1. ~\A q \in Node : \E j \in 1 .. Len(s) : s[j] = q
        BY <1>1, <2>1, SMTT(40) DEF Range
      <4> QED
        BY <1>1, <4>1, ShortSeq, ListAssumption
    <3>2. Len(Items) = Len(s)
      BY <1>1 DEF Items, s
    <3> QED
      BY <1>1, <3>1, <3>2, Sizes
  <2>15. Cursors' = Abstract!Inserted(k)
    BY <1>1, <2>12, InsertedIs DEF cur2, cur
  <2> QED
    BY <1>7, <2>12, <2>13, <2>14, <2>15, SameInsertAt DEF Abstract!InsertItem
<1> QED
  BY <1>3, <1>6, <1>7 DEF Abstract!Insert

\* A call that removes the node at index k.
LEMMA RemoveStep ==
  ASSUME ListInv, live, NEW k \in 1 .. Len(Chain), RemoveAtAddr(AddrAt(Chain, k - 1))
  PROVE  ListInv' /\ Abstract!RemoveItem(k) /\ UNCHANGED <<live, open>>
<1> DEFINE s == Chain
           cur == Cursors
           pp == AddrAt(Chain, k - 1)
           p == s[k]
           t == RemoveAt(s, k)
           cur2 == SoonerCursors(cur, k)
<1>1. /\ mem \in Memory /\ open \subseteq Iter
      /\ s \in Seq(Node) /\ IsInjective(s) /\ Links(mem.next, s) /\ Len(s) \in Nat
      /\ mem.count = Len(s)
      /\ cur \in [Iter -> Cursor] /\ (\A i \in Iter \ open : cur[i] = Start)
      /\ free = Node \ Range(s) /\ Range(s) \subseteq Node
      /\ \A j \in 1 .. Len(s) : s[j] \in Node /\ mem.data[s[j]] \in Item
      /\ Ahead(s, cur, open, due)
  BY InvFacts
<1>2. \A i \in open : cur[i].next > 0
  BY InvFacts DEF AtCursor
<1>3. k \in 1 .. Len(s) /\ k \in Nat /\ k - 1 \in 0 .. Len(s) /\ pp \in Addr
  BY <1>1, Places
<1>4. mem.next[pp] = p /\ p # Null /\ p \in Node
  BY <1>1, <1>3, DestroyLinks
<1>5. /\ live' = live /\ open' = open
      /\ mem' = NodeDestroy(mem, pp) /\ free' = free \cup {p} /\ ret' = mem.data[p]
      /\ due' = [i \in Iter |-> due[i] \ {p}]
  BY <1>4 DEF RemoveAtAddr, DataOf
<1>6. Holds(mem, s, cur, open) /\ due \in [Iter -> SUBSET Node]
  BY DEF ListInv
<1>7. mem' \in Memory
  BY <1>1, <1>3, <1>4, <1>5, DestroyMemory
<1>8. Holds(mem', t, cur2, open')
  BY <1>1, <1>5, <1>6, DestroyHolds
<1>9. cur2 \in [Iter -> Cursor] /\ \A i \in Iter \ open' : cur2[i] = Start
  BY <1>1, <1>2, <1>3, <1>5, CursorsTyped DEF SoonerCursors
<1>10. Ahead(t, cur2, open', due')
  BY <1>1, <1>2, <1>3, <1>5, AheadRemoved
<1>11. Range(t) = Range(s) \ {p} /\ t \in Seq(Node)
  BY <1>1, <1>3, RemoveRange, RemoveAtFacts
<1>12. (mem').data = [mem.data EXCEPT ![p] = Null] /\ mem.data \in [Node -> Item \cup {Null}]
  BY <1>1, <1>4, <1>5 DEF NodeDestroy, Memory
<1>13. \A q \in Range(s) : mem.data[q] \in Item
  BY <1>1, RangeIs
<1>14. p \in Range(s)
  BY <1>1, <1>3, RangeIs
<1>15. due' \in [Iter -> SUBSET Node]
  BY <1>5, <1>6
<1>16. \A j \in 1 .. Len(s) : j # k => s[j] # p
  BY <1>1, <1>3 DEF IsInjective
<1> HIDE DEF s, cur, pp, p, t, cur2
<1>17. \A q \in Range(t) : (mem').data[q] \in Item
  BY <1>1, <1>11, <1>12, <1>13
<1>18. free' = Node \ Range(t)
  BY <1>1, <1>4, <1>5, <1>11, <1>14
<1>19. ListInv' /\ Chain' = t /\ Cursors' = cur2
  BY <1>1, <1>5, <1>7, <1>8, <1>9, <1>10, <1>15, <1>17, <1>18, InvStep
<1>20. Items' = RemoveAt(Items, k) /\ Items[k] = mem.data[p]
  <2>1. Items = Mapped(s, mem.data)
    BY ItemsAre DEF s
  <2>2. Items' = Mapped(t, (mem').data)
    BY <1>11, <1>19 DEF Items, Mapped
  <2>3. \A j \in 1 .. Len(s) : mem.data[s[j]] \in Item
    BY <1>1
  <2>4. \A j \in 1 .. Len(s) : j # k => (mem').data[s[j]] = mem.data[s[j]]
    BY <1>1, <1>4, <1>12, <1>16
  <2>5. Mapped(RemoveAt(s, k), (mem').data) = RemoveAt(Mapped(s, mem.data), k)
    <3>1. s \in Seq(Node) /\ k \in 1 .. Len(s)
      BY <1>1, <1>3
    <3> QED
      BY ONLY <2>3, <2>4, <3>1, RemoveMapped
  <2>6. Mapped(s, mem.data)[k] = mem.data[s[k]]
    BY <1>3 DEF Mapped
  <2> QED
    BY <2>1, <2>2, <2>5, <2>6 DEF t, p
<1>21. Cursors' = Abstract!Removed({k})
  BY <1>1, <1>3, <1>19, RemovedIs DEF cur2, cur
<1> QED
  BY <1>5, <1>19, <1>20, <1>21, SameInsertAt DEF Abstract!RemoveItem

-----------------------------------------------------------------------------
(* The calls.                                                              *)

LEMMA StartIs ==
  /\ Abstract!Start = Start /\ Start \in Cursor /\ Start.next = 1 /\ Start.cur = FALSE
  /\ [i \in Iter |-> Start] \in [Iter -> Cursor]
BY DEF Abstract!Start, Start, Cursor

LEMMA EmptyHolds ==
  /\ Empty \in Memory /\ Holds(Empty, << >>, [i \in Iter |-> Start], {})
  /\ \A d : Ahead(<< >>, [i \in Iter |-> Start], {}, d)
<1>1. Empty \in Memory
  BY DEF Empty, Memory, Addr
<1>2. << >> \in Seq(Node) /\ Len(<< >>) = 0 /\ IsInjective(<< >>)
  BY DEF IsInjective
<1>3. Empty.next[AddrAt(<< >>, 0)] = NodeAt(<< >>, 1) /\ Empty.tail = AddrAt(<< >>, 0)
  BY <1>2 DEF Empty, AddrAt, NodeAt, Addr
<1>4. Links(Empty.next, << >>)
  BY <1>2, <1>3 DEF Links
<1>5. Holds(Empty, << >>, [i \in Iter |-> Start], {})
  BY <1>2, <1>3, <1>4 DEF Holds, Empty
<1> QED
  BY <1>1, <1>5 DEF Ahead

LEMMA InitInv ==
  Init => ListInv /\ Abstract!Init
<1> SUFFICES ASSUME Init PROVE ListInv /\ Abstract!Init
  OBVIOUS
<1>1. /\ live = FALSE /\ mem = Empty /\ free = Node /\ open = {} /\ ret = Null
      /\ due = [i \in Iter |-> {}]
  BY DEF Init
<1>2. Chain = << >> /\ Cursors = [i \in Iter |-> Start]
  <2>1. mem \in Memory /\ open \subseteq Iter
    BY <1>1, EmptyHolds
  <2>2. Holds(mem, << >>, [i \in Iter |-> Start], open)
    BY <1>1, EmptyHolds
  <2>3. ChainOf(mem.next) = << >> /\ CursorsOf(mem, open) = [i \in Iter |-> Start]
    BY <2>1, <2>2, StartIs, Reads DEF Start
  <2> QED
    BY <2>3 DEF Chain, Cursors
<1>3. Range(<< >>) = {}
  BY DEF Range
<1>4. ListInv
  BY <1>1, <1>2, <1>3, EmptyHolds DEF ListInv
<1>5. Items = << >>
  BY <1>2 DEF Items
<1> QED
  BY <1>1, <1>2, <1>4, <1>5, StartIs DEF Abstract!Init

\* Cursors and nodes due when iterators S start again.
Rewound(cur, S) == [i \in Iter |-> IF i \in S THEN Start ELSE cur[i]]
Reset(s, d, S) == [i \in Iter |-> IF i \in S THEN Range(s) ELSE d[i]]

LEMMA RewindHolds ==
  ASSUME NEW m \in Memory, NEW s, NEW cur \in [Iter -> Cursor], NEW its \in SUBSET Iter,
         Holds(m, s, cur, its), NEW S \in SUBSET Iter
  PROVE  /\ Rewind(m, S) \in Memory /\ Rewind(m, S).data = m.data
         /\ Rewound(cur, S) \in [Iter -> Cursor]
         /\ Holds(Rewind(m, S), s, Rewound(cur, S), its \cup S)
<1> DEFINE m2 == Rewind(m, S)
           cur2 == [i \in Iter |-> IF i \in S THEN Start ELSE cur[i]]
<1> SUFFICES /\ m2 \in Memory /\ m2.data = m.data /\ cur2 \in [Iter -> Cursor]
             /\ Holds(m2, s, cur2, its \cup S)
  BY DEF Rewound
<1>1. ListHead \in Addr /\ m.next[ListHead] \in Node \cup {Null}
  BY DEF Memory, Addr
<1>2. m2 \in Memory /\ m2.next = m.next /\ m2.data = m.data /\ m2.count = m.count /\ m2.tail = m.tail
  BY <1>1 DEF Rewind, Memory
<1>3. \A i \in Iter : /\ m2.pos[i] = IF i \in S THEN m.next[ListHead] ELSE m.pos[i]
                      /\ m2.prev[i] = IF i \in S THEN ListHead ELSE m.prev[i]
  BY DEF Rewind, Memory
<1>4. /\ Links(m.next, s) /\ m.count = Len(s) /\ m.tail = AddrAt(s, Len(s)) /\ s \in Seq(Node)
      /\ \A i \in its : AtCursor(m, s, cur[i].next, cur[i].cur, i)
  BY HoldsParts DEF Links
<1>5. AddrAt(s, 0) = ListHead /\ m.next[ListHead] = NodeAt(s, 1)
  <2>1. m.next[AddrAt(s, 0)] = NodeAt(s, 0 + 1)
    BY <1>4 DEF Links
  <2> QED
    BY <2>1 DEF AddrAt
<1> HIDE DEF m2
<1>6. ASSUME NEW i \in its \cup S PROVE AtCursor(m2, s, cur2[i].next, cur2[i].cur, i)
  <2>1. CASE i \in S
    BY <1>3, <1>4, <1>5, <2>1, StartIs DEF AtCursor
  <2>2. CASE i \notin S
    BY <1>3, <1>4, <2>2 DEF AtCursor
  <2> QED
    BY <2>1, <2>2
<1>7. cur2 \in [Iter -> Cursor]
  BY StartIs
<1>8. Holds(m2, s, cur2, its \cup S)
  BY <1>2, <1>4, <1>6, HoldsParts
<1> QED
  BY <1>2, <1>7, <1>8

LEMMA AheadRestarted ==
  ASSUME NEW s \in Seq(Node), NEW cur, NEW its \in SUBSET Iter, NEW d, Ahead(s, cur, its, d),
         NEW S \in SUBSET Iter
  PROVE  Ahead(s, Rewound(cur, S), its \cup S, Reset(s, d, S))
<1> DEFINE cur2 == [i \in Iter |-> IF i \in S THEN Start ELSE cur[i]]
           d2 == [i \in Iter |-> IF i \in S THEN Range(s) ELSE d[i]]
<1> SUFFICES Ahead(s, cur2, its \cup S, d2)
  BY DEF Rewound, Reset
<1>1. ASSUME NEW i \in its \cup S, NEW q \in d2[i] PROVE \E k \in cur2[i].next .. Len(s) : s[k] = q
  <2>1. CASE i \in S
    <3>1. q \in Range(s) /\ cur2[i] = Start
      BY <2>1
    <3>2. PICK k \in 1 .. Len(s) : s[k] = q
      BY <3>1, RangeIs
    <3> QED
      BY <3>1, <3>2, StartIs
  <2>2. CASE i \notin S
    <3>1. i \in Iter /\ i \in its /\ q \in d[i] /\ cur2[i] = cur[i]
      BY <2>2
    <3> QED
      BY <3>1 DEF Ahead
  <2> QED
    BY <2>1, <2>2
<1> QED
  BY <1>1 DEF Ahead

LEMMA CreateStep ==
  ASSUME ListInv, ListCreate
  PROVE  ListInv' /\ Abstract!Create
<1>1. CASE live' = TRUE /\ mem' = Empty /\ open' = {} /\ UNCHANGED ret
  <2>0. ~live /\ free' = free /\ due' = due
    BY DEF ListCreate
  <2>1. mem = Empty /\ open = {}
    BY <2>0 DEF ListInv
  <2>2. Chain' = Chain /\ Cursors' = Cursors /\ Items' = Items
    BY <1>1, <2>1 DEF Chain, Cursors, Items
  <2>3. ListInv'
    BY <1>1, <2>0, <2>1, <2>2 DEF ListInv
  <2> QED
    BY <1>1, <2>0, <2>1, <2>2, <2>3 DEF Abstract!Create
<1>2. CASE ret' = Null /\ UNCHANGED <<live, mem, open>>
  <2>0. ~live /\ free' = free /\ due' = due
    BY DEF ListCreate
  <2>1. Chain' = Chain /\ Cursors' = Cursors /\ Items' = Items
    BY <1>2 DEF Chain, Cursors, Items
  <2>2. ListInv'
    BY <1>2, <2>0, <2>1 DEF ListInv
  <2> QED
    BY <1>2, <2>0, <2>1, <2>2 DEF Abstract!Create
<1> QED
  BY <1>1, <1>2 DEF ListCreate

LEMMA DestroyStep ==
  ASSUME ListInv, ListDestroy
  PROVE  ListInv' /\ Abstract!Destroy
<1>1. /\ live /\ live' = FALSE /\ mem' = Empty /\ open' = {} /\ ret' = ret
      /\ free' = free \cup Range(Chain) /\ due' = [i \in Iter |-> {}]
  BY DEF ListDestroy
<1>2. free' = Node \ Range(<< >>)
  BY <1>1, InvFacts DEF Range
<1>3. \A p \in Range(<< >>) : (mem').data[p] \in Item
  BY DEF Range
<1>4. mem' \in Memory /\ Holds(mem', << >>, [i \in Iter |-> Start], open')
  BY <1>1, EmptyHolds
<1>5. /\ Ahead(<< >>, [i \in Iter |-> Start], open', due') /\ due' \in [Iter -> SUBSET Node]
      /\ open' \subseteq Iter /\ live' \in BOOLEAN
      /\ [i \in Iter |-> Start] \in [Iter -> Cursor]
      /\ \A i \in Iter \ open' : [j \in Iter |-> Start][i] = Start
  BY <1>1, EmptyHolds, StartIs
<1>6. ListInv' /\ Chain' = << >> /\ Cursors' = [i \in Iter |-> Start]
  BY <1>1, <1>2, <1>3, <1>4, <1>5, InvStep
<1>7. Items' = << >>
  BY <1>6 DEF Items
<1> QED
  BY <1>1, <1>6, <1>7, StartIs DEF Abstract!Destroy

\* A call that rewinds iterators S and leaves `its' open.
LEMMA RewindStep ==
  ASSUME ListInv, live, NEW S \in SUBSET Iter,
         mem' = Rewind(mem, S), due' = Restarted(S), free' = free, live' = live, open' = open \cup S
  PROVE  /\ ListInv' /\ Items' = Items
         /\ Cursors' = Rewound(Cursors, S)
<1> DEFINE s == Chain
           cur2 == Rewound(Cursors, S)
<1>1. /\ mem \in Memory /\ open \subseteq Iter
      /\ s \in Seq(Node) /\ Cursors \in [Iter -> Cursor]
      /\ (\A i \in Iter \ open : Cursors[i] = Start)
      /\ free = Node \ Range(s) /\ Range(s) \subseteq Node /\ Ahead(s, Cursors, open, due)
  BY InvFacts
<1>2. /\ Holds(mem, s, Cursors, open) /\ due \in [Iter -> SUBSET Node]
      /\ \A p \in Range(s) : mem.data[p] \in Item
  BY DEF ListInv
<1>3. /\ mem' \in Memory /\ (mem').data = mem.data /\ cur2 \in [Iter -> Cursor]
      /\ Holds(mem', s, cur2, open')
  <2> DEFINE m2 == Rewind(mem, S)
  <2>1. /\ m2 \in Memory /\ m2.data = mem.data /\ cur2 \in [Iter -> Cursor]
        /\ Holds(m2, s, cur2, open \cup S)
    BY <1>1, <1>2, RewindHolds
  <2> HIDE DEF m2, cur2, s
  <2>2. mem' = m2 /\ open' = open \cup S
    BY DEF m2
  <2> QED
    BY <2>1, <2>2
<1>4. \A i \in Iter \ open' : cur2[i] = Start
  BY <1>1 DEF Rewound
<1>5. due' \in [Iter -> SUBSET Node] /\ Ahead(s, cur2, open', due')
  <2>1. due' = Reset(s, due, S)
    BY DEF Restarted, Reset
  <2>2. due' \in [Iter -> SUBSET Node]
    BY <1>1, <1>2, <2>1 DEF Reset
  <2>3. Ahead(s, cur2, open \cup S, Reset(s, due, S))
    <3>1. s \in Seq(Node) /\ open \in SUBSET Iter /\ Ahead(s, Cursors, open, due)
      BY <1>1
    <3> HIDE DEF s
    <3> QED
      BY <3>1, AheadRestarted
  <2> HIDE DEF cur2, s
  <2> QED
    BY <2>1, <2>2, <2>3
<1>6. ListInv' /\ Chain' = s /\ Cursors' = cur2
  BY <1>1, <1>2, <1>3, <1>4, <1>5, InvStep
<1>7. Items' = Items
  BY <1>3, <1>6 DEF Items
<1> QED
  BY <1>6, <1>7

LEMMA IteratorCreateStep ==
  ASSUME ListInv, ListIteratorCreate
  PROVE  ListInv' /\ Abstract!OpenIter
<1>0. live /\ live' = live /\ free' = free
  BY DEF ListIteratorCreate
<1>1. ASSUME NEW i \in Iter \ open, open' = open \cup {i}, mem' = Rewind(mem, {i}),
             due' = Restarted({i}), ret' = ret
      PROVE  ListInv' /\ Abstract!OpenIter
  <2>1. /\ ListInv' /\ Items' = Items
        /\ Cursors' = Rewound(Cursors, {i})
    BY <1>0, <1>1, RewindStep
  <2>2. Cursors[i] = Start /\ Cursors \in [Iter -> Cursor]
    BY InvFacts
  <2>3. Cursors' = Cursors
    BY <2>1, <2>2 DEF Rewound
  <2> QED
    BY <1>0, <1>1, <2>1, <2>3 DEF Abstract!OpenIter
<1>2. ASSUME open = Iter, ret' = Null, UNCHANGED <<mem, open, due>>
      PROVE  ListInv' /\ Abstract!OpenIter
  <2>1. Chain' = Chain /\ Cursors' = Cursors /\ Items' = Items
    BY <1>2 DEF Chain, Cursors, Items
  <2>2. ListInv'
    BY <1>0, <1>2, <2>1 DEF ListInv
  <2> QED
    BY <1>0, <1>2, <2>1, <2>2 DEF Abstract!OpenIter
<1> QED
  BY <1>1, <1>2 DEF ListIteratorCreate

LEMMA IteratorResetStep ==
  ASSUME ListInv, NEW i \in Iter, ListIteratorReset(i)
  PROVE  ListInv' /\ Abstract!ResetIter
<1>0. /\ live /\ live' = live /\ free' = free /\ i \in open /\ open' = open /\ ret' = ret
      /\ mem' = Rewind(mem, {i}) /\ due' = Restarted({i})
  BY DEF ListIteratorReset
<1>1. /\ ListInv' /\ Items' = Items
      /\ Cursors' = Rewound(Cursors, {i})
  <2>1. open' = open \cup {i}
    BY <1>0
  <2> QED
    BY <1>0, <2>1, RewindStep
<1>2. Cursors' = [Cursors EXCEPT ![i] = Start]
  BY <1>1, InvFacts DEF Rewound
<1> QED
  BY <1>0, <1>1, <1>2, StartIs DEF Abstract!ResetIter

LEMMA IteratorDestroyStep ==
  ASSUME ListInv, NEW i \in Iter, ListIteratorDestroy(i)
  PROVE  ListInv' /\ Abstract!CloseIter
<1>0. /\ live /\ live' = live /\ free' = free /\ i \in open /\ open' = open \ {i} /\ ret' = ret
      /\ mem' = [mem EXCEPT !.pos[i] = Null, !.prev[i] = ListHead] /\ due' = [due EXCEPT ![i] = {}]
  BY DEF ListIteratorDestroy
<1> DEFINE s == Chain
           cur2 == [Cursors EXCEPT ![i] = Start]
<1>1. /\ mem \in Memory /\ open \subseteq Iter
      /\ s \in Seq(Node) /\ Cursors \in [Iter -> Cursor]
      /\ (\A j \in Iter \ open : Cursors[j] = Start)
      /\ free = Node \ Range(s) /\ Range(s) \subseteq Node /\ Ahead(s, Cursors, open, due)
      /\ Links(mem.next, s) /\ mem.count = Len(s) /\ mem.tail = AddrAt(s, Len(s))
      /\ \A j \in open : AtCursor(mem, s, Cursors[j].next, Cursors[j].cur, j)
  BY InvFacts
<1>2. due \in [Iter -> SUBSET Node] /\ \A p \in Range(s) : mem.data[p] \in Item
  BY DEF ListInv
<1>3. /\ mem' \in Memory /\ (mem').data = mem.data /\ (mem').next = mem.next
      /\ (mem').count = mem.count /\ (mem').tail = mem.tail
      /\ \A j \in Iter : j # i => (mem').pos[j] = mem.pos[j] /\ (mem').prev[j] = mem.prev[j]
  BY <1>0, <1>1 DEF Memory, Addr
<1>4. cur2 \in [Iter -> Cursor] /\ \A j \in Iter \ open' : cur2[j] = Start
  BY <1>0, <1>1, StartIs
<1>5. ASSUME NEW j \in open' PROVE AtCursor(mem', s, cur2[j].next, cur2[j].cur, j)
  <2>1. j \in open /\ j # i /\ j \in Iter /\ cur2[j] = Cursors[j]
    BY <1>0, <1>1
  <2> QED
    BY <1>1, <1>3, <2>1 DEF AtCursor
<1>6. Holds(mem', s, cur2, open')
  BY <1>1, <1>3, <1>5, HoldsParts
<1>7. due' \in [Iter -> SUBSET Node] /\ open' \subseteq Iter
  BY <1>0, <1>1, <1>2
<1>8. Ahead(s, cur2, open', due')
  <2>1. \A j \in open' : j \in open /\ due'[j] = due[j] /\ cur2[j] = Cursors[j]
    BY <1>0, <1>1, <1>2
  <2> QED
    BY <1>1, <2>1 DEF Ahead
<1>9. ListInv' /\ Chain' = s /\ Cursors' = cur2
  BY <1>0, <1>1, <1>2, <1>3, <1>4, <1>6, <1>7, <1>8, InvStep
<1>10. Items' = Items
  BY <1>3, <1>9 DEF Items
<1> QED
  BY <1>0, <1>9, <1>10, StartIs DEF Abstract!CloseIter

LEMMA NextStep ==
  ASSUME ListInv, NEW i \in Iter, ListNext(i)
  PROVE  ListInv' /\ Abstract!NextItem
<1> DEFINE s == Chain
           n == Cursors[i].next
           b == Cursors[i].cur
           p == mem.pos[i]
           q == mem.next[mem.prev[i]]
           cur2 == [Cursors EXCEPT ![i] = IF n <= Len(s) THEN [next |-> n + 1, cur |-> TRUE]
                                          ELSE [next |-> n, cur |-> FALSE]]
<1>0. /\ live /\ live' = live /\ free' = free /\ i \in open /\ open' = open
      /\ mem' = [mem EXCEPT !.pos[i] = IF p = Null THEN Null ELSE mem.next[p],
                            !.prev[i] = IF mem.next[@] # p THEN mem.next[@] ELSE @]
      /\ ret' = DataOf(p) /\ due' = [due EXCEPT ![i] = @ \ {p}]
  BY DEF ListNext
<1>1. /\ mem \in Memory /\ open \subseteq Iter
      /\ s \in Seq(Node) /\ IsInjective(s) /\ Len(s) \in Nat /\ Cursors \in [Iter -> Cursor]
      /\ (\A j \in Iter \ open : Cursors[j] = Start)
      /\ free = Node \ Range(s) /\ Range(s) \subseteq Node /\ Ahead(s, Cursors, open, due)
      /\ Links(mem.next, s) /\ mem.count = Len(s) /\ mem.tail = AddrAt(s, Len(s))
      /\ \A j \in open : AtCursor(mem, s, Cursors[j].next, Cursors[j].cur, j)
  BY InvFacts
<1>2. due \in [Iter -> SUBSET Node] /\ \A r \in Range(s) : mem.data[r] \in Item
  BY DEF ListInv
<1>3. /\ n \in 1 .. Len(s) + 1 /\ b \in BOOLEAN /\ (b => n > 1)
      /\ mem.prev[i] = AddrAt(s, n - (IF b THEN 2 ELSE 1)) /\ p = NodeAt(s, n)
  BY <1>0, <1>1 DEF AtCursor, Cursor
<1> HIDE DEF n, b
\* prev moves past the node returned last, if there is one.
<1>4. (IF q # p THEN q ELSE mem.prev[i]) = AddrAt(s, n - 1)
  <2>1. CASE b
    <3>1. n > 1 /\ mem.prev[i] = AddrAt(s, n - 2) /\ n - 2 \in 0 .. Len(s) /\ (n - 2) + 1 = n - 1
      BY <1>1, <1>3, <2>1
    <3>2. q = NodeAt(s, n - 1)
      BY <1>1, <3>1 DEF Links
    <3>3. n - 1 \in 1 .. Len(s) /\ n - 1 \in 1 .. Len(s) + 1
      BY <1>1, <1>3, <3>1
    <3>4. NodeAt(s, n - 1) = AddrAt(s, n - 1) /\ NodeAt(s, n - 1) # NodeAt(s, n)
      BY <1>1, <1>3, <3>3, Places
    <3> QED
      BY <1>3, <3>2, <3>4
  <2>2. CASE ~b
    <3>1. mem.prev[i] = AddrAt(s, n - 1) /\ n - 1 \in 0 .. Len(s) /\ (n - 1) + 1 = n
      BY <1>1, <1>3, <2>2
    <3>2. q = NodeAt(s, n)
      BY <1>1, <3>1 DEF Links
    <3> QED
      BY <1>3, <3>1, <3>2
  <2> QED
    BY <2>1, <2>2
<1>5. /\ n <= Len(s) => p # Null /\ p = s[n] /\ mem.next[p] = NodeAt(s, n + 1)
      /\ n > Len(s) => p = Null /\ n = Len(s) + 1
  <2>1. CASE n <= Len(s)
    <3>1. n \in 1 .. Len(s) /\ n \in 0 .. Len(s)
      BY <1>1, <1>3, <2>1
    <3>2. p = s[n] /\ p = AddrAt(s, n) /\ p # Null
      BY <1>1, <1>3, <3>1, Places, ListAssumption
    <3> QED
      BY <1>1, <2>1, <3>1, <3>2 DEF Links
  <2>2. CASE n > Len(s)
    BY <1>1, <1>3, <2>2, Places
  <2> QED
    BY <1>1, <1>3, <2>1, <2>2
<1>6. /\ mem' = [mem EXCEPT !.pos = [mem.pos EXCEPT ![i] = IF p = Null THEN Null ELSE mem.next[p]],
                            !.prev = [mem.prev EXCEPT ![i] = AddrAt(s, n - 1)]]
  BY <1>0, <1>1, <1>4 DEF Memory
<1>7. /\ AddrAt(s, n - 1) \in Addr
      /\ (IF p = Null THEN Null ELSE mem.next[p]) \in Node \cup {Null}
  <2>1. n - 1 \in 0 .. Len(s)
    BY <1>1, <1>3
  <2>2. AddrAt(s, n - 1) \in Addr
    BY <1>1, <2>1, Places
  <2>3. p \in Node \cup {Null}
    BY <1>0, <1>1 DEF Memory
  <2> QED
    BY <1>1, <2>2, <2>3 DEF Memory, Addr
<1> HIDE DEF p, q, s
<1>8. /\ mem' \in Memory /\ (mem').data = mem.data /\ (mem').next = mem.next
      /\ (mem').count = mem.count /\ (mem').tail = mem.tail
      /\ (mem').pos[i] = (IF p = Null THEN Null ELSE mem.next[p]) /\ (mem').prev[i] = AddrAt(s, n - 1)
      /\ \A j \in Iter : j # i => (mem').pos[j] = mem.pos[j] /\ (mem').prev[j] = mem.prev[j]
  BY <1>1, <1>6, <1>7 DEF Memory
<1>9. cur2 \in [Iter -> Cursor] /\ (\A j \in Iter \ open' : cur2[j] = Start) /\ n \in Nat
  BY <1>0, <1>1, <1>3 DEF Cursor
<1>10. \A j \in Iter : j # i => cur2[j] = Cursors[j]
  BY <1>1
<1>11. /\ cur2[i].next = IF n <= Len(s) THEN n + 1 ELSE n
       /\ cur2[i].cur = IF n <= Len(s) THEN TRUE ELSE FALSE
  <2>1. cur2[i] = IF n <= Len(s) THEN [next |-> n + 1, cur |-> TRUE] ELSE [next |-> n, cur |-> FALSE]
    BY <1>1
  <2> HIDE DEF cur2
  <2>2. CASE n <= Len(s)
    <3>1. cur2[i] = [next |-> n + 1, cur |-> TRUE]
      BY <2>1, <2>2
    <3> QED
      BY <2>2, <3>1
  <2>3. CASE ~(n <= Len(s))
    <3>1. cur2[i] = [next |-> n, cur |-> FALSE]
      BY <2>1, <2>3
    <3> QED
      BY <2>3, <3>1
  <2> QED
    BY <2>2, <2>3
<1> HIDE DEF cur2
<1>12. ASSUME NEW j \in open' PROVE AtCursor(mem', s, cur2[j].next, cur2[j].cur, j)
  <2>1. CASE j # i
    BY <1>0, <1>1, <1>8, <1>10, <2>1 DEF AtCursor
  <2>2. CASE j = i /\ n <= Len(s)
    <3>1. n + 1 \in 1 .. Len(s) + 1 /\ n + 1 > 1 /\ (n + 1) - 2 = n - 1
      BY <1>1, <1>3, <2>2
    <3>2. cur2[i].next = n + 1 /\ cur2[i].cur = TRUE /\ (mem').pos[i] = NodeAt(s, n + 1)
      BY <1>5, <1>8, <1>11, <2>2
    <3> QED
      BY <1>8, <2>2, <3>1, <3>2 DEF AtCursor
  <2>3. CASE j = i /\ ~(n <= Len(s))
    <3>1. cur2[i].next = n /\ cur2[i].cur = FALSE /\ (mem').pos[i] = NodeAt(s, n)
      BY <1>1, <1>3, <1>5, <1>8, <1>11, <2>3
    <3> QED
      BY <1>3, <1>8, <2>3, <3>1 DEF AtCursor
  <2> QED
    BY <2>1, <2>2, <2>3
<1>13. Holds(mem', s, cur2, open')
  BY <1>1, <1>8, <1>12, HoldsParts
<1>14. due' \in [Iter -> SUBSET Node] /\ open' \subseteq Iter
  BY <1>0, <1>1, <1>2
<1>15. Ahead(s, cur2, open', due')
  <2> SUFFICES ASSUME NEW j \in open, NEW r \in due'[j]
               PROVE  \E k \in cur2[j].next .. Len(s) : s[k] = r
    BY <1>0 DEF Ahead
  <2>1. r \in due[j] /\ (j = i => r # p) /\ j \in Iter
    BY <1>0, <1>1, <1>2
  <2>2. PICK k \in Cursors[j].next .. Len(s) : s[k] = r
    BY <1>1, <2>1 DEF Ahead
  <2>3. CASE j # i
    BY <1>10, <2>1, <2>2, <2>3
  <2>4. CASE j = i
    <3>1. k \in n .. Len(s) /\ (k # n \/ ~(n <= Len(s)))
      BY <1>5, <2>1, <2>2, <2>4 DEF n
    <3> QED
      BY <1>1, <1>9, <1>11, <2>2, <2>4, <3>1
  <2> QED
    BY <2>3, <2>4
<1>16. ListInv' /\ Chain' = s /\ Cursors' = cur2
  BY <1>0, <1>1, <1>2, <1>8, <1>9, <1>13, <1>14, <1>15, InvStep
<1>17. Items' = Items /\ Len(Items) = Len(s) /\ \A k \in 1 .. Len(s) : Items[k] = mem.data[s[k]]
  <2>1. Items = Mapped(s, mem.data)
    BY ItemsAre DEF s
  <2>2. Items' = Mapped(s, mem.data)
    BY <1>1, <1>8, <1>16 DEF Items, Mapped
  <2> QED
    BY <1>1, <2>1, <2>2 DEF Mapped
<1>18. CASE n <= Len(s)
  <2>1. ret' = Items[n]
    BY <1>0, <1>1, <1>3, <1>5, <1>17, <1>18 DEF DataOf
  <2>2. Cursors' = [Cursors EXCEPT ![i] = [next |-> n + 1, cur |-> TRUE]]
    BY <1>16, <1>18 DEF cur2
  <2> QED
    BY <1>0, <1>16, <1>17, <1>18, <2>1, <2>2 DEF Abstract!NextItem, n
<1>19. CASE ~(n <= Len(s))
  <2>1. ret' = Null /\ n > Len(s)
    BY <1>0, <1>1, <1>3, <1>5, <1>19 DEF DataOf
  <2>2. Cursors' = [Cursors EXCEPT ![i] = [next |-> n, cur |-> FALSE]]
    BY <1>16, <1>19 DEF cur2
  <2> QED
    BY <1>0, <1>16, <1>17, <2>1, <2>2 DEF Abstract!NextItem, n
<1> QED
  BY <1>16, <1>18, <1>19

LEMMA ItemsFacts ==
  ASSUME ListInv
  PROVE  /\ Len(Items) = Len(Chain) /\ DOMAIN Items = 1 .. Len(Chain) /\ Items \in Seq(Item)
         /\ \A k \in 1 .. Len(Chain) : Items[k] = mem.data[Chain[k]] /\ Items[k] \in Item
         /\ Items = << >> <=> Len(Chain) = 0
<1>1. Items = Mapped(Chain, mem.data)
  BY ItemsAre
<1>2. Len(Chain) \in Nat /\ \A k \in 1 .. Len(Chain) : mem.data[Chain[k]] \in Item
  BY InvFacts
<1> QED
  BY <1>1, <1>2 DEF Mapped

LEMMA PrependStep ==
  ASSUME ListInv, NEW x \in Item, ListPrepend(x)
  PROVE  ListInv' /\ Abstract!Prepend
<1>1. live /\ InsertAtAddr(ListHead, x)
  BY DEF ListPrepend
<1>2. 1 \in 1 .. Len(Chain) + 1 /\ AddrAt(Chain, 1 - 1) = ListHead
  BY InvFacts DEF AddrAt
<1>3. ListInv' /\ Abstract!Insert(1, x)
  BY <1>1, <1>2, InsertStep
<1> QED
  BY <1>3 DEF Abstract!Prepend

LEMMA AppendStep ==
  ASSUME ListInv, NEW x \in Item, ListAppend(x)
  PROVE  ListInv' /\ Abstract!Add
<1> DEFINE k == Len(Chain) + 1
<1>1. live /\ InsertAtAddr(mem.tail, x)
  BY DEF ListAppend
<1>2. k \in 1 .. Len(Chain) + 1 /\ AddrAt(Chain, k - 1) = mem.tail
  <2>1. Len(Chain) \in Nat /\ mem.tail = AddrAt(Chain, Len(Chain))
    BY InvFacts
  <2>2. k - 1 = Len(Chain)
    BY <2>1
  <2> QED
    BY <2>1, <2>2
<1>3. Len(Items) + 1 = k
  BY ItemsFacts
<1> HIDE DEF k
<1>4. ListInv' /\ Abstract!Insert(k, x)
  BY <1>1, <1>2, InsertStep
<1> QED
  BY <1>3, <1>4 DEF Abstract!Add

LEMMA PopStep ==
  ASSUME ListInv, ListPop
  PROVE  ListInv' /\ Abstract!Pop
<1>1. live /\ RemoveAtAddr(ListHead)
  BY DEF ListPop
<1>2. /\ Len(Chain) \in Nat /\ AddrAt(Chain, 0) = ListHead
      /\ mem.next[ListHead] = NodeAt(Chain, 1)
  <2>1. Len(Chain) \in Nat /\ Links(mem.next, Chain)
    BY InvFacts
  <2>2. mem.next[AddrAt(Chain, 0)] = NodeAt(Chain, 0 + 1)
    BY <2>1 DEF Links
  <2> QED
    BY <2>1, <2>2 DEF AddrAt
<1>3. CASE Len(Chain) = 0
  <2>1. mem.next[ListHead] = Null
    BY <1>2, <1>3 DEF NodeAt
  <2>2. due \in [Iter -> SUBSET Node] /\ Null \notin Node
    BY ListAssumption DEF ListInv
  <2>3. due' = due
    <3>1. due' = [i \in Iter |-> due[i] \ {Null}]
      BY <1>1, <2>1 DEF RemoveAtAddr
    <3> QED
      BY <2>2, <3>1
  <2>4. mem' = mem /\ free' = free /\ ret' = Null /\ live' = live /\ open' = open
    BY <1>1, <2>1 DEF RemoveAtAddr, NodeDestroy, DataOf
  <2>5. Chain' = Chain /\ Cursors' = Cursors /\ Items' = Items
    BY <2>4 DEF Chain, Cursors, Items
  <2>6. ListInv'
    BY <2>3, <2>4, <2>5 DEF ListInv
  <2> QED
    BY <1>1, <1>3, <2>4, <2>5, <2>6, ItemsFacts DEF Abstract!Pop
<1>4. CASE Len(Chain) # 0
  <2>1. 1 \in 1 .. Len(Chain) /\ AddrAt(Chain, 1 - 1) = ListHead
    BY <1>2, <1>4
  <2>2. ListInv' /\ Abstract!RemoveItem(1) /\ UNCHANGED <<live, open>>
    BY <1>1, <2>1, RemoveStep
  <2> QED
    BY <1>1, <1>4, <2>2, ItemsFacts DEF Abstract!Pop
<1> QED
  BY <1>3, <1>4

LEMMA InsertHereStep ==
  ASSUME ListInv, NEW i \in Iter, NEW x \in Item, ListInsert(i, x)
  PROVE  ListInv' /\ Abstract!InsertHere
<1> DEFINE n == Cursors[i].next
           k == IF Cursors[i].cur THEN n - 1 ELSE n
<1>1. live /\ i \in open /\ InsertAtAddr(mem.prev[i], x)
  BY DEF ListInsert
<1>2. /\ n \in 1 .. Len(Chain) + 1 /\ (Cursors[i].cur => n > 1) /\ Len(Chain) \in Nat
      /\ mem.prev[i] = AddrAt(Chain, n - (IF Cursors[i].cur THEN 2 ELSE 1))
  BY <1>1, InvFacts DEF AtCursor
<1>3. k \in 1 .. Len(Chain) + 1 /\ AddrAt(Chain, k - 1) = mem.prev[i]
  <2>1. CASE Cursors[i].cur
    <3>1. k = n - 1 /\ k - 1 = n - 2
      BY <1>2, <2>1
    <3> QED
      BY <1>2, <2>1, <3>1
  <2>2. CASE ~Cursors[i].cur
    BY <1>2, <2>2
  <2> QED
    BY <2>1, <2>2
<1>4. Abstract!Insert(k, x) => Abstract!InsertHere
  BY <1>1 DEF Abstract!InsertHere
<1> HIDE DEF k
<1>5. ListInv' /\ Abstract!Insert(k, x)
  BY <1>1, <1>3, InsertStep
<1> QED
  BY <1>4, <1>5

LEMMA RemoveHereStep ==
  ASSUME ListInv, NEW i \in Iter, ListRemove(i)
  PROVE  ListInv' /\ Abstract!RemoveHere
<1> DEFINE n == Cursors[i].next
           k == n - 1
<1>1. live /\ i \in open
  BY DEF ListRemove
<1>2. /\ n \in 1 .. Len(Chain) + 1 /\ (Cursors[i].cur => n > 1) /\ Len(Chain) \in Nat
      /\ mem.prev[i] = AddrAt(Chain, n - (IF Cursors[i].cur THEN 2 ELSE 1))
  BY <1>1, InvFacts DEF AtCursor
<1>3. Cursors[i].cur <=> mem.next[mem.prev[i]] # mem.pos[i]
  BY <1>1 DEF Cursors, CursorsOf
<1>4. CASE mem.next[mem.prev[i]] # mem.pos[i]
  <2>1. RemoveAtAddr(mem.prev[i]) /\ Cursors[i].cur
    BY <1>3, <1>4 DEF ListRemove
  <2>2. k \in 1 .. Len(Chain) /\ k - 1 = n - 2
    BY <1>2, <2>1
  <2>3. mem.prev[i] = AddrAt(Chain, k - 1)
    BY <1>2, <2>1, <2>2
  <2>4. Abstract!RemoveItem(k) /\ UNCHANGED <<live, open>> => Abstract!RemoveHere
    BY <1>1, <2>1 DEF Abstract!RemoveHere
  <2> HIDE DEF k
  <2>5. ListInv' /\ Abstract!RemoveItem(k) /\ UNCHANGED <<live, open>>
    BY <1>1, <2>1, <2>2, <2>3, RemoveStep
  <2> QED
    BY <2>4, <2>5
<1>5. CASE mem.next[mem.prev[i]] = mem.pos[i]
  <2>1. ret' = Null /\ UNCHANGED <<live, mem, free, open, due>>
    BY <1>5 DEF ListRemove
  <2>2. Chain' = Chain /\ Cursors' = Cursors /\ Items' = Items
    BY <2>1 DEF Chain, Cursors, Items
  <2>3. ListInv'
    BY <2>1, <2>2 DEF ListInv
  <2> QED
    BY <1>1, <1>3, <1>5, <2>1, <2>2, <2>3 DEF Abstract!RemoveHere
<1> QED
  BY <1>4, <1>5

LEMMA LookStep ==
  ASSUME ListInv, Look
  PROVE  ListInv' /\ Abstract!Look
<1>1. live /\ UNCHANGED <<live, mem, free, open, due>>
  BY DEF Look
<1>2. Chain' = Chain /\ Cursors' = Cursors /\ Items' = Items
  BY <1>1 DEF Chain, Cursors, Items
<1>3. ListInv'
  BY <1>1, <1>2 DEF ListInv
<1>4. /\ Len(Chain) \in Nat /\ mem.count = Len(Chain)
      /\ mem.next[ListHead] = NodeAt(Chain, 1)
  <2>1. Len(Chain) \in Nat /\ Links(mem.next, Chain)
    BY InvFacts
  <2>2. mem.next[AddrAt(Chain, 0)] = NodeAt(Chain, 0 + 1)
    BY <2>1 DEF Links
  <2> QED
    BY <2>1, <2>2, InvFacts DEF AddrAt
<1>6. CASE ListPeek
  <2>1. ret' = IF Items = << >> THEN Null ELSE Items[1]
    <3>1. CASE Len(Chain) = 0
      BY <1>4, <1>6, <3>1, ItemsFacts DEF ListPeek, DataOf, NodeAt
    <3>2. CASE Len(Chain) # 0
      <4>1. 1 \in 1 .. Len(Chain) /\ Chain[1] # Null
        BY <1>4, <3>2, InvFacts, ListAssumption
      <4> QED
        BY <1>4, <1>6, <3>2, <4>1, ItemsFacts DEF ListPeek, DataOf, NodeAt
    <3> QED
      BY <3>1, <3>2
  <2> QED
    BY <1>1, <1>2, <1>3, <2>1 DEF Abstract!Look
<1>7. CASE ListCount
  BY <1>1, <1>2, <1>3, <1>4, <1>7, ItemsFacts DEF ListCount, Abstract!Look
<1>8. CASE ListIsEmpty
  BY <1>1, <1>2, <1>3, <1>4, <1>8, ItemsFacts DEF ListIsEmpty, Abstract!Look
<1>9. ASSUME NEW k \in Keys, ListFindFirst(k) \/ ListForEach(k) PROVE Abstract!Look
  <2> DEFINE n == SelectInSeq(Chain, LAMBDA p : Key[mem.data[p]] = k)
             a == Abstract!SelectInSeq(Items, LAMBDA x : Key[x] = k)
             I == {j \in 1 .. Len(Chain) : Key[mem.data[Chain[j]]] = k}
             J == {j \in 1 .. Len(Items) : Key[Items[j]] = k}
  <2>1. I = J
    BY ItemsFacts
  <2>2. n = IF I # {} THEN Min(I) ELSE 0
    BY DEF SelectInSeq
  <2>3. a = IF J # {} THEN Abstract!Min(J) ELSE 0
    BY DEF Abstract!SelectInSeq
  <2>4. /\ ListFindFirst(k) => ret' = IF n = 0 THEN Null ELSE mem.data[Chain[n]]
        /\ ListForEach(k) => ret' = IF n = 0 THEN Len(Chain) ELSE -n
    BY DEF ListFindFirst, ListForEach
  <2>5. k \in Abstract!Keys
    BY DEF Keys, Abstract!Keys
  <2>6. SUFFICES \/ ret' = IF a = 0 THEN Null ELSE Items[a]
                 \/ ret' = IF a = 0 THEN Len(Items) ELSE -a
    BY <1>1, <1>2, <2>5 DEF Abstract!Look
  <2>7. I \in SUBSET Nat /\ I \subseteq 1 .. Len(Chain)
    BY <1>4
  <2> HIDE DEF n, a, I, J
  <2>8. n = a
    BY <2>1, <2>2, <2>3 DEF Min, Abstract!Min
  <2>9. n \in 0 .. Len(Chain)
    <3>1. CASE I # {}
      <4>1. PICK j \in I : \A m \in I : j <= m
        BY <3>1, <2>7, Least
      <4>2. Min(I) = j
        BY <2>7, <4>1, MinIs
      <4> QED
        BY <1>4, <2>2, <2>7, <3>1, <4>1, <4>2
    <3> QED
      BY <1>4, <2>2, <3>1
  <2> QED
    BY <1>4, <1>9, <2>4, <2>8, <2>9, ItemsFacts
<1> QED
  BY <1>3, <1>6, <1>7, <1>8, <1>9 DEF Look

-----------------------------------------------------------------------------
(* list_delete_all: how far the nodes behind the deleted ones move up.     *)

\* How many elements of D are below x.
Gap(D, x) == Cardinality({d \in D : d < x})

UpTo(D, e) == \A d \in D : d \in Nat /\ 1 <= d /\ d <= e

LEMMA GapFacts ==
  ASSUME NEW e \in Nat, NEW D, UpTo(D, e)
  PROVE  /\ IsFiniteSet(D) /\ Cardinality(D) \in 0 .. e
         /\ \A x \in Nat : Gap(D, x) \in Nat
         /\ \A x \in Nat : x > e => Gap(D, x) = Cardinality(D)
         /\ \A x, y \in Nat : x <= y => Gap(D, x) <= Gap(D, y) /\ Gap(D, y) <= Gap(D, x) + (y - x)
         /\ \A x, y \in Nat : x < y /\ x \notin D => Gap(D, y) <= Gap(D, x) + (y - x) - 1
<1>0. \A d \in D : d \in Nat /\ 1 <= d /\ d <= e
  BY DEF UpTo
<1>1. IsFiniteSet(1 .. e) /\ Cardinality(1 .. e) = e
  BY Segment
<1>9. D \in SUBSET (1 .. e)
  BY <1>0
<1>2. /\ IsFiniteSet(D) /\ Cardinality(D) <= e
      /\ \A T \in SUBSET D : IsFiniteSet(T) /\ Cardinality(T) \in Nat
  BY <1>1, <1>9, FS_Subset, FS_CardinalityType
<1>3. \A x \in Nat : Gap(D, x) \in Nat
  BY <1>2 DEF Gap
<1>4. ASSUME NEW x \in Nat, x > e PROVE Gap(D, x) = Cardinality(D)
  <2>1. {d \in D : d < x} = D
    BY <1>0, <1>4
  <2> QED
    BY <2>1 DEF Gap
<1>5. ASSUME NEW x \in Nat, NEW y \in Nat, x <= y
      PROVE  /\ Gap(D, x) <= Gap(D, y) /\ Gap(D, y) <= Gap(D, x) + (y - x)
             /\ x < y /\ x \notin D => Gap(D, y) <= Gap(D, x) + (y - x) - 1
  <2> DEFINE A == {d \in D : d < x}
             B == {d \in D : x <= d /\ d < y}
             C == {d \in D : d < y}
  <2>1. C = A \cup B /\ A \cap B = {} /\ A \subseteq D /\ B \subseteq D
    BY <1>0, <1>5
  <2>2. B \subseteq x .. y - 1 /\ (x \notin D => B \subseteq x + 1 .. y - 1)
    <3>1. \A d \in B : d \in Nat /\ x <= d /\ d <= y - 1 /\ d \in D
      BY <1>0, <1>5
    <3>2. x \notin D => \A d \in B : x + 1 <= d
      BY <3>1, <1>5
    <3> HIDE DEF B
    <3> QED
      BY <1>5, <3>1, <3>2
  <2>3. Gap(D, x) = Cardinality(A) /\ Gap(D, y) = Cardinality(C)
    BY DEF Gap
  <2> HIDE DEF A, B, C
  <2>4. /\ IsFiniteSet(A) /\ IsFiniteSet(B) /\ Cardinality(A) \in Nat /\ Cardinality(B) \in Nat
    BY <1>2, <2>1
  <2>5. Cardinality(C) = Cardinality(A) + Cardinality(B)
    <3>1. Cardinality(A \cap B) = 0
      BY <2>1, FS_EmptySet
    <3> QED
      BY <2>1, <2>4, <3>1, FS_Union
  <2>6. Cardinality(B) <= y - x
    <3> DEFINE z == y - 1
    <3>2. z \in Int /\ x \in Int /\ (x > z => y - x = 0) /\ (x <= z => z - x + 1 = y - x)
      BY <1>5
    <3>3. IsFiniteSet(x .. z) /\ Cardinality(x .. z) = IF x > z THEN 0 ELSE z - x + 1
      BY <3>2, FS_Interval
    <3>1. IsFiniteSet(x .. y - 1) /\ Cardinality(x .. y - 1) = y - x
      BY <3>2, <3>3
    <3> QED
      BY <2>2, <3>1, FS_Subset
  <2>7. ASSUME x < y, x \notin D PROVE Cardinality(B) <= y - x - 1
    <3>1. IsFiniteSet(x + 1 .. y - 1) /\ Cardinality(x + 1 .. y - 1) = y - x - 1
      BY <2>7, FS_Interval
    <3> QED
      BY <2>2, <2>7, <3>1, FS_Subset
  <2> QED
    BY <2>3, <2>4, <2>5, <2>6, <2>7
<1>6. Cardinality(D) \in 0 .. e
  BY <1>2
<1>7. \A x \in Nat : x > e => Gap(D, x) = Cardinality(D)
  BY <1>4
<1>8. /\ \A x, y \in Nat : x <= y => Gap(D, x) <= Gap(D, y) /\ Gap(D, y) <= Gap(D, x) + (y - x)
      /\ \A x, y \in Nat : x < y /\ x \notin D => Gap(D, y) <= Gap(D, x) + (y - x) - 1
  BY <1>5
<1> QED
  BY <1>2, <1>3, <1>6, <1>7, <1>8

LEMMA GapAdd ==
  ASSUME NEW e \in Nat, NEW D, UpTo(D, e)
  PROVE  /\ UpTo(D \cup {e + 1}, e + 1)
         /\ Cardinality(D \cup {e + 1}) = Cardinality(D) + 1
         /\ \A x \in Nat : Gap(D \cup {e + 1}, x) = Gap(D, x) + (IF e + 1 < x THEN 1 ELSE 0)
<1>0. \A d \in D : d \in Nat /\ 1 <= d /\ d <= e
  BY DEF UpTo
<1>1. IsFiniteSet(D) /\ e + 1 \notin D
  BY <1>0, GapFacts
<1>2. Cardinality(D \cup {e + 1}) = Cardinality(D) + 1
  BY <1>1, FS_AddElement
<1>3. ASSUME NEW x \in Nat
      PROVE  Gap(D \cup {e + 1}, x) = Gap(D, x) + (IF e + 1 < x THEN 1 ELSE 0)
  <2>1. CASE e + 1 < x
    <3>1. {d \in D \cup {e + 1} : d < x} = {d \in D : d < x} \cup {e + 1}
      BY <2>1
    <3>2. IsFiniteSet({d \in D : d < x}) /\ e + 1 \notin {d \in D : d < x}
      BY <1>1, FS_Subset
    <3> QED
      BY <2>1, <3>1, <3>2, FS_AddElement DEF Gap
  <2>2. CASE ~(e + 1 < x)
    <3>1. {d \in D \cup {e + 1} : d < x} = {d \in D : d < x}
      BY <2>2, <1>0
    <3>2. Gap(D, x) \in Nat
      BY <1>1, GapFacts
    <3>3. Gap(D \cup {e + 1}, x) = Gap(D, x)
      BY <3>1 DEF Gap
    <3> QED
      BY <2>2, <3>2, <3>3
  <2> QED
    BY <2>1, <2>2
<1>4. UpTo(D \cup {e + 1}, e + 1)
  BY <1>0 DEF UpTo
<1> QED
  BY <1>2, <1>3, <1>4

\* s is what is left of C without what is at the indices D.
LeftOf(s, C, D) ==
  /\ s \in Seq(Node) /\ Len(s) = Len(C) - Cardinality(D)
  /\ \A j \in 1 .. Len(C) :
       j \notin D => j - Gap(D, j) \in 1 .. Len(s) /\ s[j - Gap(D, j)] = C[j]

\* The cursors cur without what is at D.
CutNext(c, D) == c.next - Gap(D, c.next)
CutKnows(c, D) == c.cur /\ D \cap {c.next - 1, c.next} = {}

CutCursors(cur, D) ==
  [i \in Iter |-> IF i \in open
                  THEN [next |-> CutNext(cur[i], D), cur |-> CutKnows(cur[i], D)]
                  ELSE cur[i]]

LEMMA LeftNone ==
  ASSUME NEW C \in Seq(Node), NEW cur \in [Iter -> Cursor]
  PROVE  LeftOf(C, C, {}) /\ CutCursors(cur, {}) = cur
<1>1. Cardinality({}) = 0 /\ \A j : Gap({}, j) = 0
  <2>1. Cardinality({}) = 0
    BY FS_EmptySet
  <2>2. \A j : {d \in {} : d < j} = {}
    OBVIOUS
  <2> QED
    BY <2>1, <2>2 DEF Gap
<1>2. Len(C) \in Nat
  OBVIOUS
<1>3. LeftOf(C, C, {})
  BY <1>1, <1>2 DEF LeftOf
<1>4. ASSUME NEW i \in Iter PROVE CutCursors(cur, {})[i] = cur[i]
  <2>1. cur[i] = [next |-> cur[i].next, cur |-> cur[i].cur] /\ cur[i].next \in Nat /\ cur[i].cur \in BOOLEAN
    BY DEF Cursor
  <2>2. CutNext(cur[i], {}) = cur[i].next
    BY <1>1, <2>1 DEF CutNext
  <2>3. CutKnows(cur[i], {}) = cur[i].cur
    BY <2>1 DEF CutKnows
  <2> QED
    BY <2>1, <2>2, <2>3 DEF CutCursors
<1> QED
  BY <1>3, <1>4 DEF CutCursors

LEMMA LeftMore ==
  ASSUME NEW C \in Seq(Node), NEW e \in Nat, e < Len(C), NEW D, UpTo(D, e), NEW s, LeftOf(s, C, D),
         NEW q, q = (e + 1) - Cardinality(D)
  PROVE  /\ q \in 1 .. Len(s) /\ s[q] = C[e + 1]
         /\ LeftOf(RemoveAt(s, q), C, D \cup {e + 1})
<1> DEFINE E == D \cup {e + 1}
           t == RemoveAt(s, q)
           N == Cardinality(D)
<1>1. /\ N \in 0 .. e /\ Len(C) \in Nat /\ e + 1 \in 1 .. Len(C) /\ e + 1 \notin D
      /\ s \in Seq(Node) /\ Len(s) = Len(C) - N
      /\ \A j \in 1 .. Len(C) :
           j \notin D => j - Gap(D, j) \in 1 .. Len(s) /\ s[j - Gap(D, j)] = C[j]
  <2>1. N \in 0 .. e
    BY GapFacts
  <2>2. e + 1 \notin D
    BY DEF UpTo
  <2> QED
    BY <2>1, <2>2 DEF LeftOf
<1>2. /\ \A x \in Nat : Gap(D, x) \in Nat
      /\ \A x \in Nat : x > e => Gap(D, x) = N
      /\ \A x, y \in Nat : x < y /\ x \notin D => Gap(D, y) <= Gap(D, x) + (y - x) - 1
  BY GapFacts
<1>3. Cardinality(E) = N + 1 /\ \A x \in Nat : Gap(E, x) = Gap(D, x) + (IF e + 1 < x THEN 1 ELSE 0)
  BY GapAdd
<1>4. q = (e + 1) - N /\ q \in 1 .. Len(s) /\ s[q] = C[e + 1]
  <2>1. e + 1 \in Nat /\ e + 1 > e
    OBVIOUS
  <2>2. Gap(D, e + 1) = N
    BY <1>2, <2>1
  <2>3. q = (e + 1) - N
    OBVIOUS
  <2>4. (e + 1) - Gap(D, e + 1) \in 1 .. Len(s) /\ s[(e + 1) - Gap(D, e + 1)] = C[e + 1]
    BY <1>1
  <2> QED
    BY <2>2, <2>3, <2>4
<1>5. /\ t \in Seq(Node) /\ Len(t) = Len(s) - 1
      /\ \A n \in 1 .. Len(s) - 1 : t[n] = IF n < q THEN s[n] ELSE s[n + 1]
  BY <1>1, <1>4, RemoveAtFacts
<1>8. \A j : j \notin E <=> j \notin D /\ j # e + 1
  OBVIOUS
<1> HIDE DEF t, N, E
<1>6. ASSUME NEW j \in 1 .. Len(C), j \notin E
      PROVE  j - Gap(E, j) \in 1 .. Len(t) /\ t[j - Gap(E, j)] = C[j]
  <2> DEFINE n == j - Gap(D, j)
  <2>1. j \notin D /\ j # e + 1 /\ j \in Nat /\ n \in 1 .. Len(s) /\ s[n] = C[j] /\ Len(s) \in Nat
    BY <1>1, <1>6, <1>8
  <2>2. CASE j <= e
    <3>0. e + 1 \in Nat /\ j < e + 1 /\ Gap(D, e + 1) = N /\ Gap(D, j) \in Nat
      BY <1>2, <2>1, <2>2
    <3>1. N <= Gap(D, j) + (e + 1 - j) - 1
      BY <1>2, <2>1, <3>0
    <3>2. n < q
      BY <1>1, <1>4, <2>1, <3>0, <3>1, SMTT(40)
    <3>3. j - Gap(E, j) = n
      BY <1>2, <1>3, <2>1, <2>2
    <3> HIDE DEF n
    <3>4. n \in 1 .. Len(s) - 1
      BY <1>4, <2>1, <3>2
    <3> QED
      BY <1>5, <2>1, <3>2, <3>3, <3>4
  <2>3. CASE j > e
    <3>0. Gap(D, j) = N /\ e + 1 < j
      BY <1>2, <2>1, <2>3
    <3>5. Gap(E, j) = N + 1
      BY <1>3, <2>1, <3>0
    <3>1. n = j - N /\ j - Gap(E, j) = n - 1 /\ j >= e + 2
      BY <1>1, <2>1, <3>0, <3>5
    <3>2. n - 1 >= q
      BY <1>1, <1>4, <3>1, <2>1
    <3> HIDE DEF n
    <3>3. n \in Nat /\ q \in Nat
      BY <1>4, <2>1
    <3>4. n - 1 \in 1 .. Len(s) - 1 /\ ~(n - 1 < q) /\ (n - 1) + 1 = n
      BY <1>4, <2>1, <3>2, <3>3
    <3> QED
      BY <1>5, <2>1, <3>1, <3>4
  <2> QED
    BY <2>1, <2>2, <2>3
<1>7. Len(t) = Len(C) - Cardinality(E)
  BY <1>1, <1>3, <1>5
<1> QED
  BY <1>4, <1>5, <1>6, <1>7 DEF LeftOf, t, E

LEMMA CutOne ==
  ASSUME NEW c \in Cursor, c.next > 0,
         NEW e \in Nat, NEW D, UpTo(D, e), NEW q, q = (e + 1) - Cardinality(D)
  PROVE  /\ CutNext(c, D) \in Nat /\ CutNext(c, D) > 0 /\ CutKnows(c, D) \in BOOLEAN
         /\ Sooner(CutNext(c, D), q) = CutNext(c, D \cup {e + 1})
         /\ Knows(CutNext(c, D), CutKnows(c, D), q) = CutKnows(c, D \cup {e + 1})
<1> DEFINE E == D \cup {e + 1}
           N == Cardinality(D)
           x == c.next
           n == CutNext(c, D)
<1>1. /\ N \in 0 .. e
      /\ \A y \in Nat : Gap(D, y) \in Nat
      /\ \A y \in Nat : y > e => Gap(D, y) = N
      /\ \A y, z \in Nat : y <= z => Gap(D, y) <= Gap(D, z) /\ Gap(D, z) <= Gap(D, y) + (z - y)
      /\ \A y, z \in Nat : y < z /\ y \notin D => Gap(D, z) <= Gap(D, y) + (z - y) - 1
  BY GapFacts
<1>2. \A y \in Nat : Gap(E, y) = Gap(D, y) + (IF e + 1 < y THEN 1 ELSE 0)
  BY GapAdd
<1>3. Gap(D, 1) = 0
  <2>1. {d \in D : d < 1} = {}
    BY DEF UpTo
  <2> QED
    BY <2>1, FS_EmptySet DEF Gap
<1>4. x \in Nat /\ x > 0 /\ c.cur \in BOOLEAN
  BY DEF Cursor
<1>5. n = x - Gap(D, x) /\ CutNext(c, E) = x - Gap(E, x)
  BY DEF CutNext
<1>6. /\ CutKnows(c, D) \in BOOLEAN
      /\ CutKnows(c, D) <=> c.cur /\ D \cap {x - 1, x} = {}
      /\ CutKnows(c, E) \in BOOLEAN
      /\ CutKnows(c, E) <=> c.cur /\ E \cap {x - 1, x} = {}
  BY <1>4 DEF CutKnows
<1>7. E \cap {x - 1, x} = {} <=> D \cap {x - 1, x} = {} /\ e + 1 # x - 1 /\ e + 1 # x
  OBVIOUS
<1>8. D \cap {x - 1, x} = {} => x \notin D
  OBVIOUS
<1>9. q = (e + 1) - N /\ N \in Int
  <2>1. N \in Int
    BY <1>1
  <2> QED
    BY <2>1
<1> HIDE DEF N, E, x, n
<1>10. /\ Gap(D, e + 1) = N /\ Gap(D, x) \in Nat /\ e + 1 \in Nat
       /\ Gap(E, x) = Gap(D, x) + (IF e + 1 < x THEN 1 ELSE 0)
  <2>1. e + 1 \in Nat /\ e + 1 > e
    OBVIOUS
  <2>2. Gap(D, e + 1) = N
    BY <1>1, <2>1
  <2>3. Gap(D, x) \in Nat
    BY <1>1, <1>4
  <2> QED
    BY <1>2, <1>4, <2>1, <2>2, <2>3
<1>11. x > e => Gap(D, x) = N
  BY <1>1, <1>4
<1>12. x <= e + 1 => N <= Gap(D, x) + ((e + 1) - x)
  BY <1>1, <1>4, <1>10
<1>13. x < e + 1 /\ x \notin D => N <= Gap(D, x) + ((e + 1) - x) - 1
  BY <1>1, <1>4, <1>10
<1>14. n \in Nat /\ n > 0
  <2>1. Gap(D, x) <= Gap(D, 1) + (x - 1)
    BY <1>1, <1>4
  <2> QED
    BY <1>3, <1>4, <1>5, <1>10, <2>1
<1>15. q < n <=> e + 1 < x
  BY <1>4, <1>5, <1>9, <1>10, <1>11, <1>12
<1>16. Sooner(n, q) = x - Gap(E, x)
  <2>1. CASE e + 1 < x
    BY <1>4, <1>5, <1>10, <1>15, <2>1 DEF Sooner
  <2>2. CASE ~(e + 1 < x)
    BY <1>4, <1>5, <1>10, <1>15, <2>2 DEF Sooner
  <2> QED
    BY <2>1, <2>2
<1>17. x \notin D => ((q # n - 1 /\ q # n) <=> (e + 1 # x - 1 /\ e + 1 # x))
  <2>1. CASE x > e
    BY <1>4, <1>5, <1>9, <1>10, <1>11, <2>1
  <2>2. CASE x <= e
    BY <1>4, <1>5, <1>9, <1>10, <1>13, <2>2
  <2> QED
    BY <1>4, <2>1, <2>2
<1>18. Knows(n, CutKnows(c, D), q) <=> CutKnows(c, D) /\ q # n - 1 /\ q # n
  BY DEF Knows
<1>19. Knows(n, CutKnows(c, D), q) \in BOOLEAN
  BY <1>6 DEF Knows
<1>20. Knows(n, CutKnows(c, D), q) <=> CutKnows(c, E)
  BY <1>6, <1>7, <1>8, <1>17, <1>18
<1> QED
  BY <1>5, <1>6, <1>14, <1>16, <1>19, <1>20 DEF n, x, E

LEMMA CutMore ==
  ASSUME NEW cur \in [Iter -> Cursor], \A i \in open : cur[i].next > 0, open \subseteq Iter,
         NEW e \in Nat, NEW D, UpTo(D, e), NEW q, q = (e + 1) - Cardinality(D)
  PROVE  /\ CutCursors(cur, D) \in [Iter -> Cursor]
         /\ \A i \in open : CutCursors(cur, D)[i].next > 0
         /\ SoonerCursors(CutCursors(cur, D), q) = CutCursors(cur, D \cup {e + 1})
<1>1. ASSUME NEW i \in open
      PROVE  /\ CutNext(cur[i], D) \in Nat /\ CutNext(cur[i], D) > 0 /\ CutKnows(cur[i], D) \in BOOLEAN
             /\ Sooner(CutNext(cur[i], D), q) = CutNext(cur[i], D \cup {e + 1})
             /\ Knows(CutNext(cur[i], D), CutKnows(cur[i], D), q) = CutKnows(cur[i], D \cup {e + 1})
  BY CutOne, SMTT(40)
<1>2. ASSUME NEW i \in Iter
      PROVE  /\ CutCursors(cur, D)[i] \in Cursor
             /\ i \in open => CutCursors(cur, D)[i].next > 0
             /\ SoonerCursors(CutCursors(cur, D), q)[i] = CutCursors(cur, D \cup {e + 1})[i]
  <2>1. CASE i \in open
    <3>1. CutCursors(cur, D)[i] = [next |-> CutNext(cur[i], D), cur |-> CutKnows(cur[i], D)]
      BY <2>1 DEF CutCursors
    <3>2. SoonerCursors(CutCursors(cur, D), q)[i]
            = [next |-> Sooner(CutNext(cur[i], D), q),
               cur  |-> Knows(CutNext(cur[i], D), CutKnows(cur[i], D), q)]
      <4> HIDE DEF SoonerCursors
      <4>1. SoonerCursors(CutCursors(cur, D), q)[i]
              = [next |-> Sooner(CutCursors(cur, D)[i].next, q),
                 cur  |-> Knows(CutCursors(cur, D)[i].next, CutCursors(cur, D)[i].cur, q)]
        BY <2>1 DEF SoonerCursors
      <4> QED
        BY <3>1, <4>1
    <3>3. CutCursors(cur, D \cup {e + 1})[i]
            = [next |-> CutNext(cur[i], D \cup {e + 1}), cur |-> CutKnows(cur[i], D \cup {e + 1})]
      BY <2>1 DEF CutCursors
    <3>4. SoonerCursors(CutCursors(cur, D), q)[i] = CutCursors(cur, D \cup {e + 1})[i]
      BY <1>1, <2>1, <3>2, <3>3
    <3>5. CutCursors(cur, D)[i] \in Cursor /\ CutCursors(cur, D)[i].next > 0
      BY <1>1, <2>1, <3>1 DEF Cursor
    <3> QED
      BY <3>4, <3>5
  <2>2. CASE i \notin open
    BY <2>2 DEF CutCursors, SoonerCursors
  <2> QED
    BY <2>1, <2>2
<1> QED
  BY <1>2 DEF CutCursors, SoonerCursors

LEMMA CutIs ==
  ASSUME NEW D, Cursors \in [Iter -> Cursor]
  PROVE  Abstract!Removed(D) = CutCursors(Cursors, D)
<1>1. ASSUME NEW i \in Iter PROVE Abstract!Removed(D)[i] = CutCursors(Cursors, D)[i]
  <2> DEFINE c == Cursors[i]
  <2>1. Abstract!Removed(D)[i] =
          IF i \notin open THEN c
          ELSE [next |-> c.next - Cardinality({d \in D : d < c.next}),
                cur  |-> c.cur /\ D \cap {c.next - 1, c.next} = {}]
    BY SameCardinality DEF Abstract!Removed
  <2>2. CutCursors(Cursors, D)[i] =
          IF i \in open THEN [next |-> CutNext(c, D), cur |-> CutKnows(c, D)] ELSE c
    BY DEF CutCursors
  <2>3. CutNext(c, D) = c.next - Cardinality({d \in D : d < c.next})
    BY DEF CutNext, Gap
  <2>4. CutKnows(c, D) = (c.cur /\ D \cap {c.next - 1, c.next} = {})
    BY DEF CutKnows
  <2> QED
    BY <2>1, <2>2, <2>3, <2>4
<1> QED
  BY <1>1 DEF Abstract!Removed, CutCursors

\* How many of the first n numbers are not in D, and which comes n-th.
LEMMA LeftRank ==
  ASSUME NEW n \in Nat, NEW D, UpTo(D, n)
  PROVE  /\ IsFiniteSet((1 .. n) \ D) /\ Cardinality((1 .. n) \ D) = n - Cardinality(D)
         /\ \A j \in (1 .. n) \ D :
              Cardinality({k \in (1 .. n) \ D : k < j}) = (j - Gap(D, j)) - 1
         /\ \A r \in 1 .. n - Cardinality(D) : \E j \in (1 .. n) \ D : j - Gap(D, j) = r
         /\ \A i, j \in (1 .. n) \ D : i - Gap(D, i) = j - Gap(D, j) => i = j
<1> DEFINE K == (1 .. n) \ D
           R == {e \in K \X K : e[1] < e[2]}
<1>0. \A d \in D : d \in Nat /\ 1 <= d /\ d <= n
  BY DEF UpTo
<1>1. IsFiniteSet(D) /\ Cardinality(D) \in 0 .. n /\ \A x \in Nat : Gap(D, x) \in Nat
  BY GapFacts
<1>2. IsFiniteSet(1 .. n) /\ Cardinality(1 .. n) = n
  BY Segment
<1>3. IsFiniteSet(K) /\ Cardinality(K) = n - Cardinality(D)
  <2>1. D \subseteq 1 .. n /\ (1 .. n) \cap D = D
    BY <1>0
  <2>2. /\ IsFiniteSet((1 .. n) \ D)
        /\ Cardinality((1 .. n) \ D) = Cardinality(1 .. n) - Cardinality((1 .. n) \cap D)
    BY ONLY <1>1, <1>2, FS_Difference, Zenon
  <2> QED
    BY <1>2, <2>1, <2>2
<1>4. \A j \in K : j \in Nat /\ 1 <= j /\ j <= n /\ j \notin D
  OBVIOUS
<1>5. StrictOrder(K, R)
  <2>1. \A a, b \in K : <<a, b>> \in R <=> a < b
    OBVIOUS
  <2> HIDE DEF K, R
  <2> QED
    BY <1>4, <2>1 DEF StrictOrder
<1>6. ASSUME NEW j \in K
      PROVE  /\ Cardinality({k \in K : k < j}) = (j - Gap(D, j)) - 1
             /\ RankOf(K, R, j) = (j - Gap(D, j)) - 1
  <2> DEFINE A == {k \in K : k < j}
             B == {d \in D : d < j}
  <2>1. {y \in K : <<y, j>> \in R} = A
    OBVIOUS
  <2>2. A \cup B = 1 .. j - 1 /\ A \cap B = {}
    <3>1. \A k : k \in 1 .. j - 1 <=> k \in Nat /\ 1 <= k /\ k < j
      BY <1>4
    <3>2. \A k : k \in A \cup B <=> k \in Nat /\ 1 <= k /\ k < j
      BY <1>0, <1>4
    <3>3. A \cap B = {}
      BY <1>4
    <3> HIDE DEF A, B
    <3> QED
      BY <3>1, <3>2, <3>3
  <2>3. A \subseteq K /\ B \subseteq D
    OBVIOUS
  <2>4. RankOf(K, R, j) = Cardinality(A) /\ Gap(D, j) = Cardinality(B)
    BY <2>1 DEF RankOf, Gap
  <2> HIDE DEF A, B, K, R
  <2>5. IsFiniteSet(A) /\ IsFiniteSet(B) /\ Cardinality(A) \in Nat /\ Cardinality(B) \in Nat
    BY <1>1, <1>3, <2>3, FS_Subset, FS_CardinalityType
  <2>6. Cardinality(A \cap B) = 0
    BY <2>2, FS_EmptySet
  <2>7. Cardinality(1 .. j - 1) = j - 1
    <3>1. j - 1 \in Nat
      BY <1>4
    <3> QED
      BY <3>1, Segment
  <2>8. Cardinality(A) + Cardinality(B) = j - 1
    <3>1. Cardinality(A \cup B) = Cardinality(A) + Cardinality(B) - Cardinality(A \cap B)
      BY <2>5, FS_Union
    <3>2. Cardinality(A \cup B) = j - 1
      BY <2>2, <2>7
    <3> QED
      BY <2>5, <2>6, <3>1, <3>2
  <2>9. Cardinality(A) = (j - Gap(D, j)) - 1
    BY <1>4, <2>4, <2>5, <2>8
  <2> QED
    BY <2>4, <2>9 DEF A
<1> HIDE DEF K, R
<1>7. /\ \A x, y \in K : RankOf(K, R, x) = RankOf(K, R, y) => x = y
      /\ \A r \in 0 .. Cardinality(K) - 1 : \E x \in K : RankOf(K, R, x) = r
  BY <1>3, <1>5, RankBijection
<1>8. ASSUME NEW r \in 1 .. n - Cardinality(D) PROVE \E j \in K : j - Gap(D, j) = r
  <2>1. PICK j \in K : RankOf(K, R, j) = r - 1
    BY <1>1, <1>3, <1>7
  <2>2. RankOf(K, R, j) = (j - Gap(D, j)) - 1 /\ j \in Nat /\ Gap(D, j) \in Nat
    BY <1>1, <1>4, <1>6
  <2> QED
    BY <2>1, <2>2
<1>9. ASSUME NEW i \in K, NEW j \in K, i - Gap(D, i) = j - Gap(D, j) PROVE i = j
  <2>1. RankOf(K, R, j) = (j - Gap(D, j)) - 1 /\ RankOf(K, R, i) = (i - Gap(D, i)) - 1
    BY <1>6
  <2>2. RankOf(K, R, j) = RankOf(K, R, i)
    BY <1>9, <2>1
  <2> QED
    BY <1>7, <2>2
<1> QED
  BY <1>3, <1>6, <1>8, <1>9 DEF K

\* The states of the loop, before anything is known of them.
LoopState ==
  [m : [next : Pointers, data : [Node -> Item \cup {Null}], tail : Addr, count : Int,
        pos : [Iter -> Node \cup {Null}], prev : [Iter -> Addr]],
   pp : Addr, dead : SUBSET Node]

LEMMA DeleteStepTyped ==
  ASSUME mem \in Memory, NEW k, NEW st \in LoopState
  PROVE  DeleteStep(k, st) \in LoopState
<1> DEFINE m == st.m
           pp == st.pp
           p == m.next[pp]
           Gone(i) == i \in open /\ m.pos[i] = p
           d == NodeDestroy(m, pp)
<1>1. /\ st = [m |-> m, pp |-> pp, dead |-> st.dead]
      /\ m.next \in [Addr -> Node \cup {Null}] /\ m.data \in [Node -> Item \cup {Null}]
      /\ m.tail \in Addr /\ m.count \in Int /\ m.pos \in [Iter -> Node \cup {Null}]
      /\ m.prev \in [Iter -> Addr]
      /\ pp \in Addr /\ st.dead \in SUBSET Node
  BY DEF LoopState, Pointers
<1>2. p \in Node \cup {Null}
  BY <1>1
<1>3. CASE p = Null
  BY <1>3 DEF DeleteStep
<1>4. CASE p # Null
  <2>1. p \in Node /\ p \in Addr /\ m.next[p] \in Node \cup {Null}
    BY <1>1, <1>2, <1>4 DEF Addr
  <2>2. d = [next  |-> [m.next EXCEPT ![pp] = m.next[p], ![p] = Null],
             data  |-> [m.data EXCEPT ![p] = Null],
             tail  |-> IF m.next[p] = Null THEN pp ELSE m.tail,
             count |-> m.count - 1,
             pos   |-> [i \in Iter |-> IF Gone(i) THEN m.next[p] ELSE m.pos[i]],
             prev  |-> [i \in Iter |-> IF Gone(i) \/ (i \in open /\ m.prev[i] = p)
                                       THEN pp ELSE m.prev[i]]]
    BY <1>4 DEF NodeDestroy
  <2>3. /\ d.next = [m.next EXCEPT ![pp] = m.next[p], ![p] = Null]
        /\ [m.next EXCEPT ![pp] = m.next[p], ![p] = Null] \in Pointers
    BY <1>1, <2>1, <2>2 DEF Pointers
  <2>4. [m.data EXCEPT ![p] = Null] \in [Node -> Item \cup {Null}]
    BY <1>1, <2>1
  <2>5. (IF m.next[p] = Null THEN pp ELSE m.tail) \in Addr /\ m.count - 1 \in Int
    BY <1>1
  <2>6. [i \in Iter |-> IF Gone(i) THEN m.next[p] ELSE m.pos[i]] \in [Iter -> Node \cup {Null}]
    BY <1>1, <2>1
  <2>7. [i \in Iter |-> IF Gone(i) \/ (i \in open /\ m.prev[i] = p)
                        THEN pp ELSE m.prev[i]] \in [Iter -> Addr]
    BY <1>1
  <2>8. d \in [next : Pointers, data : [Node -> Item \cup {Null}], tail : Addr, count : Int,
               pos : [Iter -> Node \cup {Null}], prev : [Iter -> Addr]]
    <3> DEFINE x == [m.next EXCEPT ![pp] = m.next[p], ![p] = Null]
               y == [m.data EXCEPT ![p] = Null]
               z == IF m.next[p] = Null THEN pp ELSE m.tail
               u == [i \in Iter |-> IF Gone(i) THEN m.next[p] ELSE m.pos[i]]
               v == [i \in Iter |-> IF Gone(i) \/ (i \in open /\ m.prev[i] = p)
                                   THEN pp ELSE m.prev[i]]
               c == m.count - 1
    <3>1. d = [next |-> x, data |-> y, tail |-> z, count |-> c, pos |-> u, prev |-> v]
      BY ONLY <2>2
    <3>2. /\ x \in Pointers /\ y \in [Node -> Item \cup {Null}] /\ z \in Addr /\ c \in Int
          /\ u \in [Iter -> Node \cup {Null}] /\ v \in [Iter -> Addr]
      BY ONLY <2>3, <2>4, <2>5, <2>6, <2>7
    <3> HIDE DEF x, y, z, u, v, c, d
    <3> QED
      BY ONLY <3>1, <3>2
  <2>9. DeleteStep(k, st) = IF mem.data[p] # Null /\ Key[mem.data[p]] = k
                            THEN [m |-> d, pp |-> pp, dead |-> st.dead \cup {p}]
                            ELSE [m |-> m, pp |-> p, dead |-> st.dead]
    BY <1>4 DEF DeleteStep
  <2> HIDE DEF d, p, m, pp
  <2>12. m \in [next : Pointers, data : [Node -> Item \cup {Null}], tail : Addr, count : Int,
                pos : [Iter -> Node \cup {Null}], prev : [Iter -> Addr]]
    BY DEF LoopState, m
  <2> QED
    BY <1>1, <2>1, <2>8, <2>9, <2>12 DEF LoopState
<1> QED
  BY <1>3, <1>4

LEMMA DeleteLoopRounds ==
  ASSUME mem \in Memory, NEW k
  PROVE  \E h : /\ h[0] = [m |-> mem, pp |-> ListHead, dead |-> {}]
                /\ \A n \in 1 .. Cardinality(Node) : h[n] = DeleteStep(k, h[n - 1])
                /\ DeleteLoop(k) = h[Cardinality(Node)]
<1> DEFINE M == Cardinality(Node)
           x == [m |-> mem, pp |-> ListHead, dead |-> {}]
           f == [st \in LoopState |-> DeleteStep(k, st)]
           P(h) == h = [n \in 0 .. M |-> IF n = 0 THEN x ELSE DeleteStep(k, h[n - 1])]
<1>1. M \in Nat
  BY Sizes
<1>2. f \in [LoopState -> LoopState] /\ \A st \in LoopState : f[st] = DeleteStep(k, st)
  BY DeleteStepTyped
<1>3. x \in LoopState
  BY DEF LoopState, Memory, Pointers, Addr
<1> HIDE DEF f, M, x
<1>4. PICK g : Rounds(g, LoopState, f, x, M)
  BY <1>1, <1>2, <1>3, RoundsExist, Zenon
<1>5. P(g)
  <2>1. g \in [0 .. M -> LoopState] /\ g[0] = x
    BY <1>4 DEF Rounds
  <2>2. \A n \in 1 .. M : g[n] = DeleteStep(k, g[n - 1])
    BY <1>1, <1>2, <1>4, <2>1 DEF Rounds
  <2> QED
    BY <1>1, <2>1, <2>2
<1> DEFINE h == CHOOSE h : P(h)
<1>6. P(h)
  BY <1>5
<1>7. DeleteLoop(k) = h[M]
  BY DEF DeleteLoop, M, x
<1> HIDE DEF h
<1>8. h[0] = x /\ \A n \in 1 .. M : h[n] = DeleteStep(k, h[n - 1])
  BY <1>1, <1>6
<1> QED
  BY <1>7, <1>8 DEF M, x

\* The loop has looked at the first e nodes.
Dead(k, e) == {j \in 1 .. e : Key[mem.data[Chain[j]]] = k}

Deleting(k, st, e, s) ==
  LET D == Dead(k, e) IN
  /\ st.m \in Memory
  /\ Holds(st.m, s, CutCursors(Cursors, D), open)
  /\ LeftOf(s, Chain, D) /\ st.pp = AddrAt(s, e - Cardinality(D))
  /\ \A p : p \in st.dead <=> \E j \in D : Chain[j] = p
  /\ \A p \in Node : (st.m).data[p] = IF p \in st.dead THEN Null ELSE mem.data[p]

LEMMA DeleteRound ==
  ASSUME ListInv, NEW k, NEW st, NEW e \in Nat, e < Len(Chain), NEW s, Deleting(k, st, e, s)
  PROVE  \E t : Deleting(k, DeleteStep(k, st), e + 1, t)
<1> DEFINE D == Dead(k, e)
           m == st.m
           pp == st.pp
           q == (e + 1) - Cardinality(D)
           p == Chain[e + 1]
           matches == Key[mem.data[p]] = k
           cur == CutCursors(Cursors, D)
           st2 == DeleteStep(k, st)
<1>1. /\ open \subseteq Iter /\ Chain \in Seq(Node) /\ IsInjective(Chain) /\ Len(Chain) \in Nat
      /\ Cursors \in [Iter -> Cursor] /\ e + 1 \in 1 .. Len(Chain)
      /\ p \in Node /\ mem.data[p] \in Item /\ Null \notin Item
  BY InvFacts, ListAssumption
<1>2. \A i \in open : Cursors[i].next > 0
  BY InvFacts DEF AtCursor
<1>3. UpTo(D, e)
  BY DEF UpTo, Dead
<1>4. /\ m \in Memory /\ Holds(m, s, cur, open) /\ LeftOf(s, Chain, D)
      /\ pp = AddrAt(s, e - Cardinality(D))
      /\ \A x : x \in st.dead <=> \E j \in D : Chain[j] = x
      /\ \A x \in Node : m.data[x] = IF x \in st.dead THEN Null ELSE mem.data[x]
  BY DEF Deleting
<1>5. Cardinality(D) \in 0 .. e
  BY <1>3, GapFacts
<1>6. q \in 1 .. Len(s) /\ s[q] = p /\ LeftOf(RemoveAt(s, q), Chain, D \cup {e + 1})
  BY <1>1, <1>3, <1>4, LeftMore
<1>7. /\ cur \in [Iter -> Cursor]
      /\ SoonerCursors(cur, q) = CutCursors(Cursors, D \cup {e + 1})
  BY <1>1, <1>2, <1>3, CutMore
<1>8. q - 1 = e - Cardinality(D) /\ q \in Nat
  BY <1>5
<1>9. Dead(k, e + 1) = IF matches THEN D \cup {e + 1} ELSE D
  <2>1. \A j : j \in 1 .. e + 1 <=> j \in 1 .. e \/ j = e + 1
    OBVIOUS
  <2>2. \A j : j \in Dead(k, e + 1) <=> j \in D \/ (j = e + 1 /\ matches)
    BY <2>1 DEF Dead
  <2> QED
    BY <2>2
<1>10. Links(m.next, s) /\ m.count = Len(s) /\ s \in Seq(Node)
  BY <1>4 DEF Holds, Links
<1> HIDE DEF D, q, cur, m, pp
<1>11. pp = AddrAt(s, q - 1) /\ m.next[pp] = p /\ p # Null
  BY <1>4, <1>6, <1>8, <1>10, DestroyLinks
<1>12. st2 = IF matches THEN [m |-> NodeDestroy(m, pp), pp |-> pp, dead |-> st.dead \cup {p}]
             ELSE [m |-> m, pp |-> p, dead |-> st.dead]
  BY <1>1, <1>11 DEF DeleteStep, m, pp
<1> HIDE DEF st2, matches
<1>13. CASE matches
  <2> DEFINE t == RemoveAt(s, q)
             E == D \cup {e + 1}
             d == NodeDestroy(m, pp)
  <2>1. Dead(k, e + 1) = E /\ st2.m = d /\ st2.pp = pp /\ st2.dead = st.dead \cup {p}
    BY <1>9, <1>12, <1>13
  <2>2. d \in Memory
    <3>1. pp \in Addr /\ m.count > 0 /\ m.next[pp] # Null
      BY <1>4, <1>6, <1>10, <1>11, Places DEF Links
    <3> QED
      BY <1>4, <3>1, DestroyMemory
  <2>3. Holds(d, t, CutCursors(Cursors, E), open)
    BY <1>1, <1>4, <1>6, <1>7, <1>11, DestroyHolds
  <2>4. Cardinality(E) = Cardinality(D) + 1
    BY <1>3, GapAdd
  <2>5. pp = AddrAt(t, (e + 1) - Cardinality(E))
    <3>1. (e + 1) - Cardinality(E) = q - 1
      BY <1>5, <1>8, <2>4 DEF D
    <3>2. q - 1 \in 0 .. Len(s) - 1 /\ q - 1 < q
      BY <1>6, <1>8
    <3>3. AddrAt(t, q - 1) = AddrAt(s, q - 1)
      BY <1>6, <1>10, <3>2, RemovePlaces DEF Links
    <3> QED
      BY <1>11, <3>1, <3>3
  <2>6. \A x : x \in st2.dead <=> \E j \in E : Chain[j] = x
    BY <1>4, <2>1
  <2>7. \A x \in Node : d.data[x] = IF x \in st2.dead THEN Null ELSE mem.data[x]
    <3>1. d.data = [m.data EXCEPT ![p] = Null] /\ m.data \in [Node -> Item \cup {Null}]
      BY <1>4, <1>11 DEF NodeDestroy, Memory
    <3> HIDE DEF d
    <3> QED
      BY <1>1, <1>4, <2>1, <3>1
  <2> HIDE DEF t, E, d
  <2>8. Deleting(k, st2, e + 1, t)
    BY <1>6, <2>1, <2>2, <2>3, <2>5, <2>6, <2>7 DEF Deleting, t, E
  <2> QED
    BY <2>8 DEF st2
<1>14. CASE ~matches
  <2>1. Dead(k, e + 1) = D /\ st2.m = m /\ st2.pp = p /\ st2.dead = st.dead
    BY <1>9, <1>12, <1>14
  <2>2. p = AddrAt(s, (e + 1) - Cardinality(D))
    BY <1>6 DEF q, AddrAt
  <2>3. Deleting(k, st2, e + 1, s)
    BY <1>4, <2>1, <2>2 DEF Deleting, cur
  <2> QED
    BY <2>3 DEF st2
<1> QED
  BY <1>13, <1>14

LEMMA DeleteDone ==
  ASSUME ListInv, NEW k, NEW st, NEW s, Deleting(k, st, Len(Chain), s)
  PROVE  DeleteStep(k, st) = st
<1> DEFINE L == Len(Chain)
           D == Dead(k, L)
<1>1. L \in Nat
  BY InvFacts
<1>2. UpTo(D, L)
  BY DEF UpTo, Dead
<1>3. Links((st.m).next, s) /\ LeftOf(s, Chain, D) /\ st.pp = AddrAt(s, L - Cardinality(D))
  BY DEF Deleting, Holds
<1>4. Len(s) = L - Cardinality(D) /\ s \in Seq(Node)
  BY <1>3 DEF LeftOf
<1>5. st.pp = AddrAt(s, Len(s)) /\ Len(s) \in Nat
  BY <1>3, <1>4
<1>6. (st.m).next[AddrAt(s, Len(s))] = NodeAt(s, Len(s) + 1)
  BY <1>3, <1>5 DEF Links
<1>7. NodeAt(s, Len(s) + 1) = Null
  BY <1>5 DEF NodeAt
<1> QED
  BY <1>5, <1>6, <1>7 DEF DeleteStep

LEMMA DeleteLoopIs ==
  ASSUME ListInv, NEW k
  PROVE  \E s : Deleting(k, DeleteLoop(k), Len(Chain), s)
<1> DEFINE M == Cardinality(Node)
           L == Len(Chain)
<1>1. /\ mem \in Memory /\ M \in Nat /\ L \in Nat /\ L <= M
      /\ Chain \in Seq(Node) /\ Cursors \in [Iter -> Cursor]
  BY InvFacts, Sizes, ShortSeq, ListAssumption
<1>2. PICK h : /\ h[0] = [m |-> mem, pp |-> ListHead, dead |-> {}]
               /\ \A n \in 1 .. M : h[n] = DeleteStep(k, h[n - 1])
               /\ DeleteLoop(k) = h[M]
  BY <1>1, DeleteLoopRounds
<1>3. Deleting(k, h[0], 0, Chain)
  <2>1. Dead(k, 0) = {}
    BY DEF Dead
  <2>2. Cardinality({}) = 0
    BY FS_EmptySet
  <2>3. LeftOf(Chain, Chain, {}) /\ CutCursors(Cursors, {}) = Cursors
    BY <1>1, LeftNone
  <2>4. Holds(mem, Chain, Cursors, open)
    BY DEF ListInv
  <2>5. ListHead = AddrAt(Chain, 0 - 0)
    BY DEF AddrAt
  <2> DEFINE x == h[0]
  <2>6. x.m = mem /\ x.pp = ListHead /\ x.dead = {}
    BY <1>2
  <2> HIDE DEF x
  <2>7. Deleting(k, x, 0, Chain)
    BY <1>1, <2>1, <2>2, <2>3, <2>4, <2>5, <2>6 DEF Deleting
  <2> QED
    BY <2>7 DEF x
<1> DEFINE Seen(n) == IF n <= L THEN n ELSE L
           T == {n \in Nat : n <= M => \E s : Deleting(k, h[n], Seen(n), s)}
<1>4. 0 \in T
  BY <1>1, <1>3
<1>5. ASSUME NEW n \in T PROVE n + 1 \in T
  <2> SUFFICES ASSUME n + 1 <= M PROVE \E s : Deleting(k, h[n + 1], Seen(n + 1), s)
    OBVIOUS
  <2>1. n \in Nat /\ n <= M /\ n + 1 \in 1 .. M /\ (n + 1) - 1 = n
    BY <1>1
  <2>2. PICK s : Deleting(k, h[n], Seen(n), s)
    BY <2>1
  <2>3. h[n + 1] = DeleteStep(k, h[n])
    BY <1>2, <2>1
  <2>4. CASE n < L
    <3>1. Seen(n) = n /\ Seen(n + 1) = n + 1
      BY <1>1, <2>1, <2>4
    <3> HIDE DEF Seen, L
    <3>2. Deleting(k, h[n], n, s) /\ n < Len(Chain)
      BY <2>2, <2>4, <3>1 DEF L
    <3>3. \E t : Deleting(k, DeleteStep(k, h[n]), n + 1, t)
      BY <2>1, <3>2, DeleteRound
    <3> QED
      BY <2>3, <3>1, <3>3
  <2>5. CASE n >= L
    <3>1. Seen(n) = L /\ Seen(n + 1) = L
      BY <1>1, <2>1, <2>5
    <3>2. DeleteStep(k, h[n]) = h[n]
      BY <2>2, <3>1, DeleteDone
    <3> QED
      BY <2>2, <2>3, <3>1, <3>2
  <2> QED
    BY <1>1, <2>1, <2>4, <2>5
<1> HIDE DEF T
<1>6. T = Nat
  <2>1. T \subseteq Nat
    BY DEF T
  <2> QED
    BY <1>4, <1>5, <2>1, Induct
<1>7. \E s : Deleting(k, h[M], Seen(M), s)
  BY <1>1, <1>6 DEF T
<1>8. Seen(M) = L
  BY <1>1
<1> QED
  BY <1>2, <1>7, <1>8

\* The nodes of C at the indices D.
NodesAt(C, D, dead) == \A x : x \in dead <=> \E j \in D : C[j] = x

LEMMA AheadLeft ==
  ASSUME NEW C \in Seq(Node), NEW cur \in [Iter -> Cursor], open \subseteq Iter,
         \A i \in open : cur[i].next > 0, NEW d, Ahead(C, cur, open, d),
         NEW D, UpTo(D, Len(C)), NEW s, LeftOf(s, C, D),
         NEW dead, NodesAt(C, D, dead)
  PROVE  Ahead(s, CutCursors(cur, D), open, [i \in Iter |-> d[i] \ dead])
<1> DEFINE d2 == [i \in Iter |-> d[i] \ dead]
<1>1. Len(C) \in Nat
  OBVIOUS
<1>2. /\ \A x \in Nat : Gap(D, x) \in Nat
      /\ \A x, y \in Nat : x <= y => Gap(D, x) <= Gap(D, y) /\ Gap(D, y) <= Gap(D, x) + (y - x)
  BY <1>1, GapFacts
<1>3. SUFFICES ASSUME NEW i \in open, NEW p \in d2[i]
               PROVE  \E k \in CutCursors(cur, D)[i].next .. Len(s) : s[k] = p
  BY DEF Ahead
<1>4. i \in Iter /\ p \in d[i] /\ p \notin dead /\ cur[i].next \in Nat
  BY DEF Cursor
<1>5. PICK j \in cur[i].next .. Len(C) : C[j] = p
  BY <1>4 DEF Ahead
<1>6. j \notin D /\ j \in Nat /\ j \in 1 .. Len(C) /\ cur[i].next <= j
  BY <1>1, <1>4, <1>5 DEF NodesAt
<1>7. j - Gap(D, j) \in 1 .. Len(s) /\ s[j - Gap(D, j)] = p
  BY <1>5, <1>6 DEF LeftOf
<1>8. Gap(D, j) <= Gap(D, cur[i].next) + (j - cur[i].next) /\ Gap(D, j) \in Nat /\ Gap(D, cur[i].next) \in Nat
  BY <1>2, <1>4, <1>6
<1>9. CutCursors(cur, D)[i].next = cur[i].next - Gap(D, cur[i].next)
  BY <1>4 DEF CutCursors, CutNext
<1>10. Len(s) \in Int
  BY DEF LeftOf
<1>11. j - Gap(D, j) \in CutCursors(cur, D)[i].next .. Len(s)
  BY <1>4, <1>6, <1>7, <1>8, <1>9, <1>10
<1> QED
  BY <1>7, <1>11

LEMMA OnlyIs ==
  ASSUME ListInv, NEW D, UpTo(D, Len(Chain)), NEW s, LeftOf(s, Chain, D),
         NEW data, \A j \in 1 .. Len(Chain) : j \notin D => data[Chain[j]] = mem.data[Chain[j]]
  PROVE  Mapped(s, data) = Abstract!Only(DOMAIN Items \ D)
<1> DEFINE L == Len(Chain)
           K == DOMAIN Items \ D
           At(n) == CHOOSE k \in K : Abstract!Cardinality({d \in K : d < k}) = n - 1
<1>1. L \in Nat /\ DOMAIN Items = 1 .. L /\ \A j \in 1 .. L : Items[j] = mem.data[Chain[j]]
  BY InvFacts, ItemsFacts
<1>2. /\ Cardinality(K) = L - Cardinality(D)
      /\ \A j \in K : Cardinality({d \in K : d < j}) = (j - Gap(D, j)) - 1
      /\ \A r \in 1 .. L - Cardinality(D) : \E j \in K : j - Gap(D, j) = r
      /\ \A i, j \in K : i - Gap(D, i) = j - Gap(D, j) => i = j
  <2>1. L \in Nat /\ UpTo(D, L) /\ K = (1 .. L) \ D
    BY <1>1
  <2> HIDE DEF L, K
  <2>2. /\ Cardinality((1 .. L) \ D) = L - Cardinality(D)
        /\ \A j \in (1 .. L) \ D :
             Cardinality({k \in (1 .. L) \ D : k < j}) = (j - Gap(D, j)) - 1
        /\ \A r \in 1 .. L - Cardinality(D) : \E j \in (1 .. L) \ D : j - Gap(D, j) = r
        /\ \A i, j \in (1 .. L) \ D : i - Gap(D, i) = j - Gap(D, j) => i = j
    BY ONLY <2>1, LeftRank
  <2> QED
    BY <2>1, <2>2
<1>3. \A j \in K : j \in Nat /\ Gap(D, j) \in Nat
  BY <1>1, GapFacts
<1>4. /\ Len(s) = Cardinality(K)
      /\ \A j \in K : s[j - Gap(D, j)] = Chain[j] /\ data[Chain[j]] = Items[j]
  BY <1>1, <1>2 DEF LeftOf
<1>5. Abstract!Only(DOMAIN Items \ D) = [n \in 1 .. Cardinality(K) |-> Items[At(n)]]
  <2>1. Abstract!Only(K) = [n \in 1 .. Abstract!Cardinality(K) |-> Items[At(n)]]
    BY DEF Abstract!Only
  <2> HIDE DEF At
  <2>2. Abstract!Cardinality(K) = Cardinality(K)
    BY SameCardinality
  <2> QED
    BY <2>1, <2>2
<1>6. ASSUME NEW n \in 1 .. Cardinality(K) PROVE data[s[n]] = Items[At(n)]
  <2> HIDE DEF K, L
  <2>1. PICK j \in K : j - Gap(D, j) = n
    BY <1>2
  <2>2. Cardinality({d \in K : d < j}) = n - 1
    BY <1>2, <2>1
  <2>3. \A k \in K : Cardinality({d \in K : d < k}) = n - 1 => k = j
    <3> TAKE k \in K
    <3> HAVE Cardinality({d \in K : d < k}) = n - 1
    <3>1. (k - Gap(D, k)) - 1 = n - 1 /\ k - Gap(D, k) \in Int /\ n \in Int
      BY <1>2, <1>3
    <3>2. k - Gap(D, k) = n
      BY <3>1
    <3> QED
      BY <1>2, <2>1, <3>2
  <2>4. \A k : Abstract!Cardinality({d \in K : d < k}) = Cardinality({d \in K : d < k})
    BY SameCardinality
  <2>5. At(n) = j
    BY <2>2, <2>3, <2>4
  <2> HIDE DEF At
  <2> QED
    BY <1>4, <2>1, <2>5
<1>7. Mapped(s, data) = [n \in 1 .. Cardinality(K) |-> data[s[n]]]
  BY <1>4 DEF Mapped
<1> DEFINE N == Cardinality(K)
<1>8. \A n \in 1 .. N : data[s[n]] = Items[At(n)]
  BY <1>6
<1> HIDE DEF At, K, N
<1>9. [n \in 1 .. N |-> data[s[n]]] = [n \in 1 .. N |-> Items[At(n)]]
  BY ONLY <1>8, Zenon
<1> QED
  BY <1>5, <1>7, <1>9 DEF N

LEMMA DeleteAllStep ==
  ASSUME ListInv, NEW k \in Keys, ListDeleteAll(k)
  PROVE  ListInv' /\ Abstract!DeleteAll
<1> DEFINE L == Len(Chain)
           D == Dead(k, L)
           last == DeleteLoop(k)
           cur == CutCursors(Cursors, D)
<1>1. /\ live /\ mem' = last.m /\ free' = free \cup last.dead /\ ret' = Cardinality(last.dead)
      /\ due' = [i \in Iter |-> due[i] \ last.dead]
      /\ live' = live /\ open' = open
  BY DEF ListDeleteAll
<1>2. /\ open \subseteq Iter /\ Chain \in Seq(Node) /\ IsInjective(Chain) /\ L \in Nat
      /\ Cursors \in [Iter -> Cursor] /\ (\A i \in Iter \ open : Cursors[i] = Start)
      /\ \A j \in 1 .. L : Chain[j] \in Node /\ mem.data[Chain[j]] \in Item
      /\ free = Node \ Range(Chain) /\ Range(Chain) \subseteq Node
      /\ Ahead(Chain, Cursors, open, due) /\ due \in [Iter -> SUBSET Node]
  BY InvFacts DEF ListInv
<1>3. \A i \in open : Cursors[i].next > 0
  BY InvFacts DEF AtCursor
<1>4. UpTo(D, L)
  BY DEF UpTo, Dead
<1>5. PICK s : Deleting(k, last, L, s)
  BY DeleteLoopIs
<1>6. /\ mem' \in Memory /\ Holds(mem', s, cur, open') /\ LeftOf(s, Chain, D)
      /\ \A x : x \in last.dead <=> \E j \in D : Chain[j] = x
      /\ \A x \in Node : (mem').data[x] = IF x \in last.dead THEN Null ELSE mem.data[x]
  BY <1>1, <1>5 DEF Deleting
<1>7. cur \in [Iter -> Cursor] /\ \A i \in Iter \ open' : cur[i] = Start
  <2>1. cur \in [Iter -> Cursor]
    BY <1>2, <1>3, <1>4, CutMore
  <2> QED
    BY <1>1, <1>2, <2>1 DEF CutCursors
<1>8. Ahead(s, cur, open', due')
  <2> DEFINE dead == last.dead
  <2>1. NodesAt(Chain, D, dead)
    BY <1>6 DEF NodesAt
  <2>2. UpTo(D, Len(Chain))
    BY <1>4
  <2> HIDE DEF dead, D
  <2>3. Ahead(s, CutCursors(Cursors, D), open, [i \in Iter |-> due[i] \ dead])
    <3>1. /\ open \subseteq Iter /\ Chain \in Seq(Node) /\ Cursors \in [Iter -> Cursor]
          /\ \A i \in open : Cursors[i].next > 0
          /\ Ahead(Chain, Cursors, open, due) /\ LeftOf(s, Chain, D)
      BY <1>2, <1>3, <1>6
    <3> QED
      BY ONLY <2>1, <2>2, <3>1, AheadLeft
  <2> QED
    BY <1>1, <2>3 DEF dead
<1>9. \A j \in 1 .. L : Chain[j] \in last.dead <=> j \in D
  BY <1>2, <1>4, <1>6 DEF IsInjective, Dead
<1>10. \A x : x \in Range(s) <=> x \in Range(Chain) /\ x \notin last.dead
  <2>1. s \in Seq(Node) /\ Len(s) = L - Cardinality(D)
    BY <1>6 DEF LeftOf
  <2>2. \A x : x \in Range(s) <=> \E n \in 1 .. Len(s) : s[n] = x
    BY <2>1, RangeIs
  <2>3. \A x : x \in Range(Chain) <=> \E j \in 1 .. L : Chain[j] = x
    BY <1>2, RangeIs
  <2>4. \A j \in 1 .. L : j \notin D => j - Gap(D, j) \in 1 .. Len(s) /\ s[j - Gap(D, j)] = Chain[j]
    BY <1>6 DEF LeftOf
  <2>5. \A r \in 1 .. L - Cardinality(D) : \E j \in (1 .. L) \ D : j - Gap(D, j) = r
    <3> HIDE DEF L, D
    <3> QED
      BY <1>2, <1>4, LeftRank
  <2> HIDE DEF L, D, last
  <2>6. ASSUME NEW x \in Range(s) PROVE x \in Range(Chain) /\ x \notin last.dead
    <3>1. PICK n \in 1 .. Len(s) : s[n] = x
      BY <2>2
    <3>2. PICK j \in (1 .. L) \ D : j - Gap(D, j) = n
      BY <2>1, <2>5
    <3> QED
      BY <1>9, <2>3, <2>4, <3>1, <3>2
  <2>7. ASSUME NEW x \in Range(Chain), x \notin last.dead PROVE x \in Range(s)
    <3>1. PICK j \in 1 .. L : Chain[j] = x
      BY <2>3
    <3> QED
      BY <1>9, <2>2, <2>4, <2>7, <3>1
  <2> QED
    BY <2>6, <2>7
<1>11. last.dead \subseteq Range(Chain)
  <2>1. \A j \in D : j \in 1 .. L
    BY DEF Dead
  <2> QED
    BY <1>2, <1>6, <2>1, RangeIs
<1>12. \A x \in Range(Chain) : mem.data[x] \in Item
  BY <1>2, RangeIs
<1> HIDE DEF L, D, last, cur
<1>13. free' = Node \ Range(s)
  BY <1>1, <1>2, <1>10, <1>11
<1>14. \A x \in Range(s) : (mem').data[x] \in Item
  BY <1>2, <1>6, <1>10, <1>12
<1>15. due' \in [Iter -> SUBSET Node]
  BY <1>1, <1>2
<1>16. ListInv' /\ Chain' = s /\ Cursors' = cur
  BY <1>1, <1>2, <1>6, <1>7, <1>8, <1>13, <1>14, <1>15, InvStep
<1>17. DOMAIN Items = 1 .. L /\ \A j \in 1 .. L : Items[j] = mem.data[Chain[j]]
  BY ItemsFacts DEF L
<1>18. {n \in DOMAIN Items : Key[Items[n]] = k} = D
  BY <1>17 DEF D, Dead
<1>19. Items' = Abstract!Only(DOMAIN Items \ D)
  <2> DEFINE data == (mem').data
  <2>1. Items' = Mapped(s, data)
    <3>1. DOMAIN s = 1 .. Len(s)
      BY <1>6 DEF LeftOf
    <3> QED
      BY <1>16, <3>1 DEF Items, Mapped
  <2>2. \A j \in 1 .. L : j \notin D => data[Chain[j]] = mem.data[Chain[j]]
    BY <1>2, <1>6, <1>9
  <2> HIDE DEF data
  <2> QED
    BY <1>4, <1>6, <2>1, <2>2, OnlyIs DEF L
<1>20. ret' = Abstract!Cardinality(D)
  <2> DEFINE f == [j \in D |-> Chain[j]]
  <2>1. \A j \in D : j \in 1 .. L
    BY DEF D, Dead
  <2>2. IsFiniteSet(D)
    BY <1>2, <1>4, GapFacts
  <2>3. f \in [D -> last.dead] /\ (\A t \in last.dead : \E j \in D : f[j] = t)
    BY <1>6
  <2>4. \A x, y \in D : f[x] = f[y] => x = y
    <3>1. \A x, y \in 1 .. L : Chain[x] = Chain[y] => x = y
      BY <1>2 DEF IsInjective, L
    <3> QED
      BY <2>1, <3>1
  <2> HIDE DEF f
  <2>5. Cardinality(last.dead) = Cardinality(D)
    BY <2>2, <2>3, <2>4, SameSize
  <2> QED
    BY <1>1, <2>5, SameCardinality
<1>21. Cursors' = Abstract!Removed(D)
  BY <1>2, <1>16, CutIs DEF cur
<1>22. k \in Abstract!Keys
  BY DEF Keys, Abstract!Keys
<1> QED
  BY <1>1, <1>16, <1>18, <1>19, <1>20, <1>21, <1>22 DEF Abstract!DeleteAll

-----------------------------------------------------------------------------
(* list_sort: the element at n goes to before the one at k.                *)

Moved(s, k, n) ==
  [j \in 1 .. Len(s) |-> IF j < k THEN s[j] ELSE IF j = k THEN s[n] ELSE IF j <= n THEN s[j - 1] ELSE s[j]]

LEMMA MovedFacts ==
  ASSUME NEW S, NEW s \in Seq(S), NEW n \in 1 .. Len(s), NEW k \in 1 .. n
  PROVE  /\ Moved(s, k, n) \in Seq(S) /\ Len(Moved(s, k, n)) = Len(s)
         /\ \A j \in 1 .. Len(s) :
              Moved(s, k, n)[j] =
                IF j < k THEN s[j] ELSE IF j = k THEN s[n] ELSE IF j <= n THEN s[j - 1] ELSE s[j]
         /\ IsInjective(s) => IsInjective(Moved(s, k, n))
         /\ \A j \in 1 .. Len(s) : \E i \in 1 .. Len(s) : Moved(s, k, n)[i] = s[j]
<1> DEFINE t == Moved(s, k, n)
           From(j) == IF j < k THEN j ELSE IF j = k THEN n ELSE IF j <= n THEN j - 1 ELSE j
<1>1. Len(s) \in Nat /\ n \in Nat /\ n <= Len(s) /\ k \in Nat /\ 1 <= k /\ k <= n
  OBVIOUS
<1>2. \A j \in 1 .. Len(s) : From(j) \in 1 .. Len(s)
  BY <1>1
<1>3. \A j \in 1 .. Len(s) : s[From(j)] =
        IF j < k THEN s[j] ELSE IF j = k THEN s[n] ELSE IF j <= n THEN s[j - 1] ELSE s[j]
  OBVIOUS
<1>4. t = [j \in 1 .. Len(s) |-> IF j < k THEN s[j] ELSE IF j = k THEN s[n]
                                 ELSE IF j <= n THEN s[j - 1] ELSE s[j]]
  BY DEF Moved
<1>5. \A j \in 1 .. Len(s) : t[j] = s[From(j)]
  BY <1>3, <1>4
<1>6. t \in [1 .. Len(s) -> S]
  <2>1. \A j \in 1 .. Len(s) : s[From(j)] \in S
    BY <1>2
  <2> HIDE DEF From
  <2>2. DOMAIN t = 1 .. Len(s) /\ t = [j \in 1 .. Len(s) |-> t[j]]
    BY <1>4
  <2> QED
    BY <1>5, <2>1, <2>2
<1>7. t \in Seq(S) /\ Len(t) = Len(s)
  BY <1>1, <1>6
<1>8. \A i, j \in 1 .. Len(s) : From(i) = From(j) => i = j
  BY <1>1
<1>9. ASSUME IsInjective(s) PROVE IsInjective(t)
  <2>1. DOMAIN t = 1 .. Len(s) /\ DOMAIN s = 1 .. Len(s)
    BY <1>1, <1>6
  <2>2. \A i, j \in 1 .. Len(s) : s[i] = s[j] => i = j
    BY <1>9, <2>1 DEF IsInjective
  <2> HIDE DEF t, From
  <2>3. ASSUME NEW i \in 1 .. Len(s), NEW j \in 1 .. Len(s), t[i] = t[j] PROVE i = j
    <3>1. s[From(i)] = s[From(j)] /\ From(i) \in 1 .. Len(s) /\ From(j) \in 1 .. Len(s)
      BY <1>2, <1>5, <2>3
    <3> QED
      BY <1>8, <2>2, <3>1
  <2> QED
    BY <2>1, <2>3 DEF IsInjective
<1>10. ASSUME NEW j \in 1 .. Len(s) PROVE \E i \in 1 .. Len(s) : t[i] = s[j]
  <2> DEFINE i == IF j < k THEN j ELSE IF j = n THEN k ELSE IF j < n THEN j + 1 ELSE j
  <2>1. i \in 1 .. Len(s) /\ From(i) = j
    BY <1>1
  <2> QED
    BY <1>5, <2>1
<1> QED
  BY <1>3, <1>5, <1>7, <1>9, <1>10

\* The pointers after node e + 1 went to before node k.
Relinked(next, s, k, e) ==
  [next EXCEPT ![s[e + 1]] = next[AddrAt(s, k - 1)], ![AddrAt(s, k - 1)] = s[e + 1],
               ![AddrAt(s, e)] = next[s[e + 1]]]

LEMMA MovedLinks ==
  ASSUME NEW next \in Pointers, NEW s, Links(next, s), NEW e \in 1 .. Len(s) - 1, NEW k \in 1 .. e
  PROVE  /\ Relinked(next, s, k, e) \in Pointers
         /\ Links(Relinked(next, s, k, e), Moved(s, k, e + 1))
         /\ AddrAt(Moved(s, k, e + 1), e + 1) = AddrAt(s, e)
         /\ AddrAt(Moved(s, k, e + 1), e) = IF k = e THEN s[e + 1] ELSE AddrAt(s, e - 1)
<1> DEFINE L == Len(s)
           t == Moved(s, k, e + 1)
           p == s[e + 1]
           before == AddrAt(s, k - 1)
           last == AddrAt(s, e)
           n2 == Relinked(next, s, k, e)
<1>1. /\ s \in Seq(Node) /\ IsInjective(s) /\ L \in Nat
      /\ \A j \in 0 .. L : next[AddrAt(s, j)] = NodeAt(s, j + 1)
  BY DEF Links
<1>2. /\ e \in Nat /\ k \in Nat /\ 1 <= k /\ k <= e /\ e + 1 <= L /\ e + 1 \in 1 .. L /\ k \in 1 .. e + 1
      /\ k - 1 \in 0 .. L /\ e \in 0 .. L /\ e + 1 \in 0 .. L
  BY <1>1
<1>3. /\ \A j \in 0 .. L : AddrAt(s, j) \in Addr
      /\ \A i, j \in 0 .. L : AddrAt(s, i) = AddrAt(s, j) => i = j
      /\ \A j \in 1 .. L : s[j] \in Node /\ AddrAt(s, j) = s[j]
      /\ \A j \in 1 .. L + 1 : NodeAt(s, j) \in Node \cup {Null}
      /\ \A j \in 1 .. L : NodeAt(s, j) = s[j]
      /\ NodeAt(s, L + 1) = Null
  BY <1>1, Places
<1>4. /\ p \in Addr /\ p \in Node /\ before \in Addr /\ last \in Addr /\ p = AddrAt(s, e + 1)
      /\ before # last /\ p # before /\ p # last
      /\ next[before] = s[k] /\ next[p] = NodeAt(s, e + 2)
  BY <1>1, <1>2, <1>3
<1>5. next \in [Addr -> Node \cup {Null}]
  BY DEF Pointers
<1>6. n2 = [next EXCEPT ![p] = next[before], ![before] = p, ![last] = next[p]]
  BY DEF Relinked
<1>7. /\ n2 \in Pointers
      /\ \A a \in Addr : n2[a] = IF a = last THEN next[p] ELSE IF a = before THEN p
                                 ELSE IF a = p THEN next[before] ELSE next[a]
  <2> HIDE DEF n2, p, before, last
  <2> QED
    BY <1>4, <1>5, <1>6 DEF Pointers
<1>8. /\ t \in Seq(Node) /\ Len(t) = L /\ IsInjective(t)
      /\ \A j \in 1 .. L : t[j] = IF j < k THEN s[j] ELSE IF j = k THEN s[e + 1]
                                  ELSE IF j <= e + 1 THEN s[j - 1] ELSE s[j]
  <2> HIDE DEF t
  <2> QED
    BY <1>1, <1>2, MovedFacts DEF t
<1> HIDE DEF t, n2, L
<1>9. \A j \in 0 .. L :
        AddrAt(t, j) = IF j < k THEN AddrAt(s, j) ELSE IF j = k THEN p
                       ELSE IF j <= e + 1 THEN AddrAt(s, j - 1) ELSE AddrAt(s, j)
  <2> TAKE j \in 0 .. L
  <2>1. CASE j = 0
    BY <1>2, <2>1 DEF AddrAt
  <2>2. CASE j # 0
    <3>1. j \in 1 .. L /\ j \in Nat /\ AddrAt(t, j) = t[j] /\ AddrAt(s, j) = s[j]
      BY <1>1, <2>2 DEF AddrAt
    <3>2. j > k /\ j <= e + 1 => AddrAt(s, j - 1) = s[j - 1]
      BY <1>1, <1>2, <3>1 DEF AddrAt
    <3> QED
      BY <1>2, <1>8, <3>1, <3>2
  <2> QED
    BY <2>1, <2>2
<1>10. \A j \in 1 .. L + 1 :
        NodeAt(t, j) = IF j < k THEN NodeAt(s, j) ELSE IF j = k THEN p
                       ELSE IF j <= e + 1 THEN NodeAt(s, j - 1) ELSE NodeAt(s, j)
  <2> TAKE j \in 1 .. L + 1
  <2>1. CASE j = L + 1
    BY <1>1, <1>2, <1>8, <2>1 DEF NodeAt, L
  <2>2. CASE j # L + 1
    <3>1. j \in 1 .. L /\ j \in Nat /\ NodeAt(t, j) = t[j] /\ NodeAt(s, j) = s[j]
      BY <1>1, <1>3, <1>8, <2>2 DEF NodeAt
    <3>2. j > k /\ j <= e + 1 => NodeAt(s, j - 1) = s[j - 1]
      BY <1>1, <1>2, <1>3, <3>1
    <3> QED
      BY <1>2, <1>8, <3>1, <3>2
  <2> QED
    BY <2>1, <2>2
<1>11. ASSUME NEW j \in 0 .. L PROVE n2[AddrAt(t, j)] = NodeAt(t, j + 1)
  <2> HIDE DEF p, before, last
  <2>1. j \in Nat /\ j + 1 \in 1 .. L + 1 /\ j <= L
    BY <1>1
  <2>2. CASE j < k - 1
    <3>1. /\ AddrAt(t, j) = AddrAt(s, j) /\ NodeAt(t, j + 1) = NodeAt(s, j + 1)
          /\ j # k - 1 /\ j # e /\ j # e + 1
      BY <1>2, <1>9, <1>10, <2>1, <2>2
    <3>2. AddrAt(s, j) # before /\ AddrAt(s, j) # last /\ AddrAt(s, j) # p
      BY <1>2, <1>3, <1>4, <2>1, <3>1 DEF before, last
    <3> QED
      BY <1>1, <1>3, <1>7, <2>1, <3>1, <3>2
  <2>3. CASE j = k - 1
    <3>1. AddrAt(t, j) = before /\ NodeAt(t, j + 1) = p
      BY <1>2, <1>9, <1>10, <2>1, <2>3 DEF before
    <3> QED
      BY <1>4, <1>7, <3>1
  <2>4. CASE j = k
    <3>1. AddrAt(t, j) = p /\ NodeAt(t, j + 1) = NodeAt(s, k) /\ NodeAt(s, k) = s[k]
      BY <1>1, <1>2, <1>3, <1>9, <1>10, <2>1, <2>4
    <3> QED
      BY <1>4, <1>7, <3>1
  <2>5. CASE j > k /\ j <= e
    <3>1. /\ AddrAt(t, j) = AddrAt(s, j - 1) /\ NodeAt(t, j + 1) = NodeAt(s, j)
          /\ j - 1 # k - 1 /\ j - 1 # e /\ j - 1 # e + 1 /\ j - 1 \in 0 .. L /\ (j - 1) + 1 = j
      <4>1. /\ (j + 1) - 1 = j /\ ~(j + 1 < k) /\ j + 1 # k /\ j + 1 <= e + 1
            /\ ~(j < k) /\ j # k /\ j <= e + 1
        BY <1>2, <2>1, <2>5
      <4>2. NodeAt(t, j + 1) = NodeAt(s, (j + 1) - 1)
        BY <1>10, <2>1, <4>1
      <4>3. AddrAt(t, j) = AddrAt(s, j - 1)
        BY <1>9, <4>1
      <4> QED
        BY <1>1, <1>2, <2>1, <2>5, <4>1, <4>2, <4>3
    <3>2. AddrAt(s, j - 1) # before /\ AddrAt(s, j - 1) # last /\ AddrAt(s, j - 1) # p
      BY <1>2, <1>3, <1>4, <2>1, <3>1 DEF before, last
    <3>3. n2[AddrAt(s, j - 1)] = next[AddrAt(s, j - 1)]
      BY <1>3, <1>7, <3>1, <3>2
    <3>4. next[AddrAt(s, j - 1)] = NodeAt(s, j)
      BY <1>1, <3>1
    <3> QED
      BY <3>1, <3>3, <3>4
  <2>6. CASE j = e + 1
    <3>1. AddrAt(t, j) = last /\ NodeAt(t, j + 1) = NodeAt(s, e + 2)
      BY <1>2, <1>9, <1>10, <2>1, <2>6 DEF last
    <3> QED
      BY <1>4, <1>7, <3>1
  <2>7. CASE j > e + 1
    <3>1. /\ AddrAt(t, j) = AddrAt(s, j) /\ NodeAt(t, j + 1) = NodeAt(s, j + 1)
          /\ j # k - 1 /\ j # e /\ j # e + 1
      BY <1>2, <1>9, <1>10, <2>1, <2>7
    <3>2. AddrAt(s, j) # before /\ AddrAt(s, j) # last /\ AddrAt(s, j) # p
      BY <1>2, <1>3, <1>4, <2>1, <3>1 DEF before, last
    <3> QED
      BY <1>1, <1>3, <1>7, <2>1, <3>1, <3>2
  <2> QED
    BY <1>2, <2>1, <2>2, <2>3, <2>4, <2>5, <2>6, <2>7
<1>12. Links(n2, t)
  BY <1>8, <1>11 DEF Links, L
<1>13. /\ AddrAt(t, e + 1) = AddrAt(s, e)
       /\ AddrAt(t, e) = IF k = e THEN s[e + 1] ELSE AddrAt(s, e - 1)
  BY <1>2, <1>9
<1> QED
  BY <1>7, <1>12, <1>13 DEF n2, t

\* The order of the sort: by key, those with the same key in the order they were.
KeyAt(j) == Key[mem.data[Chain[j]]]
Under(i, j) == KeyAt(i) < KeyAt(j) \/ (KeyAt(i) = KeyAt(j) /\ i < j)

\* Every number up to L, once.
Order(o, L) ==
  /\ o \in Seq(1 .. L) /\ Len(o) = L /\ IsInjective(o)
  /\ \A n \in 1 .. L : \E j \in 1 .. L : o[j] = n

\* The loop has put the first e nodes into order.
Sorting(st, e, s, o) ==
  /\ st.next \in Pointers /\ Links(st.next, s)
  /\ Order(o, Len(Chain)) /\ Len(s) = Len(Chain) /\ \A j \in 1 .. Len(s) : s[j] = Chain[o[j]]
  /\ e \in 1 .. Len(s) /\ st.pp = AddrAt(s, e) /\ st.ppPrev = AddrAt(s, e - 1)
  /\ \A a, b \in 1 .. e : a < b => Under(o[a], o[b])
  /\ \A j \in e + 1 .. Len(s) : o[j] = j

LEMMA OrderFacts ==
  ASSUME NEW L \in Nat, NEW o, Order(o, L)
  PROVE  /\ o \in Seq(1 .. L) /\ Len(o) = L /\ \A j \in 1 .. L : o[j] \in 1 .. L
         /\ \A i, j \in 1 .. L : o[i] = o[j] => i = j
<1> DEFINE S == 1 .. L
<1>1. o \in Seq(S) /\ Len(o) = L
  BY DEF Order
<1>2. IsInjective(o)
  BY DEF Order
<1> HIDE DEF S
<1>3. o \in [1 .. L -> S] /\ DOMAIN o = 1 .. L
  BY <1>1
<1>4. \A i, j \in 1 .. L : o[i] = o[j] => i = j
  BY <1>2, <1>3 DEF IsInjective
<1>5. \A j \in 1 .. L : o[j] \in S
  BY <1>3
<1> QED
  BY <1>1, <1>4, <1>5 DEF S

LEMMA OrderMoved ==
  ASSUME NEW L \in Nat, NEW o, Order(o, L), NEW n \in 1 .. L, NEW k \in 1 .. n
  PROVE  Order(Moved(o, k, n), L)
<1>1. o \in Seq(1 .. L) /\ Len(o) = L /\ IsInjective(o)
  BY DEF Order
<1>2. /\ Moved(o, k, n) \in Seq(1 .. L) /\ Len(Moved(o, k, n)) = L
      /\ IsInjective(Moved(o, k, n))
      /\ \A j \in 1 .. L : \E i \in 1 .. L : Moved(o, k, n)[i] = o[j]
  <2> DEFINE S == 1 .. L
  <2>1. o \in Seq(S) /\ n \in 1 .. Len(o) /\ k \in 1 .. n /\ IsInjective(o)
    BY <1>1
  <2> HIDE DEF S
  <2>2. /\ Moved(o, k, n) \in Seq(S) /\ Len(Moved(o, k, n)) = Len(o)
        /\ IsInjective(Moved(o, k, n))
        /\ \A j \in 1 .. Len(o) : \E i \in 1 .. Len(o) : Moved(o, k, n)[i] = o[j]
    BY ONLY <2>1, MovedFacts
  <2> QED
    BY <1>1, <2>2 DEF S
<1>3. ASSUME NEW m \in 1 .. L PROVE \E i \in 1 .. L : Moved(o, k, n)[i] = m
  <2>1. PICK j \in 1 .. L : o[j] = m
    BY DEF Order
  <2> QED
    BY <1>2, <2>1
<1> QED
  BY <1>2, <1>3 DEF Order

LEMMA SortRound ==
  ASSUME ListInv, NEW st, NEW e, NEW s, NEW o, Sorting(st, e, s, o), e < Len(Chain)
  PROVE  \E t, q : Sorting(SortStep(st), e + 1, t, q)
<1> DEFINE L == Len(s)
           p == s[e + 1]
           K(x) == Key[mem.data[x]]
           I == {j \in 1 .. L : K(p) < K(s[j])}
           k == SelectInSeq(s, LAMBDA x : K(p) < K(x))
           ppPos == IF k = 1 THEN ListHead ELSE s[k - 1]
           st2 == SortStep(st)
<1>1. /\ st.next \in Pointers /\ Links(st.next, s) /\ s \in Seq(Node) /\ IsInjective(s)
      /\ Order(o, L) /\ L = Len(Chain) /\ L \in Nat /\ \A j \in 1 .. L : s[j] = Chain[o[j]]
      /\ e \in 1 .. L /\ st.pp = AddrAt(s, e) /\ st.ppPrev = AddrAt(s, e - 1)
      /\ \A a, b \in 1 .. e : a < b => Under(o[a], o[b])
      /\ \A j \in e + 1 .. L : o[j] = j
  BY DEF Sorting, Links
<1>2. e \in Nat /\ 1 <= e /\ e + 1 \in 1 .. L /\ e \in 1 .. L - 1 /\ e + 1 \in e + 1 .. L
  BY <1>1
<1>3. /\ \A j \in 1 .. L : o[j] \in 1 .. L /\ s[j] \in Node /\ K(s[j]) = KeyAt(o[j]) /\ K(s[j]) \in Int
      /\ \A i, j \in 1 .. L : o[i] = o[j] => i = j
      /\ o[e + 1] = e + 1
  <2>1. \A j \in 1 .. L : o[j] \in 1 .. L /\ s[j] \in Node
    BY <1>1, OrderFacts
  <2>2. \A i, j \in 1 .. L : o[i] = o[j] => i = j
    BY <1>1, OrderFacts
  <2>3. \A j \in 1 .. L : Chain[j] \in Node /\ mem.data[Chain[j]] \in Item
    BY <1>1, InvFacts
  <2>4. \A j \in 1 .. L : K(s[j]) = KeyAt(o[j]) /\ K(s[j]) \in Int
    BY <1>1, <2>1, <2>3, ListAssumption DEF KeyAt
  <2>5. o[e + 1] = e + 1
    BY <1>1, <1>2
  <2> QED
    BY <2>1, <2>2, <2>4, <2>5
<1>4. /\ (st.next)[st.pp] = p /\ p # Null /\ p \in Node
      /\ (st.next)[st.ppPrev] = s[e]
  <2>1. \A j \in 0 .. L : (st.next)[AddrAt(s, j)] = NodeAt(s, j + 1)
    BY <1>1 DEF Links
  <2>2. e \in 0 .. L /\ e - 1 \in 0 .. L /\ (e - 1) + 1 = e /\ e \in 1 .. L
    BY <1>2
  <2>3. NodeAt(s, e + 1) = p /\ NodeAt(s, e) = s[e]
    BY <1>2, <2>2 DEF NodeAt
  <2> QED
    BY <1>1, <1>2, <1>3, <2>1, <2>2, <2>3, ListAssumption
<1>5. ChainOf(st.next) = s
  BY <1>1, ChainIs
<1>6. st2 = IF K(p) < K(s[e])
            THEN [next |-> [st.next EXCEPT ![p] = (st.next)[ppPos], ![ppPos] = p,
                                           ![st.pp] = (st.next)[p]],
                  ppPrev |-> IF ppPos = st.ppPrev THEN p ELSE st.ppPrev, pp |-> st.pp]
            ELSE [next |-> st.next, ppPrev |-> st.pp, pp |-> p]
  BY <1>4, <1>5 DEF SortStep
<1>7. \A j \in 1 .. e : o[j] \in 1 .. L /\ o[j] < e + 1
  <2> TAKE j \in 1 .. e
  <2>1. j \in 1 .. L /\ o[j] \in 1 .. L
    BY <1>2, <1>3
  <2>2. SUFFICES ASSUME o[j] >= e + 1 PROVE FALSE
    BY <1>2, <2>1
  <2>3. o[j] \in e + 1 .. L
    BY <2>1, <2>2, <1>2
  <2>4. o[o[j]] = o[j]
    BY <1>1, <2>3
  <2>5. o[j] = j
    BY <1>3, <2>1, <2>4
  <2> QED
    BY <2>2, <2>5, <1>2
<1>8. CASE ~(K(p) < K(s[e]))
  <2>1. st2.next = st.next /\ st2.ppPrev = AddrAt(s, (e + 1) - 1) /\ st2.pp = AddrAt(s, e + 1)
    BY <1>1, <1>2, <1>6, <1>8 DEF AddrAt
  <2>2. ASSUME NEW a \in 1 .. e + 1, NEW b \in 1 .. e + 1, a < b PROVE Under(o[a], o[b])
    <3>1. CASE b <= e
      BY <1>1, <1>2, <2>2, <3>1
    <3>2. CASE b = e + 1
      <4>1. a \in 1 .. e /\ a \in 1 .. L /\ e \in 1 .. L
        BY <1>2, <2>2, <3>2
      <4>2. KeyAt(o[e]) <= KeyAt(o[e + 1]) /\ KeyAt(o[e]) \in Int /\ KeyAt(o[e + 1]) \in Int
        BY <1>2, <1>3, <1>8, <4>1
      <4>3. KeyAt(o[a]) <= KeyAt(o[e]) /\ KeyAt(o[a]) \in Int
        <5>1. KeyAt(o[a]) \in Int
          BY <1>3, <4>1
        <5>2. CASE a = e
          BY <5>1, <5>2
        <5>3. CASE a # e
          <6>1. Under(o[a], o[e])
            BY <1>1, <1>2, <4>1, <5>3
          <6> QED
            BY <4>2, <5>1, <6>1 DEF Under
        <5> QED
          BY <5>2, <5>3
      <4>4. o[a] < o[e + 1]
        BY <1>3, <1>7, <4>1
      <4> QED
        BY <3>2, <4>2, <4>3, <4>4 DEF Under
    <3> QED
      BY <1>2, <3>1, <3>2
  <2>3. \A j \in e + 2 .. L : o[j] = j
    BY <1>1, <1>2
  <2> HIDE DEF st2
  <2>4. Sorting(st2, e + 1, s, o)
    BY <1>1, <1>2, <2>1, <2>2, <2>3 DEF Sorting
  <2> QED
    BY <2>4 DEF st2
<1>9. CASE K(p) < K(s[e])
  <2>1. k \in 1 .. e /\ K(p) < K(s[k]) /\ \A j \in 1 .. k - 1 : ~(K(p) < K(s[j]))
    <3>1. I \in SUBSET Nat /\ e \in I
      BY <1>1, <1>2, <1>9
    <3>2. PICK j \in I : \A i \in I : j <= i
      BY <3>1, Least
    <3>3. k = IF I = {} THEN 0 ELSE Min(I)
      BY DEF SelectInSeq
    <3>4. k = j
      <4>1. I \in SUBSET Int
        BY <3>1
      <4> HIDE DEF I, k
      <4> QED
        BY <3>1, <3>2, <3>3, <4>1, MinIs
    <3>5. j <= e /\ j \in 1 .. L
      BY <3>1, <3>2
    <3> HIDE DEF k
    <3> QED
      BY <1>2, <3>2, <3>4, <3>5
  <2>2. ppPos = AddrAt(s, k - 1)
    <3> HIDE DEF k
    <3> QED
      BY <1>2, <2>1 DEF AddrAt
  <2> HIDE DEF k, ppPos, I
  <2> DEFINE t == Moved(s, k, e + 1)
             q == Moved(o, k, e + 1)
  <2>3. k \in Nat /\ 1 <= k /\ k <= e /\ k \in 1 .. e + 1 /\ k \in 1 .. L
    BY <1>2, <2>1
  <2>4. st2.next = Relinked(st.next, s, k, e)
    BY <1>1, <1>6, <1>9, <2>2 DEF Relinked
  <2>5. st2.pp = AddrAt(s, e) /\ st2.ppPrev = IF ppPos = st.ppPrev THEN p ELSE st.ppPrev
    BY <1>1, <1>6, <1>9
  <2>6. ppPos = st.ppPrev <=> k = e
    <3>1. \A i, j \in 0 .. L : AddrAt(s, i) = AddrAt(s, j) => i = j
      BY <1>1, Places
    <3> QED
      BY <1>1, <1>2, <2>2, <2>3, <3>1
  <2>7. /\ st2.next \in Pointers /\ Links(st2.next, t)
        /\ st2.pp = AddrAt(t, e + 1) /\ st2.ppPrev = AddrAt(t, (e + 1) - 1)
    <3>1. /\ Relinked(st.next, s, k, e) \in Pointers /\ Links(Relinked(st.next, s, k, e), t)
          /\ AddrAt(t, e + 1) = AddrAt(s, e)
          /\ AddrAt(t, e) = IF k = e THEN s[e + 1] ELSE AddrAt(s, e - 1)
      BY <1>1, <1>2, <2>1, MovedLinks
    <3> HIDE DEF st2, t
    <3> QED
      BY <1>1, <1>2, <2>4, <2>5, <2>6, <3>1
  <2>8. /\ Order(q, L) /\ Len(q) = L
        /\ \A j \in 1 .. L : q[j] = IF j < k THEN o[j] ELSE IF j = k THEN o[e + 1]
                                    ELSE IF j <= e + 1 THEN o[j - 1] ELSE o[j]
    <3> DEFINE S == 1 .. L
    <3>1. o \in Seq(S) /\ Len(o) = L
      BY <1>1 DEF Order
    <3> HIDE DEF q, L, S
    <3>2. Order(q, L)
      BY <1>1, <1>2, <2>3, OrderMoved DEF q
    <3>3. \A j \in 1 .. Len(o) : q[j] = IF j < k THEN o[j] ELSE IF j = k THEN o[e + 1]
                                    ELSE IF j <= e + 1 THEN o[j - 1] ELSE o[j]
      <4>1. e + 1 \in 1 .. Len(o) /\ k \in 1 .. e + 1 /\ o \in Seq(S)
        BY <1>2, <2>3, <3>1
      <4> QED
        BY ONLY <4>1, MovedFacts, SMTT(40) DEF q
    <3> QED
      BY <3>1, <3>2, <3>3 DEF Order
  <2>9. /\ Len(t) = L
        /\ \A j \in 1 .. L : t[j] = IF j < k THEN s[j] ELSE IF j = k THEN s[e + 1]
                                    ELSE IF j <= e + 1 THEN s[j - 1] ELSE s[j]
    <3> HIDE DEF t
    <3> QED
      BY <1>1, <1>2, <2>3, MovedFacts DEF t
  <2> HIDE DEF t, q, st2
  <2>10. \A j \in 1 .. L : t[j] = Chain[q[j]]
    <3> HIDE DEF L
    <3> TAKE j \in 1 .. L
    <3>1. j > k => j - 1 \in 1 .. L
      BY <1>1, <2>3
    <3>2. CASE j < k
      BY <1>1, <2>8, <2>9, <3>2
    <3>3. CASE j = k
      BY <1>1, <1>2, <2>3, <2>8, <2>9, <3>3
    <3>4. CASE j > k /\ j <= e + 1
      <4>1. ~(j < k) /\ j # k /\ k \in Nat /\ j \in Nat
        BY <2>3, <3>4
      <4>2. q[j] = o[j - 1]
        BY ONLY <2>8, <3>4, <4>1, j \in 1 .. L
      <4>3. t[j] = s[j - 1]
        BY ONLY <2>9, <3>4, <4>1, j \in 1 .. L
      <4> QED
        BY <1>1, <3>1, <3>4, <4>2, <4>3
    <3>5. CASE j > e + 1
      BY <1>1, <1>2, <2>3, <2>8, <2>9, <3>5
    <3> QED
      BY <1>1, <1>2, <2>3, <3>2, <3>3, <3>4, <3>5
  <2>11. \A j \in e + 2 .. L : q[j] = j
    <3> TAKE j \in e + 2 .. L
    <3>1. j \in 1 .. L /\ j \in e + 1 .. L /\ ~(j < k) /\ j # k /\ ~(j <= e + 1)
      BY <1>1, <1>2, <2>3
    <3> QED
      BY <1>1, <2>8, <3>1
  <2>12. ASSUME NEW a \in 1 .. e + 1, NEW b \in 1 .. e + 1, a < b PROVE Under(q[a], q[b])
    <3>1. a \in 1 .. L /\ b \in 1 .. L /\ a \in Nat /\ b \in Nat
      BY <1>1, <1>2
    <3>2. CASE b = k
      <4>0. a < k /\ a \in 1 .. e /\ a \in 1 .. k - 1 /\ ~(b < k)
        BY <1>2, <2>3, <2>12, <3>1, <3>2
      <4>1. q[a] = o[a] /\ q[b] = o[e + 1] /\ a \in 1 .. e /\ a \in 1 .. k - 1
        BY <2>8, <3>1, <3>2, <4>0
      <4>5. ~(K(p) < K(s[a])) /\ K(p) = KeyAt(o[e + 1]) /\ K(s[a]) = KeyAt(o[a])
            /\ K(p) \in Int /\ K(s[a]) \in Int
        BY <1>2, <1>3, <2>1, <3>1, <4>1
      <4> HIDE DEF K, p
      <4>2. KeyAt(o[a]) <= KeyAt(o[e + 1]) /\ KeyAt(o[a]) \in Int /\ KeyAt(o[e + 1]) \in Int
        BY <4>5
      <4>3. o[a] < o[e + 1]
        BY <1>3, <1>7, <4>1
      <4> QED
        BY <4>1, <4>2, <4>3 DEF Under
    <3>3. CASE a = k
      <4>1. q[a] = o[e + 1] /\ q[b] = o[b - 1] /\ b - 1 \in 1 .. e /\ b - 1 \in 1 .. L /\ k <= b - 1
        BY <1>2, <2>3, <2>8, <2>12, <3>1, <3>3
      <4>2. /\ KeyAt(o[e + 1]) < KeyAt(o[k])
            /\ KeyAt(o[e + 1]) \in Int /\ KeyAt(o[k]) \in Int /\ KeyAt(o[b - 1]) \in Int
        BY <1>2, <1>3, <2>1, <2>3, <4>1
      <4>3. KeyAt(o[k]) <= KeyAt(o[b - 1])
        <5>1. CASE k = b - 1
          BY <4>2, <5>1
        <5>2. CASE k # b - 1
          <6>1. Under(o[k], o[b - 1])
            BY <1>1, <2>1, <2>3, <4>1, <5>2
          <6> QED
            BY <4>2, <6>1 DEF Under
        <5> QED
          BY <5>1, <5>2
      <4> QED
        BY <4>1, <4>2, <4>3 DEF Under
    <3>4. CASE a # k /\ b # k
      <4> DEFINE f(j) == IF j < k THEN j ELSE j - 1
      <4>1. f(a) \in 1 .. e /\ f(b) \in 1 .. e /\ f(a) < f(b)
        BY <1>2, <2>3, <2>12, <3>1, <3>4
      <4>2. q[a] = o[f(a)] /\ q[b] = o[f(b)]
        BY <1>2, <2>3, <2>8, <3>1, <3>4
      <4> HIDE DEF f
      <4> QED
        BY <1>1, <4>1, <4>2
    <3> QED
      BY <3>2, <3>3, <3>4
  <2>13. Sorting(st2, e + 1, t, q)
    BY <1>1, <1>2, <2>7, <2>8, <2>9, <2>10, <2>11, <2>12 DEF Sorting
  <2> QED
    BY <2>13 DEF st2
<1> QED
  BY <1>8, <1>9

LEMMA SortDone ==
  ASSUME ListInv, NEW st, NEW s, NEW o, Sorting(st, Len(Chain), s, o)
  PROVE  SortStep(st) = st
<1>1. /\ Links(st.next, s) /\ Len(s) = Len(Chain) /\ st.pp = AddrAt(s, Len(s)) /\ s \in Seq(Node)
  BY DEF Sorting, Links
<1>2. Len(s) \in Nat
  BY <1>1
<1>3. (st.next)[AddrAt(s, Len(s))] = NodeAt(s, Len(s) + 1)
  BY <1>1, <1>2 DEF Links
<1>4. NodeAt(s, Len(s) + 1) = Null
  BY <1>2 DEF NodeAt
<1> QED
  BY <1>1, <1>3, <1>4 DEF SortStep

LEMMA SortStart ==
  ASSUME ListInv, Len(Chain) > 0
  PROVE  Sorting([next |-> mem.next, ppPrev |-> ListHead, pp |-> (mem.next)[ListHead]],
                 1, Chain, [j \in 1 .. Len(Chain) |-> j])
<1> DEFINE L == Len(Chain)
           o == [j \in 1 .. L |-> j]
           x == [next |-> mem.next, ppPrev |-> ListHead, pp |-> (mem.next)[ListHead]]
<1>1. L \in Nat /\ L > 0 /\ Links(mem.next, Chain) /\ mem \in Memory
  BY InvFacts
<1>2. mem.next \in Pointers
  BY <1>1 DEF Memory, Pointers
<1>3. /\ x.next = mem.next /\ x.ppPrev = AddrAt(Chain, 1 - 1) /\ x.pp = AddrAt(Chain, 1)
  <2>1. (mem.next)[AddrAt(Chain, 0)] = NodeAt(Chain, 0 + 1)
    BY <1>1 DEF Links
  <2> QED
    BY <1>1, <2>1 DEF AddrAt, NodeAt
<1> HIDE DEF x, L
<1>4. o \in Seq(1 .. L) /\ Len(o) = L /\ DOMAIN o = 1 .. L
  BY <1>1
<1>5. \A j \in 1 .. L : o[j] = j
  OBVIOUS
<1>6. IsInjective(o)
  BY <1>4, <1>5 DEF IsInjective
<1> HIDE DEF o
<1>7. Order(o, L)
  BY <1>4, <1>5, <1>6 DEF Order
<1>8. Sorting(x, 1, Chain, o)
  <2>1. \A a, b \in 1 .. 1 : ~(a < b)
    OBVIOUS
  <2>2. 1 \in 1 .. L
    BY <1>1
  <2> QED
    BY <1>1, <1>2, <1>3, <1>5, <1>7, <2>1, <2>2 DEF Sorting, L
<1> QED
  BY <1>8 DEF x, o, L

SortState == [next : Pointers, ppPrev : Addr, pp : Addr]
Sortings == {st \in SortState : \E e, s, o : Sorting(st, e, s, o)}

LEMMA SortStepTyped ==
  ASSUME ListInv, NEW st \in Sortings
  PROVE  /\ SortStep(st) \in Sortings
         /\ \A e, s, o : Sorting(st, e, s, o) =>
              \E t, q : Sorting(SortStep(st), IF e < Len(Chain) THEN e + 1 ELSE e, t, q)
<1>1. ASSUME NEW e, NEW s, NEW o, Sorting(st, e, s, o)
      PROVE  \E t, q : Sorting(SortStep(st), IF e < Len(Chain) THEN e + 1 ELSE e, t, q)
  <2>1. e \in 1 .. Len(Chain) /\ Len(Chain) \in Nat
    BY <1>1, InvFacts DEF Sorting
  <2>2. CASE e < Len(Chain)
    BY <1>1, <2>2, SortRound
  <2>3. CASE ~(e < Len(Chain))
    <3>1. e = Len(Chain)
      BY <2>1, <2>3
    <3>2. SortStep(st) = st
      BY <1>1, <3>1, SortDone
    <3> QED
      BY <1>1, <2>3, <3>2
  <2> QED
    BY <2>2, <2>3
<1>2. PICK e, s, o : Sorting(st, e, s, o)
  BY DEF Sortings
<1>3. PICK f, t, q : Sorting(SortStep(st), f, t, q)
  BY <1>1, <1>2
<1>4. SortStep(st) \in SortState
  <2> DEFINE x == SortStep(st)
             y == st
  <2>1. /\ x.next \in Pointers /\ t \in Seq(Node) /\ IsInjective(t)
        /\ f \in 1 .. Len(t) /\ x.pp = AddrAt(t, f) /\ x.ppPrev = AddrAt(t, f - 1)
    BY <1>3 DEF Sorting, Links
  <2>2. x.pp \in Addr /\ x.ppPrev \in Addr
    <3>1. f \in 0 .. Len(t) /\ f - 1 \in 0 .. Len(t)
      BY <2>1
    <3> HIDE DEF x
    <3> QED
      BY <2>1, <3>1, Places
  <2>3. x = [next |-> x.next, ppPrev |-> x.ppPrev, pp |-> x.pp]
    <3>1. st = [next |-> st.next, ppPrev |-> st.ppPrev, pp |-> st.pp]
      BY DEF Sortings, SortState
    <3>2. PICK a, b, c : x = [next |-> a, ppPrev |-> b, pp |-> c]
      <4>1. CASE (st.next)[st.pp] = Null
        BY <3>1, <4>1 DEF SortStep
      <4>2. CASE (st.next)[st.pp] # Null
        BY <4>2 DEF SortStep
      <4> QED
        BY <4>1, <4>2
    <3> HIDE DEF x
    <3> QED
      BY <3>2
  <2> HIDE DEF x
  <2>4. x \in SortState
    BY <2>1, <2>2, <2>3 DEF SortState
  <2> QED
    BY <2>4 DEF x
<1>5. SortStep(st) \in Sortings
  BY <1>3, <1>4 DEF Sortings
<1> QED
  BY <1>1, <1>5

LEMMA SortLoopIs ==
  ASSUME ListInv, Len(Chain) > 0
  PROVE  \E s, o : Sorting(SortLoop(mem), Len(Chain), s, o)
<1> DEFINE M == Cardinality(Node)
           L == Len(Chain)
           x == [next |-> mem.next, ppPrev |-> ListHead, pp |-> (mem.next)[ListHead]]
           f == [st \in Sortings |-> SortStep(st)]
           P(h) == h = [n \in 0 .. M |-> IF n = 0 THEN x ELSE SortStep(h[n - 1])]
<1>1. /\ mem \in Memory /\ M \in Nat /\ L \in Nat /\ L <= M /\ 0 < L
      /\ Chain \in Seq(Node) /\ Links(mem.next, Chain)
  BY InvFacts, Sizes, ShortSeq, ListAssumption
<1>2. f \in [Sortings -> Sortings] /\ \A st \in Sortings : f[st] = SortStep(st)
  BY SortStepTyped
<1>3. \E s, o : Sorting(x, 1, s, o)
  BY SortStart
<1>4. x \in Sortings
  <2>1. (mem.next)[ListHead] = Chain[1]
    <3>1. (mem.next)[AddrAt(Chain, 0)] = NodeAt(Chain, 0 + 1)
      BY <1>1 DEF Links
    <3> QED
      BY <1>1, <3>1 DEF AddrAt, NodeAt
  <2>2. (mem.next)[ListHead] \in Addr /\ ListHead \in Addr /\ mem.next \in Pointers
    BY <1>1, <2>1 DEF Addr, Memory, Pointers
  <2>3. x \in SortState
    BY <2>2 DEF SortState
  <2> HIDE DEF x
  <2> QED
    BY <1>3, <2>3 DEF Sortings
<1> HIDE DEF f, M, x, L
<1>5. PICK g : Rounds(g, Sortings, f, x, M)
  BY <1>1, <1>2, <1>4, RoundsExist, Zenon
<1>6. P(g)
  <2>1. g \in [0 .. M -> Sortings] /\ g[0] = x
    BY <1>5 DEF Rounds
  <2>2. \A n \in 1 .. M : g[n] = SortStep(g[n - 1])
    BY <1>1, <1>2, <1>5, <2>1 DEF Rounds
  <2> QED
    BY <1>1, <2>1, <2>2
<1> DEFINE h == CHOOSE h : P(h)
<1>7. P(h)
  BY <1>6
<1>8. SortLoop(mem) = h[M]
  BY DEF SortLoop, M, x
<1> HIDE DEF h
<1>9. h[0] = x /\ \A n \in 1 .. M : h[n] = SortStep(h[n - 1])
  BY <1>1, <1>7
<1> DEFINE Put(n) == IF n < L THEN n + 1 ELSE L
           T == {n \in Nat : n <= M => h[n] \in Sortings /\ \E s, o : Sorting(h[n], Put(n), s, o)}
<1>10. 0 \in T
  BY <1>1, <1>3, <1>4, <1>9
<1>11. ASSUME NEW n \in T PROVE n + 1 \in T
  <2> SUFFICES ASSUME n + 1 <= M
               PROVE  h[n + 1] \in Sortings /\ \E s, o : Sorting(h[n + 1], Put(n + 1), s, o)
    OBVIOUS
  <2>1. n \in Nat /\ n <= M /\ n + 1 \in 1 .. M /\ (n + 1) - 1 = n
    BY <1>1
  <2>2. h[n] \in Sortings /\ \E s, o : Sorting(h[n], Put(n), s, o)
    BY <2>1
  <2>3. h[n + 1] = SortStep(h[n])
    BY <1>9, <2>1
  <2>4. Put(n + 1) = IF Put(n) < Len(Chain) THEN Put(n) + 1 ELSE Put(n)
    BY <1>1, <2>1 DEF L
  <2> HIDE DEF Put
  <2> QED
    BY <2>2, <2>3, <2>4, SortStepTyped
<1> HIDE DEF T
<1>12. T = Nat
  <2>1. T \subseteq Nat
    BY DEF T
  <2> QED
    BY <1>10, <1>11, <2>1, Induct
<1>13. \E s, o : Sorting(h[M], Put(M), s, o)
  BY <1>1, <1>12 DEF T
<1>14. Put(M) = L
  BY <1>1
<1> QED
  BY <1>8, <1>13, <1>14 DEF L

LEMMA SortHolds ==
  ASSUME ListInv, Len(Chain) > 0, NEW s, NEW o, Sorting(SortLoop(mem), Len(Chain), s, o)
  PROVE  /\ Sorted(mem) \in Memory /\ Sorted(mem).data = mem.data
         /\ Holds(Sorted(mem), s, Cursors, {})
         /\ Range(s) = Range(Chain)
<1> DEFINE last == SortLoop(mem)
           m == Sorted(mem)
           L == Len(Chain)
<1>1. /\ mem \in Memory /\ mem.count = L /\ Chain \in Seq(Node) /\ L \in Nat
  BY InvFacts
<1>2. /\ last.next \in Pointers /\ Links(last.next, s) /\ last.pp = AddrAt(s, L) /\ Len(s) = L
      /\ s \in Seq(Node) /\ IsInjective(s)
      /\ Order(o, L) /\ \A j \in 1 .. L : s[j] = Chain[o[j]]
  BY DEF Sorting, Links
<1>3. last.pp \in Addr
  <2>1. L \in 0 .. Len(s)
    BY <1>1, <1>2
  <2> HIDE DEF last
  <2> QED
    BY <1>2, <2>1, Places
<1>4. m = [mem EXCEPT !.next = last.next, !.tail = last.pp]
  BY DEF Sorted
<1> HIDE DEF last, m
<1>5. /\ m \in Memory /\ m.next = last.next /\ m.tail = last.pp /\ m.count = mem.count
      /\ m.data = mem.data
  BY <1>1, <1>2, <1>3, <1>4 DEF Memory, Pointers
<1>6. Holds(m, s, Cursors, {})
  BY <1>1, <1>2, <1>5 DEF Holds
<1>7. \A x : x \in Range(s) <=> x \in Range(Chain)
  <2>1. \A j \in 1 .. L : o[j] \in 1 .. L
    BY <1>1, <1>2, OrderFacts
  <2>2. \A n \in 1 .. L : \E j \in 1 .. L : o[j] = n
    BY <1>2 DEF Order
  <2>3. \A x : x \in Range(s) <=> \E j \in 1 .. L : s[j] = x
    BY <1>2, RangeIs
  <2>4. \A x : x \in Range(Chain) <=> \E j \in 1 .. L : Chain[j] = x
    BY <1>1, RangeIs
  <2>5. \A j \in 1 .. L : s[j] = Chain[o[j]]
    BY <1>2
  <2> HIDE DEF L
  <2> QED
    BY ONLY <2>1, <2>2, <2>3, <2>4, <2>5
<1> QED
  BY <1>5, <1>6, <1>7 DEF m

LEMMA SortKeeps ==
  ASSUME ListInv, NEW s, NEW o, Order(o, Len(Items)), \A j \in 1 .. Len(Items) : s[j] = Chain[o[j]],
         \A a, b \in 1 .. Len(Items) : a < b => Under(o[a], o[b]), Len(s) = Len(Items)
  PROVE  \E q \in [DOMAIN Items -> DOMAIN Items] :
           /\ Abstract!IsInjective(q)
           /\ \A a, b \in DOMAIN Items : a < b =>
                \/ Key[Items[q[a]]] < Key[Items[q[b]]]
                \/ Key[Items[q[a]]] = Key[Items[q[b]]] /\ q[a] < q[b]
           /\ Mapped(s, mem.data) = [n \in DOMAIN Items |-> Items[q[n]]]
<1> DEFINE L == Len(Items)
<1>1. /\ L \in Nat /\ DOMAIN Items = 1 .. L /\ L = Len(Chain)
      /\ \A j \in 1 .. L : Items[j] = mem.data[Chain[j]]
  BY InvFacts, ItemsFacts
<1> HIDE DEF L
<1>2. /\ Order(o, L) /\ \A j \in 1 .. L : s[j] = Chain[o[j]]
      /\ \A a, b \in 1 .. L : a < b => Under(o[a], o[b])
      /\ Len(s) = L
  BY DEF L
<1>3. /\ o \in Seq(1 .. L) /\ Len(o) = L /\ \A j \in 1 .. L : o[j] \in 1 .. L
      /\ \A i, j \in 1 .. L : o[i] = o[j] => i = j
  BY <1>1, <1>2, OrderFacts
<1>4. o \in [1 .. L -> 1 .. L]
  <2> DEFINE S == 1 .. L
  <2>1. o \in Seq(S) /\ Len(o) = L
    BY <1>3
  <2> HIDE DEF S
  <2>2. o \in [1 .. L -> S]
    BY <2>1
  <2> QED
    BY <2>2 DEF S
<1>5. Abstract!IsInjective(o)
  BY <1>3, <1>4 DEF Abstract!IsInjective
<1>6. \A a, b \in 1 .. L : a < b => \/ Key[Items[o[a]]] < Key[Items[o[b]]]
                                    \/ Key[Items[o[a]]] = Key[Items[o[b]]] /\ o[a] < o[b]
  <2>1. \A j \in 1 .. L : Key[Items[o[j]]] = KeyAt(o[j])
    BY <1>1, <1>3 DEF KeyAt
  <2> QED
    BY <1>2, <2>1 DEF Under
<1>7. Mapped(s, mem.data) = [n \in 1 .. L |-> Items[o[n]]]
  <2>1. \A n \in 1 .. L : mem.data[s[n]] = Items[o[n]]
    BY <1>1, <1>2, <1>3
  <2> QED
    BY <1>2, <2>1 DEF Mapped
<1> QED
  BY <1>1, <1>4, <1>5, <1>6, <1>7

LEMMA SortStepOfList ==
  ASSUME ListInv, ListSort
  PROVE  ListInv' /\ Abstract!Sort
<1> DEFINE L == Len(Items)
<1>1. /\ live /\ live' = live /\ free' = free /\ open' = open /\ ret' = ret
      /\ \/ mem.count > 1 /\ mem' = Rewind(Sorted(mem), open) /\ due' = Restarted(open)
         \/ mem.count <= 1 /\ mem' = mem /\ due' = due
  BY DEF ListSort
<1>2. /\ L = Len(Chain) /\ mem.count = L /\ L \in Nat /\ DOMAIN Items = 1 .. L
      /\ mem \in Memory /\ open \subseteq Iter /\ Chain \in Seq(Node)
      /\ Cursors \in [Iter -> Cursor] /\ (\A i \in Iter \ open : Cursors[i] = Start)
      /\ free = Node \ Range(Chain) /\ due \in [Iter -> SUBSET Node]
      /\ \A j \in 1 .. L : Chain[j] \in Node /\ mem.data[Chain[j]] \in Item
  BY InvFacts, ItemsFacts DEF ListInv
<1> HIDE DEF L
<1>3. CASE mem.count <= 1
  <2>1. mem' = mem /\ due' = due
    BY <1>1, <1>2, <1>3
  <2>2. Chain' = Chain /\ Cursors' = Cursors /\ Items' = Items
    BY <1>1, <2>1 DEF Chain, Cursors, Items
  <2>3. ListInv'
    BY <1>1, <2>1, <2>2 DEF ListInv
  <2>4. ~(L > 1)
    BY <1>2, <1>3
  <2> DEFINE o == [j \in 1 .. L |-> j]
  <2>5. o \in [DOMAIN Items -> DOMAIN Items] /\ Abstract!IsInjective(o)
    BY <1>2 DEF Abstract!IsInjective
  <2>6. \A a, b \in DOMAIN Items : ~(a < b)
    BY <1>2, <2>4
  <2>7. Items = [n \in DOMAIN Items |-> Items[o[n]]]
    <3>1. \A n \in DOMAIN Items : o[n] = n
      BY <1>2
    <3>2. Items = [n \in DOMAIN Items |-> Items[n]]
      BY ItemsFacts
    <3> HIDE DEF o
    <3> QED
      BY <3>1, <3>2
  <2> HIDE DEF o
  <2> QED
    BY <1>1, <2>2, <2>3, <2>4, <2>5, <2>6, <2>7 DEF Abstract!Sort, L
<1>4. CASE ~(mem.count <= 1)
  <2>1. /\ mem' = Rewind(Sorted(mem), open) /\ due' = Restarted(open)
        /\ L > 1 /\ Len(Chain) > 0
    BY <1>1, <1>2, <1>4
  <2>2. PICK s, o : Sorting(SortLoop(mem), Len(Chain), s, o)
    BY <2>1, SortLoopIs
  <2>3. /\ Sorted(mem) \in Memory /\ Sorted(mem).data = mem.data
        /\ Holds(Sorted(mem), s, Cursors, {}) /\ Range(s) = Range(Chain)
    BY <2>1, <2>2, SortHolds
  <2>4. /\ Order(o, L) /\ Len(s) = L /\ s \in Seq(Node)
        /\ \A j \in 1 .. L : s[j] = Chain[o[j]]
        /\ \A a, b \in 1 .. L : a < b => Under(o[a], o[b])
    BY <1>2, <2>2 DEF Sorting, Links
  <2> DEFINE cur == Rewound(Cursors, open)
             m == Sorted(mem)
  <2>5. /\ mem' \in Memory /\ (mem').data = mem.data
        /\ cur \in [Iter -> Cursor] /\ Holds(mem', s, cur, open)
    <3>1. m \in Memory /\ Holds(m, s, Cursors, {}) /\ m.data = mem.data /\ {} \in SUBSET Iter
          /\ mem' = Rewind(m, open) /\ open \in SUBSET Iter
      BY <1>2, <2>1, <2>3
    <3> HIDE DEF m, cur
    <3>2. /\ Rewind(m, open) \in Memory /\ Rewind(m, open).data = m.data
          /\ Rewound(Cursors, open) \in [Iter -> Cursor]
          /\ Holds(Rewind(m, open), s, Rewound(Cursors, open), {} \cup open)
      BY <1>2, <3>1, RewindHolds
    <3>3. {} \cup open = open
      OBVIOUS
    <3> QED
      BY <3>1, <3>2, <3>3 DEF cur
  <2>6. cur = [i \in Iter |-> Start]
    BY <1>2 DEF Rewound
  <2>7. Ahead(s, cur, open, due')
    <3>1. due' = Reset(s, due, open)
      BY <2>1, <2>3 DEF Restarted, Reset
    <3>2. Ahead(s, Cursors, {}, due)
      BY DEF Ahead
    <3>3. Ahead(s, Rewound(Cursors, open), {} \cup open, Reset(s, due, open))
      BY <1>2, <2>4, <3>2, AheadRestarted
    <3>4. {} \cup open = open
      OBVIOUS
    <3> QED
      BY <3>1, <3>3, <3>4
  <2> HIDE DEF cur, m
  <2>8. \A p \in Range(s) : (mem').data[p] \in Item
    BY <1>2, <2>3, <2>5, RangeIs
  <2>9. due' \in [Iter -> SUBSET Node]
    BY <1>2, <2>1 DEF Restarted, Range
  <2>10. /\ open' \subseteq Iter /\ live' \in BOOLEAN /\ live' = TRUE
         /\ free' = Node \ Range(s) /\ \A i \in Iter \ open' : cur[i] = Start
    BY <1>1, <1>2, <2>3, <2>6
  <2>11. ListInv' /\ Chain' = s /\ Cursors' = cur
    BY <1>1, <2>5, <2>7, <2>8, <2>9, <2>10, InvStep
  <2>12. Items' = Mapped(s, mem.data)
    <3>1. DOMAIN s = 1 .. Len(s)
      BY <2>4
    <3> QED
      BY <2>5, <2>11, <3>1 DEF Items, Mapped
  <2>13. \E q \in [DOMAIN Items -> DOMAIN Items] :
           /\ Abstract!IsInjective(q)
           /\ \A a, b \in DOMAIN Items : a < b =>
                \/ Key[Items[q[a]]] < Key[Items[q[b]]]
                \/ Key[Items[q[a]]] = Key[Items[q[b]]] /\ q[a] < q[b]
           /\ Items' = [n \in DOMAIN Items |-> Items[q[n]]]
    BY <2>4, <2>12, SortKeeps DEF L
  <2>14. Cursors' = IF Len(Items) > 1 THEN [i \in Iter |-> Abstract!Start] ELSE Cursors
    BY <2>1, <2>6, <2>11, StartIs DEF L
  <2> QED
    BY <1>1, <2>11, <2>13, <2>14 DEF Abstract!Sort
<1> QED
  BY <1>3, <1>4

-----------------------------------------------------------------------------
(* Every step, and the theorems.                                           *)

LEMMA EachStep ==
  ASSUME ListInv, [Next]_vars
  PROVE  ListInv' /\ [Abstract!Next]_(Abstract!vars)
<1>1. Fresh \subseteq Item
  BY DEF Fresh
<1>2. CASE ListCreate
  BY <1>2, CreateStep DEF Abstract!Next
<1>3. CASE ListDestroy
  BY <1>3, DestroyStep DEF Abstract!Next
<1>4. ASSUME NEW x \in Fresh, ListPrepend(x) PROVE ListInv' /\ Abstract!Next
  BY <1>1, <1>4, PrependStep DEF Abstract!Next
<1>5. ASSUME NEW x \in Fresh, ListAppend(x) PROVE ListInv' /\ Abstract!Next
  BY <1>1, <1>5, AppendStep DEF Abstract!Next
<1>6. CASE ListPop
  BY <1>6, PopStep DEF Abstract!Next
<1>7. ASSUME NEW k \in Keys, ListDeleteAll(k) PROVE ListInv' /\ Abstract!Next
  BY <1>7, DeleteAllStep DEF Abstract!Next
<1>8. CASE ListSort
  BY <1>8, SortStepOfList DEF Abstract!Next
<1>9. CASE Look
  BY <1>9, LookStep DEF Abstract!Next
<1>10. CASE ListIteratorCreate
  BY <1>10, IteratorCreateStep DEF Abstract!Next
<1>11. ASSUME NEW i \in Iter, ListIteratorReset(i) PROVE ListInv' /\ Abstract!Next
  BY <1>11, IteratorResetStep DEF Abstract!Next
<1>12. ASSUME NEW i \in Iter, ListIteratorDestroy(i) PROVE ListInv' /\ Abstract!Next
  BY <1>12, IteratorDestroyStep DEF Abstract!Next
<1>13. ASSUME NEW i \in Iter, ListNext(i) PROVE ListInv' /\ Abstract!Next
  BY <1>13, NextStep DEF Abstract!Next
<1>14. ASSUME NEW i \in Iter, ListRemove(i) PROVE ListInv' /\ Abstract!Next
  BY <1>14, RemoveHereStep DEF Abstract!Next
<1>15. ASSUME NEW i \in Iter, NEW x \in Fresh, ListInsert(i, x) PROVE ListInv' /\ Abstract!Next
  BY <1>1, <1>15, InsertHereStep DEF Abstract!Next
<1>16. CASE UNCHANGED vars
  <2>1. UNCHANGED <<live, mem, free, open, ret, due>>
    BY <1>16 DEF vars
  <2>2. Chain' = Chain /\ Cursors' = Cursors /\ Items' = Items
    BY <2>1 DEF Chain, Cursors, Items
  <2>3. ListInv'
    BY <2>1, <2>2 DEF ListInv
  <2>4. UNCHANGED Abstract!vars
    BY <2>1, <2>2 DEF Abstract!vars
  <2> QED
    BY <2>3, <2>4
<1> QED
  BY <1>2, <1>3, <1>4, <1>5, <1>6, <1>7, <1>8, <1>9, <1>10, <1>11, <1>12, <1>13, <1>14, <1>15, <1>16
     DEF Next

LEMMA InvShape ==
  ASSUME ListInv
  PROVE  Shape
<1> DEFINE L == Len(Chain)
<1>1. /\ mem \in Memory /\ open \subseteq Iter /\ Chain \in Seq(Node) /\ IsInjective(Chain)
      /\ L \in Nat /\ Links(mem.next, Chain) /\ mem.count = L /\ mem.tail = AddrAt(Chain, L)
      /\ free = Node \ Range(Chain) /\ Range(Chain) \subseteq Node
      /\ \A i \in open : AtCursor(mem, Chain, Cursors[i].next, Cursors[i].cur, i)
      /\ Cursors \in [Iter -> Cursor]
  BY InvFacts
<1>2. Range(Chain) = Node \ free
  BY <1>1
<1>3. mem.tail = IF Chain = <<>> THEN ListHead ELSE Last(Chain)
  BY <1>1 DEF AddrAt, Last
<1>4. \A j \in 0 .. L : (mem.next)[AddrAt(Chain, j)] = NodeAt(Chain, j + 1)
  BY <1>1 DEF Links
<1>5. (mem.next)[mem.tail] = Null
  BY <1>1, <1>4 DEF NodeAt
<1>6. /\ \A j \in 0 .. L : AddrAt(Chain, j) \in {ListHead} \cup Range(Chain)
      /\ \A j \in 1 .. L + 1 : NodeAt(Chain, j) \in {Null} \cup Range(Chain)
      /\ \A j \in 1 .. L : AddrAt(Chain, j) = Chain[j] /\ NodeAt(Chain, j) = Chain[j] /\ Chain[j] # Null
  <2>1. \A j \in 1 .. L : Chain[j] \in Range(Chain) /\ Chain[j] # Null
    BY <1>1, RangeIs, ListAssumption
  <2> QED
    BY <1>1, <2>1 DEF AddrAt, NodeAt
<1>7. ASSUME NEW i \in open
      PROVE  /\ mem.prev[i] \in {ListHead} \cup (Node \ free)
             /\ mem.pos[i] \in {Null} \cup (Node \ free)
             /\ \/ mem.pos[i] = (mem.next)[mem.prev[i]]
                \/ /\ (mem.next)[mem.prev[i]] # Null
                   /\ mem.pos[i] = (mem.next)[(mem.next)[mem.prev[i]]]
  <2> DEFINE n == Cursors[i].next
             b == Cursors[i].cur
  <2>1. /\ n \in 1 .. L + 1 /\ (b => n > 1) /\ b \in BOOLEAN
        /\ mem.prev[i] = AddrAt(Chain, n - (IF b THEN 2 ELSE 1)) /\ mem.pos[i] = NodeAt(Chain, n)
    BY <1>1 DEF AtCursor, Cursor
  <2> HIDE DEF n, b, L
  <2>2. n - (IF b THEN 2 ELSE 1) \in 0 .. L
    BY <1>1, <2>1
  <2>3. mem.prev[i] \in {ListHead} \cup (Node \ free) /\ mem.pos[i] \in {Null} \cup (Node \ free)
    BY <1>2, <1>6, <2>1, <2>2
  <2>4. CASE ~b
    <3>1. n - 1 \in 0 .. L /\ (n - 1) + 1 = n /\ mem.prev[i] = AddrAt(Chain, n - 1)
      BY <2>1, <2>2, <2>4
    <3>2. (mem.next)[mem.prev[i]] = NodeAt(Chain, n)
      BY <1>4, <3>1
    <3> QED
      BY <2>1, <2>3, <3>2
  <2>5. CASE b
    <3>1. /\ n - 2 \in 0 .. L /\ (n - 2) + 1 = n - 1 /\ mem.prev[i] = AddrAt(Chain, n - 2)
          /\ n - 1 \in 1 .. L /\ n - 1 \in 0 .. L /\ (n - 1) + 1 = n
      BY <1>1, <2>1, <2>2, <2>5
    <3>2. (mem.next)[mem.prev[i]] = Chain[n - 1] /\ Chain[n - 1] # Null
      BY <1>4, <1>6, <3>1
    <3>3. (mem.next)[Chain[n - 1]] = NodeAt(Chain, n)
      BY <1>4, <1>6, <3>1
    <3> QED
      BY <2>1, <2>3, <3>2, <3>3
  <2> QED
    BY <2>1, <2>4, <2>5
<1> QED
  BY <1>1, <1>2, <1>3, <1>5, <1>7 DEF Shape

LEMMA InvVisits ==
  ASSUME ListInv
  PROVE  VisitsAll
<1>1. SUFFICES ASSUME NEW i \in open, NEW p \in due[i]
               PROVE  p \in Range(Chain) /\ IndexOf(Chain, p) >= IndexOf(Chain, mem.pos[i])
  BY DEF VisitsAll
<1>2. /\ Chain \in Seq(Node) /\ IsInjective(Chain) /\ Len(Chain) \in Nat
      /\ Cursors[i].next \in 1 .. Len(Chain) + 1 /\ mem.pos[i] = NodeAt(Chain, Cursors[i].next)
  BY InvFacts DEF AtCursor
<1>3. PICK k \in Cursors[i].next .. Len(Chain) : Chain[k] = p
  BY DEF ListInv
<1>4. k \in 1 .. Len(Chain) /\ k \in 1 .. Len(Chain) + 1 /\ NodeAt(Chain, k) = p /\ Cursors[i].next <= k
  BY <1>2, <1>3 DEF NodeAt
<1>5. IndexOf(Chain, p) = k
  BY <1>2, <1>4, IndexIs
<1>6. IndexOf(Chain, mem.pos[i]) = Cursors[i].next
  BY <1>2, IndexIs
<1>7. p \in Range(Chain)
  BY <1>2, <1>3, <1>4, RangeIs
<1> QED
  BY <1>2, <1>4, <1>5, <1>6, <1>7

\* The pointers always lead through distinct nodes, the iterators stand at
\* them, and what an iterator has not returned yet is still before it: the
\* inductive invariant of list.c.
THEOREM ListInvAlways == Spec => []ListInv
<1>1. Init => ListInv
  BY InitInv
<1>2. ListInv /\ [Next]_vars => ListInv'
  BY EachStep
<1> QED
  BY <1>1, <1>2, PTL DEF Spec

\* What list_node_create and list_node_destroy assert of every iterator holds
\* in every call; tail and count agree with the chain and no pointer leads to
\* a freed node.
THEOREM ShapeAlways == Spec => []Shape
<1>1. ListInv => Shape
  BY InvShape
<1> QED
  BY <1>1, ListInvAlways, PTL

\* A loop over list_next misses no node that was there when it began and still
\* is, whatever list_insert, list_remove, list_delete_all and other iterators
\* do meanwhile.
THEOREM VisitsAllAlways == Spec => []VisitsAll
<1>1. ListInv => VisitsAll
  BY InvVisits
<1> QED
  BY <1>1, ListInvAlways, PTL

\* The linked nodes of list.c with their iterators implement a sequence with
\* cursors: every call returns and leaves what ListSpec says.
THEOREM ListImplements == Spec => Implements
<1>1. Init => Abstract!Init
  BY InitInv
<1>2. ListInv /\ [Next]_vars => [Abstract!Next]_(Abstract!vars)
  BY EachStep
<1> QED
  BY <1>1, <1>2, ListInvAlways, PTL DEF Spec, Implements, Abstract!Spec

=============================================================================
