---------------------------- MODULE NodemapProofs ----------------------------
(***************************************************************************)
(* Proof that nodemap_allocate takes exactly the CPUs it is asked for, out *)
(* of those that are free (Conserved), for every machine whose nodes have  *)
(* CPUs numbered without gaps, every cpuset, policy and request.           *)
(*                                                                         *)
(* The argument: the two masks of used CPUs agree (MasksAgree), so that a  *)
(* node has as many CPUs to give as it says and node_allocate_n takes as   *)
(* many as it counts. Sorting loses no node. Therefore do_allocation,      *)
(* which visits all of them, ends with nothing left.                       *)
(*                                                                         *)
(* That the list is sorted by free CPUs gives what the fits promise: best- *)
(* fit opens a node only when all fuller ones are empty (BestFitPacks),    *)
(* and worst-fit, which takes one CPU from a node that has most and sorts  *)
(* again, leaves the nodes even (WorstFitSpreads).                         *)
(***************************************************************************)
EXTENDS Nodemap, Ranks

-----------------------------------------------------------------------------
(* CPUs of a node.                                                         *)

\* node_cpu_to_global numbers the node's CPUs.
LEMMA NodeCpus ==
  ASSUME Contiguous, NEW n \in Nodes
  PROVE  /\ IsFiniteSet(LocalCpus[n]) /\ LocalCpus[n] \subseteq CPU /\ LocalCpus[n] # {}
         /\ NodeNcpus(n) \in Nat \ {0}
         /\ \A i \in Local(n) : i \in Nat /\ NodeCpuToGlobal(n, i) \in LocalCpus[n]
         /\ \A i, j \in Local(n) : NodeCpuToGlobal(n, i) = NodeCpuToGlobal(n, j) => i = j
         /\ \A c \in LocalCpus[n] : \E i \in Local(n) : NodeCpuToGlobal(n, i) = c
         /\ IsFiniteSet(Local(n)) /\ Cardinality(Local(n)) = NodeNcpus(n)
<1>1. LocalCpus[n] \in SUBSET CPU /\ LocalCpus[n] # {} /\ IsFiniteSet(CPU)
  BY NodemapAssumption
<1>2. IsFiniteSet(LocalCpus[n])
  BY <1>1, FS_Subset
<1>3. NodeNcpus(n) \in Nat \ {0}
  BY <1>1, <1>2, FS_CardinalityType, FS_EmptySet DEF NodeNcpus
<1>4. PICK a \in Nat : LocalCpus[n] = a .. a + NodeNcpus(n) - 1
  BY NodemapAssumption DEF Contiguous
<1>5. Min(LocalCpus[n]) = a
  <2>1. a \in LocalCpus[n] /\ \A c \in LocalCpus[n] : a <= c /\ c \in Int
    BY <1>3, <1>4
  <2>2. \A x \in LocalCpus[n] : (\A y \in LocalCpus[n] : x <= y) => x = a
    BY <2>1
  <2> QED
    BY <2>1, <2>2 DEF Min
<1>6. /\ \A i \in Local(n) : i \in Nat /\ NodeCpuToGlobal(n, i) \in LocalCpus[n]
      /\ \A i, j \in Local(n) : NodeCpuToGlobal(n, i) = NodeCpuToGlobal(n, j) => i = j
  BY <1>3, <1>4, <1>5 DEF Local, NodeCpuToGlobal
<1>7. ASSUME NEW c \in LocalCpus[n]
      PROVE  \E i \in Local(n) : NodeCpuToGlobal(n, i) = c
  <2>1. c - a \in Local(n) /\ NodeCpuToGlobal(n, c - a) = c
    BY <1>3, <1>4, <1>5 DEF Local, NodeCpuToGlobal
  <2> QED
    BY <2>1
<1>8. IsFiniteSet(Local(n)) /\ Cardinality(Local(n)) = NodeNcpus(n)
  <2>1. NodeNcpus(n) - 1 \in Int /\ 0 \in Int /\ ~(0 > NodeNcpus(n) - 1)
    BY <1>3
  <2>2. IsFiniteSet(Local(n)) /\ Cardinality(Local(n)) = (NodeNcpus(n) - 1) - 0 + 1
    BY ONLY <2>1, FS_Interval DEF Local
  <2> QED
    BY <1>3, <2>2
<1> QED
  BY <1>1, <1>2, <1>3, <1>6, <1>7, <1>8

\* A node's navail is the number of CPUs that node_allocate_cpu would hand out.
LEMMA AvailRight ==
  ASSUME Contiguous, NodemapInv, phase # "create", NEW n \in Nodes
  PROVE  /\ IsFiniteSet(Allocatable(n)) /\ Cardinality(Allocatable(n)) = Navail(n)
         /\ Navail(n) \in Nat /\ Allocatable(n) \subseteq Local(n)
<1>1. nodeused[n] = {i \in Local(n) : NodeCpuToGlobal(n, i) \in usedcpus}
  BY DEF NodemapInv, MasksAgree
<1>2. Allocatable(n) = Local(n) \ nodeused[n] /\ nodeused[n] \in SUBSET Local(n)
  BY <1>1 DEF Allocatable
<1>3. IsFiniteSet(Local(n)) /\ Cardinality(Local(n)) = NodeNcpus(n)
  BY NodeCpus
<1>4. IsFiniteSet(nodeused[n]) /\ IsFiniteSet(Allocatable(n))
  BY <1>2, <1>3, FS_Subset
<1>5. Cardinality(nodeused[n]) \in Nat /\ Cardinality(Allocatable(n)) \in Nat
      /\ NodeNcpus(n) \in Nat
  BY <1>3, <1>4, FS_CardinalityType
<1>6. Local(n) = nodeused[n] \cup Allocatable(n) /\ nodeused[n] \cap Allocatable(n) = {}
  BY <1>2
<1>7. NodeNcpus(n) = Cardinality(nodeused[n]) + Cardinality(Allocatable(n)) - 0
  BY <1>3, <1>4, <1>6, FS_Union, FS_EmptySet
<1> QED
  BY <1>2, <1>4, <1>5, <1>7 DEF Navail

\* node_allocate_n takes CPUs that are free, no more than are left to allocate;
\* without a count, all the node has or all that are left.
LEMMA NodeTakes ==
  ASSUME Contiguous, NodemapInv, phase \notin Early, nleft >= 0,
         NEW n \in Nodes, NEW count \in Int, NodeAllocateN(n, count)
  PROVE  \E take \in SUBSET Allocatable(n) :
           LET globals == {NodeCpuToGlobal(n, i) : i \in take} IN
           /\ nodeused' = [nodeused EXCEPT ![n] = @ \cup take]
           /\ usedcpus' = usedcpus \cup globals
           /\ allocated' = allocated \cup globals
           /\ nleft' = nleft - Cardinality(take)
           /\ Cardinality(take) \in 0 .. nleft
           /\ count < 0 => Cardinality(take) = nleft \/ take = Allocatable(n)
           /\ count >= 0 => Cardinality(take) <= count
           /\ nleft >= Navail(n) /\ count >= Navail(n) => take = Allocatable(n)
<1> DEFINE free == Allocatable(n)
           R == {q \in free \X free : IF conf.reverse THEN q[1] > q[2] ELSE q[1] < q[2]}
           wanted == IF count < 0 THEN Navail(n) ELSE count
           want == IF nleft <= wanted THEN nleft ELSE wanted
           take == {i \in free : RankOf(free, R, i) < want}
<1>0. phase # "create" /\ nleft \in Nat
  BY DEF Early, NodemapInv, NodemapTypeOK
<1>1. /\ IsFiniteSet(free) /\ Cardinality(free) = Navail(n) /\ Navail(n) \in Nat
      /\ \A i \in free : i \in Nat
  BY <1>0, AvailRight, NodeCpus
<1>2. Min({nleft, wanted}) = want
  <2>1. nleft \in Int /\ wanted \in Int
    BY <1>0, <1>1
  <2> HIDE DEF wanted
  <2> QED
    BY <2>1, MinOfTwo DEF Min
<1>3. \A i \in free : {k \in free : IF conf.reverse THEN k > i ELSE k < i}
                        = {k \in free : <<k, i>> \in R}
  OBVIOUS
<1>4. /\ nodeused' = [nodeused EXCEPT ![n] = @ \cup take]
      /\ usedcpus' = usedcpus \cup {NodeCpuToGlobal(n, i) : i \in take}
      /\ allocated' = allocated \cup {NodeCpuToGlobal(n, i) : i \in take}
      /\ nleft' = nleft - Cardinality(take)
  <2> DEFINE Earlier(i) == {k \in free : IF conf.reverse THEN k > i ELSE k < i}
             taken == {i \in free : Cardinality(Earlier(i)) < Min({nleft, wanted})}
  <2>1. taken = take
    BY <1>2, <1>3 DEF RankOf
  <2>2. /\ nodeused' = [nodeused EXCEPT ![n] = @ \cup taken]
        /\ usedcpus' = usedcpus \cup {NodeCpuToGlobal(n, i) : i \in taken}
        /\ allocated' = allocated \cup {NodeCpuToGlobal(n, i) : i \in taken}
        /\ nleft' = nleft - Cardinality(taken)
    BY DEF NodeAllocateN
  <2> HIDE DEF taken, take
  <2> QED
    BY <2>1, <2>2
<1>5. StrictOrder(free, R)
  BY <1>1 DEF StrictOrder
<1> HIDE DEF R, free
<1>6. want \in Nat /\ want <= nleft
  BY <1>0, <1>1
<1>6a. count >= 0 => want <= count
  BY <1>0, <1>1
<1>7. /\ Cardinality(take) \in 0 .. nleft /\ (count < 0 => Cardinality(take) = nleft \/ take = free)
      /\ count >= 0 => Cardinality(take) <= count
      /\ nleft >= Navail(n) /\ count >= Navail(n) => take = free
  <2>0. nleft >= Navail(n) /\ count >= Navail(n) => want >= Cardinality(free)
    BY <1>0, <1>1
  <2>1. CASE want <= Cardinality(free)
    <3>1. Cardinality(take) = want
      BY <1>1, <1>5, <1>6, <2>1, FirstN
    <3>2. take \in SUBSET free
      OBVIOUS
    <3>3. count < 0 /\ want # nleft => Cardinality(take) = Cardinality(free)
      BY <1>0, <1>1, <3>1
    <3> HIDE DEF take, want
    <3>4. count < 0 /\ want # nleft => take = free
      BY <1>1, <3>2, <3>3, FS_Subset
    <3>5. Cardinality(take) = Cardinality(free) => take = free
      BY <1>1, <3>2, FS_Subset
    <3>6. nleft >= Navail(n) /\ count >= Navail(n) => take = free
      BY <1>1, <1>6, <2>0, <2>1, <3>1, <3>5
    <3> QED
      BY <1>0, <1>6, <1>6a, <3>1, <3>4, <3>6
  <2>2. CASE want > Cardinality(free)
    <3>1. \A i \in free : RankOf(free, R, i) < want
      BY <1>1, <1>5, <1>6, <2>2, RankBounds
    <3>2. take = free
      BY <3>1
    <3> HIDE DEF take, want
    <3> QED
      BY <1>0, <1>1, <1>6, <1>6a, <2>2, <3>2
  <2> QED
    BY <1>1, <1>6, <2>1, <2>2
<1>8. take \in SUBSET free
  OBVIOUS
<1> HIDE DEF take
<1> QED
  BY <1>4, <1>7, <1>8, Zenon DEF free

\* What a call of node_allocate_n keeps: no CPU is counted twice or lost.
LEMMA TakeKeeps ==
  ASSUME Contiguous, NodemapInv, phase \notin Early, nleft >= 0,
         NEW n \in Nodes, NEW count \in Int, NodeAllocateN(n, count)
  PROVE  /\ usedcpus' = before \cup allocated' /\ allocated' \subseteq cpus \ before
         /\ usedcpus \subseteq usedcpus' /\ usedcpus' \subseteq CPU
         /\ nleft' \in Int /\ 0 <= nleft' /\ nleft' <= nleft
         /\ nleft' + Cardinality(allocated') = ncpus
         /\ nodeused' \in [Nodes -> SUBSET Nat]
         /\ \A m \in Nodes : nodeused'[m] = {i \in Local(m) : NodeCpuToGlobal(m, i) \in usedcpus'}
         /\ count < 0 => nleft' = 0 \/ LocalCpus[n] \subseteq usedcpus'
         /\ \E given \in SUBSET (LocalCpus[n] \ usedcpus) :
              /\ usedcpus' = usedcpus \cup given /\ allocated' = allocated \cup given
              /\ IsFiniteSet(given) /\ Cardinality(given) \in 0 .. nleft
              /\ count >= 0 => Cardinality(given) <= count
         /\ nleft >= Navail(n) /\ count >= Navail(n) => LocalCpus[n] \subseteq usedcpus'
<1>1. PICK take \in SUBSET Allocatable(n) :
        /\ nodeused' = [nodeused EXCEPT ![n] = @ \cup take]
        /\ usedcpus' = usedcpus \cup {NodeCpuToGlobal(n, i) : i \in take}
        /\ allocated' = allocated \cup {NodeCpuToGlobal(n, i) : i \in take}
        /\ nleft' = nleft - Cardinality(take)
        /\ Cardinality(take) \in 0 .. nleft
        /\ count < 0 => Cardinality(take) = nleft \/ take = Allocatable(n)
        /\ count >= 0 => Cardinality(take) <= count
        /\ nleft >= Navail(n) /\ count >= Navail(n) => take = Allocatable(n)
  BY NodeTakes
<1> DEFINE globals == {NodeCpuToGlobal(n, i) : i \in take}
<1>2. /\ phase # "create" /\ nleft \in Nat /\ usedcpus = before \cup allocated
      /\ allocated \subseteq cpus \ before /\ nleft + Cardinality(allocated) = ncpus
      /\ cpus \subseteq CPU /\ before \subseteq CPU /\ CPU \ cpus \subseteq before
      /\ \A m \in Nodes : nodeused[m] = {i \in Local(m) : NodeCpuToGlobal(m, i) \in usedcpus}
      /\ nodeused \in [Nodes -> SUBSET Nat]
  BY DEF Early, NodemapInv, NodemapTypeOK, LeftOK, MasksAgree
<1>3. /\ take \subseteq Local(n) /\ IsFiniteSet(take)
      /\ \A i \in take : i \in Nat /\ NodeCpuToGlobal(n, i) \in LocalCpus[n] \ usedcpus
  <2>1. take \subseteq Local(n) /\ IsFiniteSet(Allocatable(n))
    BY <1>2, AvailRight
  <2> QED
    BY <2>1, NodeCpus, FS_Subset DEF Allocatable
<1>4. /\ globals \subseteq LocalCpus[n] /\ globals \subseteq CPU /\ globals \cap usedcpus = {}
      /\ globals \subseteq cpus \ before
  BY <1>2, <1>3, NodeCpus
<1>5. IsFiniteSet(globals) /\ Cardinality(globals) = Cardinality(take)
  <2> DEFINE f == [i \in take |-> NodeCpuToGlobal(n, i)]
  <2>1. f \in [take -> globals] /\ \A g \in globals : \E i \in take : f[i] = g
    OBVIOUS
  <2>2. \A i, j \in take : f[i] = f[j] => i = j
    BY <1>3, NodeCpus
  <2> HIDE DEF f, globals
  <2> QED
    BY <1>3, <2>1, <2>2, SameSize
<1>6. Cardinality(allocated') = Cardinality(allocated) + Cardinality(take)
      /\ Cardinality(allocated) \in Nat /\ Cardinality(take) \in Nat
  <2>0. allocated \in SUBSET CPU /\ IsFiniteSet(CPU)
    BY <1>2, NodemapAssumption
  <2>1. IsFiniteSet(allocated)
    BY <2>0, FS_Subset
  <2>2. allocated \cap globals = {}
    BY <1>2, <1>4
  <2> HIDE DEF globals
  <2>3. Cardinality(allocated \cup globals) = Cardinality(allocated) + Cardinality(globals) - 0
    BY <1>5, <2>1, <2>2, FS_Union, FS_EmptySet
  <2>4. Cardinality(allocated) \in Nat /\ Cardinality(take) \in Nat
    BY <1>3, <2>1, FS_CardinalityType
  <2> QED
    BY <1>1, <1>5, <2>3, <2>4 DEF globals
<1>7. \A m \in Nodes : nodeused'[m] = {i \in Local(m) : NodeCpuToGlobal(m, i) \in usedcpus'}
  <2> SUFFICES ASSUME NEW m \in Nodes
               PROVE  nodeused'[m] = {i \in Local(m) : NodeCpuToGlobal(m, i) \in usedcpus'}
    OBVIOUS
  <2>1. CASE m = n
    <3>1. nodeused'[m] = nodeused[n] \cup take
      BY <1>1, <1>2, <2>1
    <3>2. \A i \in Local(n) : NodeCpuToGlobal(n, i) \in globals => i \in take
      BY <1>3, NodeCpus
    <3> QED
      BY <1>1, <1>2, <1>3, <2>1, <3>1, <3>2
  <2>2. CASE m # n
    <3>1. nodeused'[m] = nodeused[m]
      BY <1>1, <1>2, <2>2
    <3>2. \A i \in Local(m) : NodeCpuToGlobal(m, i) \notin globals
      BY <1>4, <2>2, NodeCpus, NodemapAssumption
    <3> QED
      BY <1>1, <1>2, <3>1, <3>2
  <2> QED
    BY <2>1, <2>2
<1>8. /\ count < 0 => nleft' = 0 \/ LocalCpus[n] \subseteq usedcpus'
      /\ nleft >= Navail(n) /\ count >= Navail(n) => LocalCpus[n] \subseteq usedcpus'
  <2>1. ASSUME take = Allocatable(n), NEW c \in LocalCpus[n]
        PROVE  c \in usedcpus'
    <3>1. PICK i \in Local(n) : NodeCpuToGlobal(n, i) = c
      BY NodeCpus
    <3>2. i \in take \/ c \in usedcpus
      BY <1>2, <2>1, <3>1 DEF Allocatable
    <3> QED
      BY <1>1, <3>1, <3>2
  <2>2. Cardinality(take) = nleft => nleft' = 0
    BY <1>1, <1>2
  <2> QED
    BY <1>1, <2>1, <2>2
<1>9. nodeused' \in [Nodes -> SUBSET Nat]
  BY <1>1, <1>2, <1>3
<1>10. \E given \in SUBSET (LocalCpus[n] \ usedcpus) :
         /\ usedcpus' = usedcpus \cup given /\ allocated' = allocated \cup given
         /\ IsFiniteSet(given) /\ Cardinality(given) \in 0 .. nleft
         /\ count >= 0 => Cardinality(given) <= count
  <2>1. /\ globals \in SUBSET (LocalCpus[n] \ usedcpus)
        /\ usedcpus' = usedcpus \cup globals /\ allocated' = allocated \cup globals
    BY <1>1, <1>4
  <2> HIDE DEF globals
  <2> QED
    BY <1>1, <1>5, <2>1
<1> QED
  BY <1>1, <1>2, <1>4, <1>6, <1>7, <1>8, <1>9, <1>10

-----------------------------------------------------------------------------
(* The list of nodes.                                                      *)

\* list_sort loses no node, and sorts.
LEMMA SortKeeps ==
  ASSUME NEW list \in Seq(Nodes), NEW key \in [Nodes -> Int], NEW sorted,
         sorted = ListSort(list, key)
  PROVE  /\ sorted \in Seq(Nodes) /\ DOMAIN sorted = DOMAIN list
         /\ \A a \in DOMAIN list : \E i \in DOMAIN sorted : sorted[i] = list[a]
         /\ \A i, j \in DOMAIN sorted : i < j => key[sorted[i]] <= key[sorted[j]]
<1> DEFINE D == DOMAIN list
           R == {q \in D \X D : \/ key[list[q[1]]] < key[list[q[2]]]
                                \/ key[list[q[1]]] = key[list[q[2]]] /\ q[1] < q[2]}
           at(i) == CHOOSE a \in D : 1 + RankOf(D, R, a) = i
<1>1. D = 1 .. Len(list) /\ Len(list) \in Nat /\ \A a \in D : list[a] \in Nodes /\ a \in Int
  OBVIOUS
<1>2. IsFiniteSet(D) /\ Cardinality(D) = Len(list)
  <2>1. Len(list) \in Int /\ 1 \in Int
    BY <1>1
  <2>2. IsFiniteSet(1 .. Len(list))
        /\ Cardinality(1 .. Len(list)) = IF 1 > Len(list) THEN 0 ELSE Len(list) - 1 + 1
    BY ONLY <2>1, FS_Interval
  <2> QED
    BY <1>1, <2>2
<1>3. StrictOrder(D, R)
  <2>1. \A a \in D : key[list[a]] \in Int /\ a \in Int
    BY <1>1
  <2> QED
    BY <2>1 DEF StrictOrder
<1>4. sorted = [i \in D |-> list[at(i)]]
  <2> DEFINE Before(a, b) == \/ key[list[a]] < key[list[b]]
                             \/ key[list[a]] = key[list[b]] /\ a < b
  <2>1. \A a \in D : {b \in D : Before(b, a)} = {b \in D : <<b, a>> \in R}
    OBVIOUS
  <2>2. \A a \in D : 1 + Cardinality({b \in D : Before(b, a)}) = 1 + RankOf(D, R, a)
    BY <2>1 DEF RankOf
  <2>3. sorted = [i \in D |-> list[CHOOSE a \in D : 1 + Cardinality({b \in D : Before(b, a)}) = i]]
    BY DEF ListSort
  <2> HIDE DEF R, Before
  <2>4. \A i \in D : (CHOOSE a \in D : 1 + Cardinality({b \in D : Before(b, a)}) = i) = at(i)
    <3> TAKE i \in D
    <3>1. \A a \in D : (1 + Cardinality({b \in D : Before(b, a)}) = i) <=> (1 + RankOf(D, R, a) = i)
      BY <2>2
    <3> QED
      BY <3>1
  <2> QED
    BY <2>3, <2>4
<1> HIDE DEF R, D
<1>5. \A i \in D : at(i) \in D /\ 1 + RankOf(D, R, at(i)) = i
  <2> SUFFICES ASSUME NEW i \in D
               PROVE  \E a \in D : 1 + RankOf(D, R, a) = i
    OBVIOUS
  <2>1. i - 1 \in 0 .. Cardinality(D) - 1
    BY <1>1, <1>2
  <2>2. PICK a \in D : RankOf(D, R, a) = i - 1
    BY <1>2, <1>3, <2>1, RankBijection
  <2> QED
    BY <1>1, <2>2
<1>6. \A a \in D : \E i \in D : at(i) = a
  <2> SUFFICES ASSUME NEW a \in D
               PROVE  \E i \in D : at(i) = a
    OBVIOUS
  <2>1. RankOf(D, R, a) \in 0 .. Len(list) - 1
    BY <1>2, <1>3, RankBounds
  <2>2. 1 + RankOf(D, R, a) \in D
    BY <1>1, <2>1
  <2>3. PICK i \in D : i = 1 + RankOf(D, R, a)
    BY <2>2
  <2>4. at(i) \in D /\ 1 + RankOf(D, R, at(i)) = 1 + RankOf(D, R, a)
    BY <1>5, <2>3
  <2>5. RankOf(D, R, at(i)) \in 0 .. Len(list) - 1
    BY <1>2, <1>3, <2>4, RankBounds
  <2>6. RankOf(D, R, at(i)) = RankOf(D, R, a)
    BY <1>1, <2>1, <2>4, <2>5
  <2>7. at(i) = a
    BY <1>2, <1>3, <2>4, <2>6, RankBijection
  <2> QED
    BY <2>7
<1> HIDE DEF at
<1>7. sorted \in Seq(Nodes) /\ DOMAIN sorted = D
  BY <1>1, <1>4, <1>5
<1>8. \A i, j \in D : i < j => key[sorted[i]] <= key[sorted[j]]
  <2> SUFFICES ASSUME NEW i \in D, NEW j \in D, i < j
               PROVE  key[list[at(i)]] <= key[list[at(j)]]
    BY <1>4
  <2> DEFINE a == at(i)
             b == at(j)
  <2>1. a \in D /\ b \in D /\ 1 + RankOf(D, R, a) = i /\ 1 + RankOf(D, R, b) = j
    BY <1>5
  <2>2. RankOf(D, R, a) \in Int /\ RankOf(D, R, b) \in Int
    BY <1>2, <1>3, <2>1, RankBounds
  <2> HIDE DEF a, b
  <2>3. a # b /\ <<b, a>> \notin R
    <3>1. ~(RankOf(D, R, b) < RankOf(D, R, a)) /\ RankOf(D, R, b) # RankOf(D, R, a)
      BY <1>1, <2>1, <2>2
    <3> QED
      BY <1>2, <1>3, <2>1, <3>1, RankGrows
  <2>4. <<a, b>> \in R
    BY <1>3, <2>1, <2>3 DEF StrictOrder
  <2>5. key[list[a]] \in Int /\ key[list[b]] \in Int
    BY <1>1, <2>1
  <2>6. key[list[a]] <= key[list[b]]
    BY <2>4, <2>5 DEF R
  <2> QED
    BY <2>6 DEF a, b
<1> QED
  BY <1>4, <1>6, <1>7, <1>8 DEF D

LEMMA SeqOfNodes ==
  ASSUME NEW n \in Nat, NEW list \in [1 .. n -> Nodes]
  PROVE  list \in Seq(Nodes)
OBVIOUS

\* The list that nodemap_create builds has the nodes of the cpuset.
HighFirst(here) ==
  [i \in 1 .. Cardinality(here) |-> CHOOSE n \in here : Cardinality({m \in here : m >= n}) = i]

LEMMA CreateLists ==
  ASSUME NEW here \in SUBSET Nodes, NEW list, list = HighFirst(here)
  PROVE  list \in Seq(Nodes) /\ \A n \in here : \E i \in DOMAIN list : list[i] = n
<1> DEFINE R == {q \in here \X here : q[1] > q[2]}
           N == Cardinality(here)
           Above(n) == {m \in here : m >= n}
           at(i) == CHOOSE n \in here : Cardinality(Above(n)) = i
<1>1. IsFiniteSet(here) /\ N \in Nat /\ \A n \in here : n \in Nat
  BY NodemapAssumption, FS_Subset, FS_CardinalityType
<1>2. StrictOrder(here, R)
  BY <1>1 DEF StrictOrder
<1>3. \A n \in here : Cardinality(Above(n)) = RankOf(here, R, n) + 1
  <2> SUFFICES ASSUME NEW n \in here
               PROVE  Cardinality(Above(n)) = RankOf(here, R, n) + 1
    OBVIOUS
  <2> DEFINE B == {m \in here : <<m, n>> \in R}
  <2>1. Above(n) = B \cup {n} /\ n \notin B /\ B \in SUBSET here
    BY <1>1
  <2> HIDE DEF B, Above
  <2>2. IsFiniteSet(B)
    BY <1>1, <2>1, FS_Subset
  <2>3. Cardinality(Above(n)) = Cardinality(B) + 1
    BY <2>1, <2>2, FS_AddElement
  <2> QED
    BY <2>3 DEF B, RankOf
<1> HIDE DEF R, Above
<1>4. \A i \in 1 .. N : at(i) \in here
  <2> SUFFICES ASSUME NEW i \in 1 .. N
               PROVE  \E n \in here : Cardinality(Above(n)) = i
    OBVIOUS
  <2>1. i - 1 \in 0 .. N - 1
    BY <1>1
  <2>2. PICK n \in here : RankOf(here, R, n) = i - 1
    BY <1>1, <1>2, <2>1, RankBijection
  <2> QED
    BY <1>3, <2>2
<1>5. \A n \in here : Cardinality(Above(n)) \in 1 .. N /\ at(Cardinality(Above(n))) = n
  <2> SUFFICES ASSUME NEW n \in here
               PROVE  Cardinality(Above(n)) \in 1 .. N /\ at(Cardinality(Above(n))) = n
    OBVIOUS
  <2>1. RankOf(here, R, n) \in 0 .. N - 1
    BY <1>1, <1>2, RankBounds
  <2>2. \A m \in here : Cardinality(Above(m)) = Cardinality(Above(n)) => m = n
    <3> SUFFICES ASSUME NEW m \in here, Cardinality(Above(m)) = Cardinality(Above(n))
                 PROVE  m = n
      OBVIOUS
    <3>1. RankOf(here, R, m) \in 0 .. N - 1
      BY <1>1, <1>2, RankBounds
    <3>2. RankOf(here, R, m) = RankOf(here, R, n)
      BY <1>1, <1>3, <2>1, <3>1
    <3> QED
      BY <1>1, <1>2, <3>2, RankBijection
  <2>3. Cardinality(Above(n)) \in 1 .. N
    BY <1>1, <1>3, <2>1
  <2> QED
    BY <2>2, <2>3
<1>6. list = [i \in 1 .. N |-> at(i)]
  BY DEF Above, HighFirst
<1>7. DOMAIN list = 1 .. N /\ \A i \in 1 .. N : list[i] = at(i)
  BY <1>6, Zenon
<1> HIDE DEF at, N
<1>8. \A i \in 1 .. N : list[i] \in Nodes
  BY <1>4, <1>7
<1>9. list \in [1 .. N -> Nodes]
  BY <1>6, <1>7, <1>8
<1>10. list \in Seq(Nodes)
  BY <1>1, <1>9, SeqOfNodes
<1>11. \A n \in here : \E i \in DOMAIN list : list[i] = n
  <2> TAKE n \in here
  <2>1. Cardinality(Above(n)) \in DOMAIN list /\ list[Cardinality(Above(n))] = n
    BY <1>5, <1>7
  <2> QED
    BY <2>1
<1> QED
  BY <1>10, <1>11

-----------------------------------------------------------------------------
(* The steps of nodemap_allocate.                                          *)

LEMMA CreateInv ==
  ASSUME Contiguous, NodemapInv, NodemapCreate
  PROVE  NodemapInv'
<1> DEFINE here == {n \in Nodes : LocalCpus[n] \cap cpus # {}}
<1>0. /\ UNCHANGED <<conf, cpus, ncpus, before, pos, nleft, allocated>> /\ phase = "create"
      /\ phase' = "allocate" /\ usedcpus' = before /\ allocated = {}
      /\ nodeused' = [n \in Nodes |-> {i \in Local(n) : NodeCpuToGlobal(n, i) \in before}]
  BY DEF NodemapCreate, input, NodemapInv, LeftOK, Early
<1>1. nodelist' \in Seq(Nodes) /\ \A n \in here : \E i \in DOMAIN nodelist' : nodelist'[i] = n
  <2>1. nodelist' = HighFirst(here)
    BY DEF NodemapCreate, HighFirst
  <2>2. here \in SUBSET Nodes
    OBVIOUS
  <2> HIDE DEF here
  <2> QED
    BY <2>1, <2>2, CreateLists
<1>2. nodeused' \in [Nodes -> SUBSET Nat]
  BY <1>0, NodeCpus
<1>3. NodemapTypeOK'
  BY <1>0, <1>1, <1>2 DEF NodemapInv, NodemapTypeOK, Early
<1>4. MasksAgree'
  BY <1>0, <1>1 DEF MasksAgree
<1>5. LeftOK'
  BY <1>0 DEF LeftOK, Early
<1> QED
  BY <1>3, <1>4, <1>5 DEF NodemapInv

LEMMA AllocateInv ==
  ASSUME Contiguous, NodemapInv, NodemapAllocate
  PROVE  NodemapInv'
<1>0. /\ UNCHANGED <<conf, cpus, ncpus, before, usedcpus, nodeused, allocated>>
      /\ phase = "allocate" /\ pos' = 1 /\ usedcpus = before /\ allocated = {}
      /\ cpus \subseteq CPU /\ before \subseteq CPU /\ ncpus \in Int
  BY DEF NodemapAllocate, input, NodemapInv, LeftOK, MasksAgree, NodemapTypeOK, Early
<1>1. CASE phase' = "failed" /\ UNCHANGED <<nodelist, nleft>>
  BY <1>0, <1>1 DEF NodemapInv, NodemapTypeOK, MasksAgree, LeftOK, Early
<1>2. CASE /\ ncpus <= Cardinality(CPU \ usedcpus) /\ nleft' = ncpus
           /\ nodelist' = ListSort(nodelist, [n \in Nodes |-> IF conf.reverse THEN -n ELSE n])
           /\ phase' \in {"idle", "policy"}
  <2> DEFINE key == [n \in Nodes |-> IF conf.reverse THEN -n ELSE n]
  <2>1. key \in [Nodes -> Int] /\ nodelist \in Seq(Nodes)
    BY NodemapAssumption DEF NodemapInv, NodemapTypeOK
  <2>2. /\ nodelist' \in Seq(Nodes) /\ DOMAIN nodelist' = DOMAIN nodelist
        /\ \A a \in DOMAIN nodelist : \E i \in DOMAIN nodelist' : nodelist'[i] = nodelist[a]
    <3>1. nodelist' = ListSort(nodelist, key)
      BY <1>2
    <3> HIDE DEF key
    <3> QED
      BY <2>1, <3>1, SortKeeps
  <2>3. NodemapTypeOK'
    BY <1>0, <1>2, <2>2 DEF NodemapInv, NodemapTypeOK
  <2>4. MasksAgree'
    BY <1>0, <1>2, <2>2 DEF NodemapInv, MasksAgree
  <2>5. Cardinality({}) = 0
    BY FS_EmptySet
  <2>6. LeftOK'
    BY <1>0, <1>2, <2>5 DEF LeftOK, Early
  <2> QED
    BY <2>3, <2>4, <2>6 DEF NodemapInv
<1>3. (IF ShouldAllocateIdleNodes THEN "idle" ELSE "policy") \in {"idle", "policy"}
  OBVIOUS
<1> QED
  BY <1>1, <1>2, <1>3 DEF NodemapAllocate

\* A call of node_allocate_n in any phase but do_allocation's.
LEMMA TakeInv ==
  ASSUME Contiguous, NodemapInv, phase \in {"idle", "worst"}, nleft >= 0,
         NEW n \in Nodes, NEW count \in Int, NodeAllocateN(n, count),
         UNCHANGED <<input, phase>>, pos' \in Nat \ {0}, nodelist' \in Seq(Nodes),
         \A a \in DOMAIN nodelist : \E i \in DOMAIN nodelist' : nodelist'[i] = nodelist[a]
  PROVE  NodemapInv'
<1>1. /\ usedcpus' = before \cup allocated' /\ allocated' \subseteq cpus \ before
      /\ usedcpus \subseteq usedcpus' /\ usedcpus' \subseteq CPU
      /\ nleft' \in Int /\ 0 <= nleft' /\ nleft' <= nleft
      /\ nleft' + Cardinality(allocated') = ncpus
      /\ nodeused' \in [Nodes -> SUBSET Nat]
      /\ \A m \in Nodes : nodeused'[m] = {i \in Local(m) : NodeCpuToGlobal(m, i) \in usedcpus'}
  BY TakeKeeps DEF Early
<1>2. UNCHANGED <<conf, cpus, ncpus, before, phase>> /\ nleft \in Int
  BY DEF input, NodemapInv, NodemapTypeOK
<1>3. NodemapTypeOK'
  BY <1>1, <1>2 DEF NodemapInv, NodemapTypeOK
<1>4. MasksAgree'
  BY <1>1, <1>2 DEF NodemapInv, MasksAgree
<1>5. LeftOK'
  BY <1>1, <1>2 DEF NodemapInv, NodemapTypeOK, LeftOK, Early
<1> QED
  BY <1>3, <1>4, <1>5 DEF NodemapInv

LEMMA IdleInv ==
  ASSUME Contiguous, NodemapInv, AllocIdleNode
  PROVE  NodemapInv'
<1>1. /\ phase = "idle" /\ pos \in DOMAIN nodelist /\ nodelist[pos] \in Nodes /\ pos' \in Nat \ {0}
      /\ nodelist \in Seq(Nodes) /\ nleft > 0 /\ nleft \in Int
  BY DEF AllocIdleNode, NodemapInv, NodemapTypeOK
<1>2. CASE UNCHANGED <<usedcpus, nodeused, nleft, allocated>>
  BY <1>1, <1>2 DEF AllocIdleNode, input, NodemapInv, NodemapTypeOK, MasksAgree, LeftOK, Early
<1>3. CASE NodeAllocateN(nodelist[pos], NodeNcpus(nodelist[pos]))
  <2>1. NodeNcpus(nodelist[pos]) \in Int
    BY <1>1, NodeCpus
  <2> QED
    BY <1>1, <1>3, <2>1, TakeInv DEF AllocIdleNode
<1> QED
  BY <1>2, <1>3 DEF AllocIdleNode

LEMMA IdleDoneInv ==
  ASSUME NodemapInv, AllocIdleDone
  PROVE  NodemapInv'
BY DEF AllocIdleDone, input, NodemapInv, NodemapTypeOK, MasksAgree, LeftOK, Early

LEMMA PolicyInv ==
  ASSUME Contiguous, NodemapInv, ApplyPolicy
  PROVE  NodemapInv'
<1> DEFINE key == [n \in Nodes |-> Navail(n)]
<1>0. /\ phase = "policy" /\ pos' = 1 /\ nodelist \in Seq(Nodes) /\ nleft \in Int
      /\ UNCHANGED <<conf, cpus, ncpus, before, usedcpus, nodeused, nleft, allocated>>
      /\ phase' = IF nleft <= 0 THEN "done" ELSE IF conf.fit = "worst" THEN "worst" ELSE "each"
  BY DEF ApplyPolicy, input, NodemapInv, NodemapTypeOK
<1>1. key \in [Nodes -> Int]
  BY <1>0, AvailRight
<1>2. /\ nodelist' \in Seq(Nodes)
      /\ \A a \in DOMAIN nodelist : \E i \in DOMAIN nodelist' : nodelist'[i] = nodelist[a]
  <2>1. nodelist' = ListSort(nodelist, key) \/ nodelist' = nodelist
    BY DEF ApplyPolicy
  <2> HIDE DEF key
  <2>2. CASE nodelist' = ListSort(nodelist, key)
    BY <1>0, <1>1, <2>2, SortKeeps
  <2>3. CASE nodelist' = nodelist
    BY <1>0, <2>3
  <2> QED
    BY <2>1, <2>2, <2>3
<1>3. NodemapTypeOK'
  BY <1>0, <1>2 DEF NodemapInv, NodemapTypeOK
<1>4. MasksAgree'
  BY <1>0, <1>2 DEF NodemapInv, MasksAgree
<1>5. LeftOK'
  <2>1. \A j \in DOMAIN nodelist' : ~(j < pos')
    BY <1>0, <1>2
  <2> QED
    BY <1>0, <2>1 DEF NodemapInv, LeftOK, Early
<1> QED
  BY <1>3, <1>4, <1>5 DEF NodemapInv

\* Each node visited gives all it has, or all that are left.
LEMMA EachInv ==
  ASSUME Contiguous, NodemapInv, DoAllocation
  PROVE  NodemapInv'
<1> DEFINE n == nodelist[pos]
<1>1. /\ phase = "each" /\ phase' = "each" /\ n \in Nodes /\ pos' = pos + 1 /\ pos \in Nat \ {0}
      /\ nodelist \in Seq(Nodes) /\ nleft >= 0 /\ nleft \in Int /\ NodeAllocateN(n, -1)
      /\ UNCHANGED <<conf, cpus, ncpus, before, nodelist>>
  BY DEF DoAllocation, input, NodemapInv, NodemapTypeOK, LeftOK
<1>2. /\ usedcpus' = before \cup allocated' /\ allocated' \subseteq cpus \ before
      /\ usedcpus \subseteq usedcpus' /\ usedcpus' \subseteq CPU
      /\ nleft' \in Int /\ 0 <= nleft' /\ nleft' <= nleft
      /\ nleft' + Cardinality(allocated') = ncpus
      /\ nodeused' \in [Nodes -> SUBSET Nat]
      /\ \A m \in Nodes : nodeused'[m] = {i \in Local(m) : NodeCpuToGlobal(m, i) \in usedcpus'}
      /\ nleft' = 0 \/ LocalCpus[n] \subseteq usedcpus'
  <2>1. -1 \in Int /\ -1 < 0 /\ phase \notin Early
    BY <1>1 DEF Early
  <2> HIDE DEF n
  <2> QED
    BY <1>1, <2>1, TakeKeeps
<1>3. NodemapTypeOK'
  BY <1>1, <1>2 DEF NodemapInv, NodemapTypeOK
<1>4. MasksAgree'
  BY <1>1, <1>2 DEF NodemapInv, MasksAgree
<1>5. \A j \in DOMAIN nodelist :
        j < pos + 1 => nleft' = 0 \/ LocalCpus[nodelist[j]] \subseteq usedcpus'
  <2> SUFFICES ASSUME NEW j \in DOMAIN nodelist, j < pos + 1
               PROVE  nleft' = 0 \/ LocalCpus[nodelist[j]] \subseteq usedcpus'
    OBVIOUS
  <2>1. CASE j = pos
    BY <1>2, <2>1
  <2>2. CASE j < pos
    <3>1. nleft = 0 \/ LocalCpus[nodelist[j]] \subseteq usedcpus
      BY <1>1, <2>2 DEF NodemapInv, LeftOK
    <3> QED
      BY <1>1, <1>2, <3>1
  <2> QED
    BY <1>1, <2>1, <2>2
<1>6. LeftOK'
  BY <1>1, <1>2, <1>5 DEF NodemapInv, NodemapTypeOK, LeftOK, Early
<1> QED
  BY <1>3, <1>4, <1>6 DEF NodemapInv

\* After the last node nothing is left: all CPUs that were free would have been
\* taken otherwise, and they were enough.
LEMMA EachDoneInv ==
  ASSUME NodemapInv, DoAllocationDone
  PROVE  NodemapInv'
<1>1. /\ phase = "each" /\ phase' = "done" /\ pos > Len(nodelist) /\ nodelist \in Seq(Nodes)
      /\ pos \in Nat /\ nleft >= 0 /\ nleft \in Int /\ ncpus \in Int
      /\ UNCHANGED <<conf, cpus, ncpus, before, usedcpus, nodeused, nodelist, pos, nleft, allocated>>
  BY DEF DoAllocationDone, input, NodemapInv, NodemapTypeOK, LeftOK
<1>2. /\ usedcpus = before \cup allocated /\ allocated \subseteq cpus \ before
      /\ nleft + Cardinality(allocated) = ncpus /\ ncpus <= Cardinality(CPU \ before)
      /\ cpus \subseteq CPU /\ CPU \ cpus \subseteq before
  BY <1>1 DEF NodemapInv, NodemapTypeOK, LeftOK, Early
<1>3. nleft = 0
  <2> SUFFICES ASSUME nleft > 0
               PROVE  FALSE
    BY <1>1
  <2>1. \A j \in DOMAIN nodelist : LocalCpus[nodelist[j]] \subseteq usedcpus
    BY <1>1 DEF NodemapInv, LeftOK
  <2>2. \A c \in cpus : c \in usedcpus
    <3> TAKE c \in cpus
    <3>1. PICK n \in Nodes : c \in LocalCpus[n]
      BY <1>2, NodemapAssumption
    <3>2. PICK i \in DOMAIN nodelist : nodelist[i] = n
      BY <1>1, <3>1 DEF NodemapInv, MasksAgree
    <3> QED
      BY <2>1, <3>1, <3>2
  <2>3. allocated = CPU \ before
    BY <1>2, <2>2
  <2>4. Cardinality(allocated) \in Nat
    <3>1. allocated \in SUBSET CPU /\ IsFiniteSet(CPU)
      BY <1>2, NodemapAssumption
    <3> QED
      BY <3>1, FS_Subset, FS_CardinalityType
  <2> QED
    BY <1>1, <1>2, <2>3, <2>4
<1>4. NodemapTypeOK' /\ MasksAgree'
  BY <1>1 DEF NodemapInv, NodemapTypeOK, MasksAgree
<1>5. LeftOK'
  BY <1>1, <1>3 DEF NodemapInv, LeftOK, Early
<1> QED
  BY <1>4, <1>5 DEF NodemapInv

\* As long as something is left to allocate there is a node in the list.
LEMMA ListedNodes ==
  ASSUME NodemapInv, phase = "worst", nleft # 0
  PROVE  nodelist # <<>>
<1>1. /\ usedcpus = before \cup allocated /\ allocated \subseteq cpus \ before
      /\ nleft + Cardinality(allocated) = ncpus /\ ncpus <= Cardinality(CPU \ before)
      /\ cpus \subseteq CPU /\ CPU \ cpus \subseteq before /\ ncpus \in Int
      /\ nleft \in Int /\ nleft >= 0
  BY DEF NodemapInv, NodemapTypeOK, LeftOK, Early
<1>2. CPU \ before # {}
  <2>1. Cardinality(allocated) \in Nat
    <3>1. allocated \in SUBSET CPU /\ IsFiniteSet(CPU)
      BY <1>1, NodemapAssumption
    <3> QED
      BY <3>1, FS_Subset, FS_CardinalityType
  <2>2. Cardinality(CPU \ before) # 0
    BY <1>1, <2>1
  <2> QED
    BY <2>2, FS_EmptySet
<1>3. PICK c \in cpus : TRUE
  BY <1>1, <1>2
<1>4. PICK n \in Nodes : c \in LocalCpus[n]
  BY <1>1, NodemapAssumption
<1>5. \E i \in DOMAIN nodelist : nodelist[i] = n
  BY <1>3, <1>4 DEF NodemapInv, MasksAgree
<1> QED
  BY <1>5

LEMMA WorstInv ==
  ASSUME Contiguous, NodemapInv, AllocationWorstFit
  PROVE  NodemapInv'
<1> DEFINE key == [n \in Nodes |-> -Navail(n)]
           sorted == ListSort(nodelist, key)
<1>0. /\ phase = "worst" /\ phase # "create" /\ nleft # 0 /\ nleft >= 0 /\ nleft \in Int
      /\ nodelist \in Seq(Nodes) /\ nodelist' = sorted /\ NodeAllocateN(sorted[1], 1)
      /\ UNCHANGED <<input, phase, pos>> /\ pos \in Nat \ {0}
  BY DEF AllocationWorstFit, NodemapInv, NodemapTypeOK, LeftOK
<1>1. key \in [Nodes -> Int]
  BY <1>0, AvailRight
<1> HIDE DEF key
<1>2. /\ sorted \in Seq(Nodes) /\ DOMAIN sorted = DOMAIN nodelist
      /\ \A a \in DOMAIN nodelist : \E i \in DOMAIN sorted : sorted[i] = nodelist[a]
  BY <1>0, <1>1, SortKeeps
<1> HIDE DEF sorted
<1>3. nodelist # <<>>
  BY <1>0, ListedNodes
<1>4. sorted[1] \in Nodes
  BY <1>0, <1>2, <1>3
<1> QED
  BY <1>0, <1>2, <1>4, TakeInv

LEMMA WorstDoneInv ==
  ASSUME NodemapInv, AllocationWorstFitDone
  PROVE  NodemapInv'
BY DEF AllocationWorstFitDone, input, NodemapInv, NodemapTypeOK, MasksAgree, LeftOK, Early

-----------------------------------------------------------------------------
(* The theorems.                                                           *)

LEMMA NodemapStart == Init => NodemapInv
<1> SUFFICES ASSUME Init PROVE NodemapInv
  OBVIOUS
<1>1. cpus \in SUBSET CPU /\ before \subseteq CPU /\ CPU \ cpus \subseteq before /\ ncpus \in Int
  <2>1. PICK b \in SUBSET cpus : before = b \cup (CPU \ cpus)
    BY DEF Init
  <2>2. cpus \in SUBSET CPU /\ ncpus \in Int
    BY NodemapAssumption DEF Init
  <2> QED
    BY <2>1, <2>2
<1>2. conf \in [fit : {"best", "first", "worst"}, reverse : BOOLEAN, idle : {"no", "gt", "mult"}]
  BY NodemapAssumption DEF Init
<1> QED
  BY <1>1, <1>2 DEF Init, NodemapInv, NodemapTypeOK, MasksAgree, LeftOK, Early

LEMMA NodemapStep == Contiguous /\ NodemapInv /\ [Next]_vars => NodemapInv'
<1> SUFFICES ASSUME Contiguous, NodemapInv, [Next]_vars PROVE NodemapInv'
  OBVIOUS
<1>1. CASE UNCHANGED vars
  BY <1>1 DEF vars, NodemapInv, NodemapTypeOK, MasksAgree, LeftOK
<1>2. CASE Next
  BY <1>2, CreateInv, AllocateInv, IdleInv, IdleDoneInv, PolicyInv, EachInv, EachDoneInv, WorstInv,
     WorstDoneInv DEF Next
<1> QED
  BY <1>1, <1>2

\* The node's and the map's masks of used CPUs agree and nothing is overdrawn, in
\* every state of every call of nodemap_allocate, if CPUs are numbered without
\* gaps within a node.
THEOREM NodemapInvariance ==
  ASSUME Contiguous
  PROVE  Spec => []NodemapInv
<1>1. NodemapInv /\ [Next]_vars => NodemapInv'
  BY NodemapStep
<1> QED
  BY <1>1, NodemapStart, PTL DEF Spec

\* A call of nodemap_allocate that does not fail takes exactly the CPUs asked
\* for, from those of the cpuset that were free, whatever the policy, the order
\* and the use of idle nodes, on every machine that numbers the CPUs of a node
\* without gaps.
THEOREM AllocatesExactly ==
  ASSUME Contiguous
  PROVE  Spec => []Conserved
<1>1. NodemapInv => Conserved
  <2> SUFFICES ASSUME NodemapInv PROVE Conserved
    OBVIOUS
  <2>1. Cardinality(allocated) \in Nat
    <3>1. allocated \in SUBSET CPU /\ IsFiniteSet(CPU)
      BY NodemapAssumption DEF NodemapInv, NodemapTypeOK
    <3> QED
      BY <3>1, FS_Subset, FS_CardinalityType
  <2> QED
    BY <2>1 DEF NodemapInv, NodemapTypeOK, LeftOK, Early, Conserved
<1> QED
  BY <1>1, NodemapInvariance, PTL

-----------------------------------------------------------------------------
(* Best-fit packs and worst-fit spreads.                                   *)

\* A mask that agrees with a set of used CPUs leaves as many of the node's CPUs.
LEMMA MaskCounts ==
  ASSUME Contiguous, NEW n \in Nodes, NEW used
  PROVE  /\ NodeNcpus(n) - Cardinality({i \in Local(n) : NodeCpuToGlobal(n, i) \in used})
              = Cardinality(LocalCpus[n] \ used)
         /\ NodeNcpus(n) - Cardinality(LocalCpus[n] \cap used) = Cardinality(LocalCpus[n] \ used)
         /\ IsFiniteSet(LocalCpus[n] \ used) /\ Cardinality(LocalCpus[n] \ used) \in Nat
<1> DEFINE mask == {i \in Local(n) : NodeCpuToGlobal(n, i) \in used}
           taken == LocalCpus[n] \cap used
           free == LocalCpus[n] \ used
           f == [i \in mask |-> NodeCpuToGlobal(n, i)]
<1>1. /\ IsFiniteSet(Local(n)) /\ IsFiniteSet(LocalCpus[n]) /\ mask \in SUBSET Local(n)
      /\ taken \in SUBSET LocalCpus[n] /\ free \in SUBSET LocalCpus[n]
  BY NodeCpus
<1>2. taken \cap free = {} /\ taken \cup free = LocalCpus[n]
  OBVIOUS
<1>3. /\ f \in [mask -> taken] /\ \A i, j \in mask : f[i] = f[j] => i = j
      /\ \A c \in taken : \E i \in mask : f[i] = c
  BY NodeCpus
<1> HIDE DEF mask, taken, free, f
<1>4. IsFiniteSet(mask) /\ IsFiniteSet(taken) /\ IsFiniteSet(free)
  BY <1>1, FS_Subset
<1>5. Cardinality(taken) = Cardinality(mask)
  BY <1>3, <1>4, SameSize
<1>6. NodeNcpus(n) = Cardinality(taken) + Cardinality(free) - 0
  BY <1>2, <1>4, FS_Union, FS_EmptySet DEF NodeNcpus
<1>7. Cardinality(taken) \in Nat /\ Cardinality(free) \in Nat
  BY <1>4, FS_CardinalityType
<1> QED
  BY <1>4, <1>5, <1>6, <1>7 DEF mask, taken, free

\* navail counts a node's CPUs that the map has not in use.
LEMMA NavailCounts ==
  ASSUME Contiguous, NodemapInv, phase # "create", NEW n \in Nodes
  PROVE  /\ Navail(n) = Cardinality(LocalCpus[n] \ usedcpus) /\ Navail(n) \in Nat
         /\ Was(n) = Cardinality(LocalCpus[n] \ before) /\ Was(n) \in Nat
<1>1. nodeused[n] = {i \in Local(n) : NodeCpuToGlobal(n, i) \in usedcpus}
  BY DEF NodemapInv, MasksAgree
<1>2. /\ Navail(n) = NodeNcpus(n) - Cardinality({i \in Local(n) : NodeCpuToGlobal(n, i) \in usedcpus})
      /\ Was(n) = NodeNcpus(n) - Cardinality(LocalCpus[n] \cap before)
  BY <1>1 DEF Navail, Was
<1>3. /\ Navail(n) = Cardinality(LocalCpus[n] \ usedcpus)
      /\ Cardinality(LocalCpus[n] \ usedcpus) \in Nat
  BY <1>2, MaskCounts, Zenon
<1>4. Was(n) = Cardinality(LocalCpus[n] \ before) /\ Cardinality(LocalCpus[n] \ before) \in Nat
  BY <1>2, MaskCounts, Zenon
<1> QED
  BY <1>3, <1>4

\* A node that is not in the list has nothing to give.
LEMMA Unlisted ==
  ASSUME NodemapInv, phase \notin Early, NEW m \in Nodes,
         ~ \E i \in DOMAIN nodelist : nodelist[i] = m
  PROVE  LocalCpus[m] \subseteq usedcpus
<1>1. LocalCpus[m] \cap cpus = {}
  BY DEF NodemapInv, MasksAgree, Early
<1>2. LocalCpus[m] \subseteq CPU
  BY NodemapAssumption
<1> QED
  BY <1>1, <1>2 DEF NodemapInv, NodemapTypeOK, LeftOK

\* A CPU given by a node counts for that node only.
LEMMA GivenCounts ==
  ASSUME Contiguous, NodemapInv, phase # "create", NodemapInv', phase' # "create",
         NEW n \in Nodes, NEW given \in SUBSET (LocalCpus[n] \ usedcpus), IsFiniteSet(given),
         usedcpus' = usedcpus \cup given, allocated' = allocated \cup given
  PROVE  /\ Navail(n)' = Navail(n) - Cardinality(given) /\ Navail(n)' \in Nat
         /\ \A m \in Nodes \ {n} : Navail(m)' = Navail(m) /\ Takes(m)' = Takes(m)
         /\ \A m \in Nodes : Navail(m) \in Nat
<1>1. \A m \in Nodes : Navail(m)' = Cardinality(LocalCpus[m] \ usedcpus') /\ Navail(m)' \in Nat
  <2> TAKE m \in Nodes
  <2>1. nodeused'[m] = {i \in Local(m) : NodeCpuToGlobal(m, i) \in usedcpus'}
    BY DEF NodemapInv, MasksAgree
  <2>2. PICK used : used = usedcpus'
    OBVIOUS
  <2>3. Navail(m)' = NodeNcpus(m) - Cardinality({i \in Local(m) : NodeCpuToGlobal(m, i) \in used})
    BY <2>1, <2>2 DEF Navail
  <2>4. Navail(m)' = Cardinality(LocalCpus[m] \ used) /\ Cardinality(LocalCpus[m] \ used) \in Nat
    BY <2>3, MaskCounts, Zenon
  <2> QED
    BY <2>2, <2>4
<1>2. \A m \in Nodes : Navail(m) = Cardinality(LocalCpus[m] \ usedcpus) /\ Navail(m) \in Nat
  BY NavailCounts
<1>3. \A m \in Nodes \ {n} : LocalCpus[m] \cap given = {}
  BY NodemapAssumption
<1>4. \A m \in Nodes \ {n} : Navail(m)' = Navail(m) /\ Takes(m)' = Takes(m)
  <2> TAKE m \in Nodes \ {n}
  <2>1. LocalCpus[m] \ usedcpus' = LocalCpus[m] \ usedcpus /\ Takes(m)' = Takes(m)
    BY <1>3 DEF Takes
  <2> QED
    BY <1>1, <1>2, <2>1
<1>5. Navail(n)' = Navail(n) - Cardinality(given)
  <2> DEFINE free == LocalCpus[n] \ usedcpus
             rest == LocalCpus[n] \ usedcpus'
  <2>1. free = given \cup rest /\ given \cap rest = {} /\ rest \in SUBSET free
    OBVIOUS
  <2>2. IsFiniteSet(free)
    BY MaskCounts
  <2> HIDE DEF free, rest
  <2>3. IsFiniteSet(rest)
    BY <2>1, <2>2, FS_Subset
  <2>4. Cardinality(free) = Cardinality(given) + Cardinality(rest) - 0
    BY <2>1, <2>3, FS_Union, FS_EmptySet
  <2>5. Cardinality(given) \in Nat /\ Cardinality(rest) \in Nat
    BY <2>3, FS_CardinalityType
  <2>6. Navail(n) = Cardinality(free) /\ Navail(n)' = Cardinality(rest)
    BY <1>1, <1>2 DEF free, rest
  <2> QED
    BY <2>4, <2>5, <2>6
<1> QED
  BY <1>1, <1>2, <1>4, <1>5

\* One round of worst-fit: the CPU comes from a node that has most, if from any.
LEMMA WorstSpreads ==
  ASSUME Contiguous, NodemapInv, NodemapInv', AllocationWorstFit, Spread
  PROVE  Spread'
<1> DEFINE key == [n \in Nodes |-> -Navail(n)]
           sorted == ListSort(nodelist, key)
<1>0. /\ phase = "worst" /\ phase' = "worst" /\ phase # "create" /\ phase \notin Early
      /\ nleft >= 0 /\ nleft # 0 /\ nleft \in Int
      /\ nodelist \in Seq(Nodes) /\ nodelist' = sorted /\ NodeAllocateN(sorted[1], 1)
  BY DEF AllocationWorstFit, NodemapInv, NodemapTypeOK, LeftOK, Early
<1>1. key \in [Nodes -> Int] /\ \A m \in Nodes : key[m] = -Navail(m) /\ Navail(m) \in Nat
  <2>1. \A m \in Nodes : Navail(m) \in Nat
    BY <1>0, NavailCounts
  <2> QED
    BY <2>1
<1> HIDE DEF key
<1>2. /\ sorted \in Seq(Nodes) /\ DOMAIN sorted = DOMAIN nodelist
      /\ \A a \in DOMAIN nodelist : \E i \in DOMAIN sorted : sorted[i] = nodelist[a]
      /\ \A i, j \in DOMAIN sorted : i < j => key[sorted[i]] <= key[sorted[j]]
  BY <1>0, <1>1, SortKeeps
<1>3. nodelist # <<>>
  BY <1>0, ListedNodes
<1>4. PICK n \in Nodes : n = sorted[1]
  BY <1>0, <1>2, <1>3
<1> HIDE DEF sorted
<1>5. \A m \in Nodes : Navail(m) <= Navail(n)
  <2> SUFFICES ASSUME NEW m \in Nodes
               PROVE  Navail(m) <= Navail(n)
    OBVIOUS
  <2>1. CASE \E a \in DOMAIN nodelist : nodelist[a] = m
    <3>1. PICK i \in DOMAIN sorted : sorted[i] = m
      BY <1>2, <2>1
    <3>2. 1 \in DOMAIN sorted /\ (i = 1 \/ 1 < i)
      BY <1>2, <3>1
    <3>3. key[n] <= key[m]
      <4>1. CASE i = 1
        BY <1>1, <1>4, <3>1, <4>1
      <4>2. CASE 1 < i
        BY <1>2, <1>4, <3>1, <3>2, <4>2
      <4> QED
        BY <3>2, <4>1, <4>2
    <3> QED
      BY <1>1, <1>4, <3>3
  <2>2. CASE ~ \E a \in DOMAIN nodelist : nodelist[a] = m
    <3>1. LocalCpus[m] \ usedcpus = {}
      BY <1>0, <2>2, Unlisted
    <3>2. Navail(m) = 0
      BY <1>0, <3>1, NavailCounts, FS_EmptySet
    <3> QED
      BY <1>1, <1>4, <3>2
  <2> QED
    BY <2>1, <2>2
<1>6. PICK given \in SUBSET (LocalCpus[n] \ usedcpus) :
        /\ usedcpus' = usedcpus \cup given /\ allocated' = allocated \cup given
        /\ IsFiniteSet(given) /\ Cardinality(given) \in 0 .. nleft /\ Cardinality(given) <= 1
  <2>1. 1 \in Int /\ 1 >= 0
    OBVIOUS
  <2> QED
    BY <1>0, <1>4, <2>1, TakeKeeps
<1>7. /\ Navail(n)' = Navail(n) - Cardinality(given) /\ Navail(n)' \in Nat
      /\ \A m \in Nodes \ {n} : Navail(m)' = Navail(m) /\ Takes(m)' = Takes(m)
  BY <1>0, <1>4, <1>6, GivenCounts
<1> SUFFICES ASSUME NEW m \in Nodes, NEW k \in Nodes, Takes(k)' # {}
             PROVE  Navail(m)' <= Navail(k)' + 1
  BY DEF Spread
<1>8. Navail(m) \in Nat /\ Navail(k) \in Nat /\ Navail(n) \in Nat /\ Cardinality(given) \in Nat
  BY <1>0, <1>1, <1>4, <1>6
<1>9. CASE k = n
  <2>1. CASE m = n
    BY <1>7, <1>9, <2>1
  <2>2. CASE m # n
    BY <1>5, <1>6, <1>7, <1>8, <1>9, <2>2
  <2> QED
    BY <2>1, <2>2
<1>10. CASE k # n
  <2>1. Navail(m) <= Navail(k) + 1 /\ Navail(k)' = Navail(k)
    BY <1>7, <1>10 DEF Spread
  <2>2. CASE m = n
    BY <1>7, <1>8, <2>1, <2>2
  <2>3. CASE m # n
    BY <1>7, <1>8, <2>1, <2>3
  <2> QED
    BY <2>2, <2>3
<1> QED
  BY <1>9, <1>10

\* One node visited by best-fit: it gives CPUs only if something is left, and
\* then the nodes before it have given all they had.
LEMMA EachPacks ==
  ASSUME Contiguous, NodemapInv, NodemapInv', DoAllocation, Packing
  PROVE  Packing'
<1>1. /\ phase = "each" /\ phase \notin Early /\ nodelist[pos] \in Nodes /\ pos' = pos + 1
      /\ pos \in DOMAIN nodelist /\ nodelist \in Seq(Nodes) /\ nleft >= 0 /\ nleft \in Int
      /\ NodeAllocateN(nodelist[pos], -1) /\ UNCHANGED <<conf, cpus, ncpus, before, nodelist>>
  BY DEF DoAllocation, input, NodemapInv, NodemapTypeOK, LeftOK, Early
<1>2. PICK n \in Nodes : n = nodelist[pos]
  BY <1>1
<1>3. PICK given \in SUBSET (LocalCpus[n] \ usedcpus) :
        /\ usedcpus' = usedcpus \cup given /\ allocated' = allocated \cup given
        /\ IsFiniteSet(given) /\ Cardinality(given) \in 0 .. nleft
  <2>1. -1 \in Int
    OBVIOUS
  <2> QED
    BY <1>1, <1>2, <2>1, TakeKeeps
<1>4. \A i, j \in DOMAIN nodelist' : i < j => Was(nodelist[i])' <= Was(nodelist[j])'
  BY <1>1 DEF Packing, Was
<1>5. ASSUME NEW k \in Nodes, Takes(k)' # {}
      PROVE  \E j \in DOMAIN nodelist :
               /\ j < pos + 1 /\ nodelist[j] = k
               /\ \A i \in DOMAIN nodelist : i < j => LocalCpus[nodelist[i]] \subseteq usedcpus'
  <2>1. CASE Takes(k) # {}
    <3>1. PICK j \in DOMAIN nodelist :
            /\ j < pos /\ nodelist[j] = k
            /\ \A i \in DOMAIN nodelist : i < j => LocalCpus[nodelist[i]] \subseteq usedcpus
      BY <2>1 DEF Packing
    <3>2. j < pos + 1 /\ \A i \in DOMAIN nodelist : i < j => LocalCpus[nodelist[i]] \subseteq usedcpus'
      BY <1>1, <1>3, <3>1
    <3> QED
      BY <3>1, <3>2
  <2>2. CASE Takes(k) = {}
    <3>1. LocalCpus[k] \cap given # {}
      BY <1>3, <1>5, <2>2 DEF Takes
    <3>2. k = n /\ given # {}
      BY <3>1, NodemapAssumption
    <3>3. Cardinality(given) # 0
      BY <1>3, <3>2, FS_EmptySet
    <3>4. nleft # 0
      BY <1>1, <1>3, <3>3
    <3>5. \A i \in DOMAIN nodelist : i < pos => LocalCpus[nodelist[i]] \subseteq usedcpus
      BY <1>1, <3>4 DEF NodemapInv, LeftOK
    <3>6. pos < pos + 1 /\ nodelist[pos] = k
      BY <1>1, <1>2, <3>2
    <3>7. \A i \in DOMAIN nodelist : i < pos => LocalCpus[nodelist[i]] \subseteq usedcpus'
      BY <1>3, <3>5
    <3> QED
      BY <1>1, <3>6, <3>7
  <2> QED
    BY <2>1, <2>2
<1>6. UNCHANGED nodelist /\ pos' = pos + 1
  BY <1>1
<1> QED
  BY <1>4, <1>5, <1>6 DEF Packing

\* Where best-fit ends, a fuller node is either before the one that gave, and
\* has given all, or not in the cpuset.
LEMMA DonePacks ==
  ASSUME Contiguous, NodemapInv, phase = "each", Packing,
         NEW m \in Nodes, NEW n \in Nodes, Takes(n) # {}, Was(m) < Was(n)
  PROVE  LocalCpus[m] \subseteq usedcpus
<1>0. phase \notin Early /\ phase # "create" /\ nodelist \in Seq(Nodes)
  BY DEF Early, NodemapInv, NodemapTypeOK
<1>1. PICK j \in DOMAIN nodelist :
        /\ nodelist[j] = n
        /\ \A i \in DOMAIN nodelist : i < j => LocalCpus[nodelist[i]] \subseteq usedcpus
  BY DEF Packing
<1>2. Was(m) \in Nat /\ Was(n) \in Nat
  BY <1>0, NavailCounts
<1>3. CASE ~ \E i \in DOMAIN nodelist : nodelist[i] = m
  BY <1>0, <1>3, Unlisted
<1>4. CASE \E i \in DOMAIN nodelist : nodelist[i] = m
  <2>1. PICK i \in DOMAIN nodelist : nodelist[i] = m
    BY <1>4
  <2>2. j < i => Was(n) <= Was(m)
    BY <1>1, <2>1 DEF Packing
  <2>3. i # j
    BY <1>1, <1>2, <2>1
  <2>4. i < j
    BY <1>0, <1>2, <2>2, <2>3
  <2> QED
    BY <1>1, <2>1, <2>4
<1> QED
  BY <1>3, <1>4

\* The head of nodemap_allocate does not go for idle nodes unless told to, and
\* the policy starts with nothing taken.
LEMMA PolicyFits ==
  ASSUME Contiguous, NodemapInv, NodemapInv', ApplyPolicy, FitInv
  PROVE  FitInv'
<1> DEFINE key == [n \in Nodes |-> Navail(n)]
<1>0. /\ phase = "policy" /\ phase # "create" /\ phase \notin Early /\ pos' = 1
      /\ nodelist \in Seq(Nodes) /\ nleft \in Int
      /\ UNCHANGED <<conf, cpus, ncpus, before, usedcpus, nodeused, nleft, allocated>>
      /\ phase' = IF nleft <= 0 THEN "done" ELSE IF conf.fit = "worst" THEN "worst" ELSE "each"
      /\ nodelist' = IF nleft > 0 /\ conf.fit = "best" THEN ListSort(nodelist, key) ELSE nodelist
  BY DEF ApplyPolicy, input, NodemapInv, NodemapTypeOK, Early
<1> SUFFICES ASSUME conf.idle = "no"
             PROVE  FitInv'
  BY <1>0 DEF FitInv
<1>1. allocated = {} /\ usedcpus = before
  BY <1>0 DEF FitInv, NodemapInv, LeftOK
<1>2. \A n \in Nodes : Takes(n)' = {}
  BY <1>0, <1>1 DEF Takes
<1>3. Spread' /\ BestFitPacks'
  BY <1>2 DEF Spread, BestFitPacks
<1>4. ASSUME phase' = "each", conf.fit = "best"
      PROVE  Packing'
  <2>1. \A n \in Nodes : Navail(n) = Was(n) /\ Navail(n) \in Nat
    BY <1>0, <1>1, NavailCounts
  <2>2. key \in [Nodes -> Int] /\ \A n \in Nodes : key[n] = Was(n)
    BY <2>1
  <2> HIDE DEF key
  <2>3. nodelist' = ListSort(nodelist, key)
    BY <1>0, <1>4
  <2>4. /\ nodelist' \in Seq(Nodes)
        /\ \A i, j \in DOMAIN nodelist' : i < j => key[nodelist'[i]] <= key[nodelist'[j]]
    BY <1>0, <2>2, <2>3, SortKeeps
  <2>5. \A n \in Nodes : Was(n)' = Was(n)
    BY <1>0 DEF Was
  <2>6. \A i, j \in DOMAIN nodelist' : i < j => Was(nodelist[i])' <= Was(nodelist[j])'
    <3> SUFFICES ASSUME NEW i \in DOMAIN nodelist', NEW j \in DOMAIN nodelist', i < j
                 PROVE  Was(nodelist[i])' <= Was(nodelist[j])'
      OBVIOUS
    <3>1. PICK a \in Nodes : a = nodelist'[i]
      BY <2>4
    <3>2. PICK b \in Nodes : b = nodelist'[j]
      BY <2>4
    <3>3. Was(a) <= Was(b)
      BY <2>2, <2>4, <3>1, <3>2
    <3>4. Was(nodelist[i])' = Was(a) /\ Was(nodelist[j])' = Was(b)
      BY <1>0, <3>1, <3>2 DEF Was
    <3> QED
      BY <3>3, <3>4
  <2> QED
    BY <1>2, <2>6 DEF Packing
<1> QED
  BY <1>0, <1>3, <1>4 DEF FitInv

LEMMA FitStep == Contiguous /\ NodemapInv /\ NodemapInv' /\ FitInv /\ [Next]_vars => FitInv'
<1> SUFFICES ASSUME Contiguous, NodemapInv, NodemapInv', FitInv, [Next]_vars
             PROVE  FitInv'
  OBVIOUS
<1>1. CASE UNCHANGED vars
  BY <1>1 DEF vars, FitInv, Spread, Packing, BestFitPacks, Takes, Was, Navail
<1>2. CASE NodemapCreate
  BY <1>2 DEF NodemapCreate, FitInv, BestFitPacks
<1>3. CASE NodemapAllocate
  <2>1. allocated = {}
    BY <1>3 DEF NodemapAllocate, NodemapInv, LeftOK, Early
  <2>2. phase' \in {"failed", "idle", "policy"} /\ UNCHANGED <<conf, allocated>>
    BY <1>3 DEF NodemapAllocate, input
  <2>3. conf.idle = "no" => phase' # "idle"
    BY <1>3 DEF NodemapAllocate, ShouldAllocateIdleNodes
  <2> QED
    BY <2>1, <2>2, <2>3 DEF FitInv, BestFitPacks
<1>4. CASE AllocIdleNode \/ AllocIdleDone
  <2>1. phase = "idle" /\ UNCHANGED conf
    BY <1>4 DEF AllocIdleNode, AllocIdleDone, input
  <2> QED
    BY <2>1 DEF FitInv
<1>5. CASE ApplyPolicy
  BY <1>5, PolicyFits
<1>6. CASE DoAllocation
  <2>1. phase = "each" /\ phase' = "each" /\ UNCHANGED conf
    BY <1>6 DEF DoAllocation, input
  <2>2. Packing => Packing'
    BY <1>6, EachPacks
  <2> QED
    BY <2>1, <2>2 DEF FitInv, BestFitPacks
<1>7. CASE DoAllocationDone
  <2>1. /\ phase = "each" /\ phase' = "done" /\ conf' = conf
        /\ UNCHANGED <<before, usedcpus, nodeused, nodelist, allocated>>
    BY <1>7 DEF DoAllocationDone, input
  <2>2. conf.idle = "no" /\ conf.fit = "best" => BestFitPacks'
    <3> SUFFICES ASSUME conf.idle = "no", conf.fit = "best",
                        NEW m \in Nodes, NEW n \in Nodes, Takes(n)' # {}, Was(m)' < Was(n)'
                 PROVE  LocalCpus[m] \subseteq usedcpus'
      BY DEF BestFitPacks
    <3>1. Takes(n) # {} /\ Was(m) < Was(n)
      BY <2>1 DEF Takes, Was
    <3>2. Packing
      BY <2>1 DEF FitInv
    <3> QED
      BY <2>1, <3>1, <3>2, DonePacks
  <2>3. conf.idle = "no" => conf.fit # "worst"
    BY <2>1 DEF FitInv
  <2>4. conf.fit # "best" => BestFitPacks'
    BY <2>1 DEF BestFitPacks
  <2> QED
    BY <2>1, <2>2, <2>3, <2>4 DEF FitInv
<1>8. CASE AllocationWorstFit
  <2>1. phase = "worst" /\ phase' = "worst" /\ UNCHANGED conf
    BY <1>8 DEF AllocationWorstFit, input
  <2>2. Spread => Spread'
    BY <1>8, WorstSpreads
  <2> QED
    BY <2>1, <2>2 DEF FitInv, BestFitPacks
<1>9. CASE AllocationWorstFitDone
  <2>1. phase = "worst" /\ phase' = "done" /\ UNCHANGED <<conf, nodeused, allocated>>
    BY <1>9 DEF AllocationWorstFitDone, input
  <2>2. Spread => Spread'
    BY <2>1 DEF Spread, Takes, Navail
  <2> QED
    BY <2>1, <2>2 DEF FitInv, BestFitPacks
<1> QED
  BY <1>1, <1>2, <1>3, <1>4, <1>5, <1>6, <1>7, <1>8, <1>9 DEF Next

\* In every state of every call: best-fit is at a node only when the fuller ones
\* are empty, and worst-fit has spread what it took so far.
THEOREM FitInvariance ==
  ASSUME Contiguous
  PROVE  Spec => []FitInv
<1>1. Init => FitInv
  BY DEF Init, FitInv, BestFitPacks
<1>2. NodemapInv /\ NodemapInv' /\ FitInv /\ [Next]_vars => FitInv'
  BY FitStep
<1> QED
  BY <1>1, <1>2, NodemapInvariance, PTL DEF Spec

\* Worst-fit without use-idle ends with the load spread: no node that gave a CPU
\* has two CPUs fewer left than another, although each is taken from the list as
\* it was sorted before.
THEOREM WorstFitIsEven ==
  ASSUME Contiguous
  PROVE  Spec => []WorstFitSpreads
<1>1. FitInv => WorstFitSpreads
  BY DEF FitInv, WorstFitSpreads, Spread
<1> QED
  BY <1>1, FitInvariance, PTL

\* Best-fit without use-idle breaks into a node only when every fuller node of
\* the cpuset has no free CPU left.
THEOREM BestFitIsTight ==
  ASSUME Contiguous
  PROVE  Spec => []BestFitPacks
<1>1. FitInv => BestFitPacks
  BY DEF FitInv, BestFitPacks
<1> QED
  BY <1>1, FitInvariance, PTL

-----------------------------------------------------------------------------
(* Idle nodes first.                                                       *)

Sizes == {NodeNcpus(n) : n \in Nodes}

\* Of a cpuset on nodes of one size, an idle node is one whose CPUs are all in the
\* cpuset and free.
LEMMA IdleNodes ==
  ASSUME Contiguous, NodemapInv, NEW size \in Sizes, CallsForIdle(size), NEW n \in Nodes
  PROVE  /\ size \in Nat \ {0}
         /\ n \in Idle(size) <=> LocalCpus[n] \cap before = {}
         /\ n \in Idle(size) => NodeNcpus(n) = size /\ LocalCpus[n] \cap cpus # {}
<1>0. /\ size \in Nat \ {0} /\ CPU \ cpus \subseteq before
      /\ IsFiniteSet(LocalCpus[n]) /\ LocalCpus[n] \subseteq CPU /\ LocalCpus[n] # {}
      /\ NodeNcpus(n) = Cardinality(LocalCpus[n])
  BY NodeCpus DEF Sizes, NodeNcpus, NodemapInv, NodemapTypeOK
<1>1. Was(n) = Cardinality(LocalCpus[n] \ before)
  <2>1. Was(n) = NodeNcpus(n) - Cardinality(LocalCpus[n] \cap before)
    BY DEF Was
  <2> QED
    BY <2>1, MaskCounts, Zenon
<1>2. LocalCpus[n] \cap cpus # {} => NodeNcpus(n) = size
  BY DEF CallsForIdle
<1>3. ASSUME n \in Idle(size)
      PROVE  LocalCpus[n] \cap before = {} /\ NodeNcpus(n) = size /\ LocalCpus[n] \cap cpus # {}
  <2> DEFINE free == LocalCpus[n] \ before
  <2>1. Cardinality(free) = size /\ free \subseteq LocalCpus[n]
    BY <1>1, <1>3 DEF Idle
  <2>2. free # {}
    BY <1>0, <2>1, FS_EmptySet
  <2>3. LocalCpus[n] \cap cpus # {}
    BY <1>0, <2>2
  <2> HIDE DEF free
  <2>4. Cardinality(free) = Cardinality(LocalCpus[n])
    BY <1>0, <1>2, <2>1, <2>3
  <2>5. free = LocalCpus[n]
    BY <1>0, <2>1, <2>4, FS_Subset
  <2> QED
    BY <1>2, <2>3, <2>5 DEF free
<1>4. ASSUME LocalCpus[n] \cap before = {}
      PROVE  n \in Idle(size)
  <2>1. LocalCpus[n] \ before = LocalCpus[n] /\ LocalCpus[n] \cap cpus # {}
    BY <1>0, <1>4
  <2> QED
    BY <1>0, <1>1, <1>2, <2>1 DEF Idle
<1> QED
  BY <1>0, <1>3, <1>4

LEMMA WholeNodes ==
  ASSUME NEW size
  PROVE  /\ IsFiniteSet(Idle(size)) /\ Cardinality(Idle(size)) \in Nat
         /\ IsFiniteSet(Whole(size)) /\ Cardinality(Whole(size)) \in Nat
         /\ Whole(size) \subseteq Idle(size)
<1>1. IsFiniteSet(Nodes) /\ Idle(size) \in SUBSET Nodes /\ Whole(size) \in SUBSET Idle(size)
  BY NodemapAssumption DEF Idle, Whole
<1>2. IsFiniteSet(Idle(size))
  BY <1>1, FS_Subset
<1>3. IsFiniteSet(Whole(size))
  BY <1>1, <1>2, FS_Subset
<1> QED
  BY <1>1, <1>2, <1>3, FS_CardinalityType

\* Nobody gives a node back.
LEMMA WholeGrows ==
  ASSUME NEW size, UNCHANGED before, allocated \subseteq allocated'
  PROVE  /\ Idle(size)' = Idle(size) /\ Whole(size) \subseteq Whole(size)'
         /\ Cardinality(Whole(size)) <= Cardinality(Whole(size)')
         /\ Cardinality(Whole(size)') \in Nat
<1>1. Idle(size)' = Idle(size)
  BY DEF Idle, Was
<1>2. PICK more : more = Whole(size)'
  OBVIOUS
<1>3. more \in SUBSET Idle(size) /\ Whole(size) \subseteq more
  BY <1>1, <1>2 DEF Whole
<1>4. IsFiniteSet(more)
  BY <1>3, WholeNodes, FS_Subset
<1>5. Cardinality(Whole(size)) <= Cardinality(more) /\ Cardinality(more) \in Nat
  BY <1>3, <1>4, FS_Subset, FS_CardinalityType
<1> QED
  BY <1>1, <1>2, <1>3, <1>5

\* As many nodes as there are, or as fit.
Enough(size) == Cardinality(Whole(size)) >= Min({Cardinality(Idle(size)), ncpus \div size})

LEMMA EnoughIf ==
  ASSUME NEW idle \in Int, NEW fit \in Int, NEW whole \in Int,
         idle <= whole \/ fit <= whole
  PROVE  whole >= Min({idle, fit})
<1>1. Min({idle, fit}) = IF idle <= fit THEN idle ELSE fit
  BY MinOfTwo DEF Min
<1> QED
  BY <1>1

LEMMA EnoughStays ==
  ASSUME NEW size \in Nat \ {0}, Enough(size), ncpus \in Int, UNCHANGED <<ncpus, before>>,
         allocated \subseteq allocated'
  PROVE  Enough(size)'
<1> DEFINE idle == Cardinality(Idle(size))
           fit == ncpus \div size
<1>1. idle \in Int /\ fit \in Int
  BY WholeNodes, DivMod
<1> HIDE DEF idle, fit
<1>2. Min({idle, fit}) \in Int
  BY <1>1, MinOfTwo DEF Min
<1>3. Cardinality(Whole(size)) >= Min({idle, fit}) /\ Cardinality(Whole(size)) \in Nat
  BY WholeNodes DEF Enough, idle, fit
<1>4. /\ Cardinality(Whole(size)) <= Cardinality(Whole(size)') /\ Cardinality(Whole(size)') \in Nat
      /\ Idle(size)' = Idle(size)
  BY WholeGrows
<1>5. Cardinality(Whole(size)') >= Min({idle, fit})
  BY <1>2, <1>3, <1>4
<1> QED
  BY <1>4, <1>5 DEF Enough, idle, fit

\* The part of WholeInv about alloc_idle_nodes.
IdleSoFar(size) ==
  /\ \A n \in Nodes : Takes(n) = {} \/ LocalCpus[n] \subseteq allocated
  /\ nleft = ncpus - size * Cardinality(Whole(size))
  /\ \A j \in DOMAIN nodelist :
       j < pos /\ nodelist[j] \in Idle(size) => nodelist[j] \in Whole(size) \/ nleft < size

\* A node that alloc_idle_nodes takes is one of the idle nodes, and it is taken
\* whole.
LEMMA IdleTaken ==
  ASSUME Contiguous, NodemapInv, phase = "idle", nleft >= 0, NEW size \in Sizes, CallsForIdle(size),
         IdleSoFar(size), NEW n \in Nodes, TakeWhole(n), NodeAllocateN(n, NodeNcpus(n)),
         UNCHANGED <<ncpus, before>>
  PROVE  /\ Whole(size)' = Whole(size) \cup {n} /\ nleft' = ncpus - size * Cardinality(Whole(size)')
         /\ allocated' = allocated \cup LocalCpus[n] /\ nleft' \in Int /\ nleft' <= nleft
<1>0. /\ phase \notin Early /\ phase # "create" /\ nleft \in Int /\ ncpus \in Int
      /\ usedcpus = before \cup allocated /\ allocated \in SUBSET CPU /\ IsFiniteSet(CPU)
      /\ IsFiniteSet(LocalCpus[n]) /\ LocalCpus[n] \subseteq CPU /\ LocalCpus[n] # {}
      /\ NodeNcpus(n) \in Nat \ {0} /\ NodeNcpus(n) = Cardinality(LocalCpus[n])
  BY NodemapAssumption, NodeCpus DEF NodeNcpus, NodemapInv, NodemapTypeOK, LeftOK, Early
<1>1. LocalCpus[n] \cap usedcpus = {}
  <2> DEFINE free == LocalCpus[n] \ usedcpus
  <2>1. Cardinality(free) = Cardinality(LocalCpus[n]) /\ free \subseteq LocalCpus[n]
    BY <1>0, NavailCounts DEF TakeWhole, IsIdle
  <2> HIDE DEF free
  <2>2. free = LocalCpus[n]
    BY <1>0, <2>1, FS_Subset
  <2> QED
    BY <2>2 DEF free
<1>2. n \in Idle(size) /\ n \notin Whole(size) /\ NodeNcpus(n) = size /\ size \in Nat \ {0}
  BY <1>0, <1>1, IdleNodes DEF Whole
<1>3. NodeNcpus(n) \in Int /\ nleft >= Navail(n) /\ NodeNcpus(n) >= Navail(n) /\ Navail(n) = size
  BY <1>0, <1>2 DEF TakeWhole, IsIdle
<1>4. /\ LocalCpus[n] \subseteq usedcpus' /\ nleft' + Cardinality(allocated') = ncpus
      /\ nleft' \in Int /\ nleft' <= nleft
      /\ \E given \in SUBSET (LocalCpus[n] \ usedcpus) :
           usedcpus' = usedcpus \cup given /\ allocated' = allocated \cup given
  BY <1>0, <1>3, TakeKeeps
<1>5. allocated' = allocated \cup LocalCpus[n]
  <2>1. PICK given \in SUBSET (LocalCpus[n] \ usedcpus) :
          usedcpus' = usedcpus \cup given /\ allocated' = allocated \cup given
    BY <1>4
  <2>2. given = LocalCpus[n]
    BY <1>1, <1>4, <2>1
  <2> QED
    BY <2>1, <2>2
<1>6. Whole(size)' = Whole(size) \cup {n}
  <2>1. \A m \in Nodes : m # n => LocalCpus[m] \cap LocalCpus[n] = {}
    BY NodemapAssumption
  <2>2. \A m \in Nodes : LocalCpus[m] \subseteq allocated' <=> LocalCpus[m] \subseteq allocated \/ m = n
    BY <1>5, <2>1
  <2>3. Idle(size)' = Idle(size) /\ Idle(size) \subseteq Nodes
    BY DEF Idle, Was
  <2> QED
    BY <1>2, <2>2, <2>3 DEF Whole
<1>7. Cardinality(allocated') = Cardinality(allocated) + size /\ Cardinality(allocated) \in Nat
  <2>1. IsFiniteSet(allocated)
    BY <1>0, FS_Subset
  <2>2. allocated \cap LocalCpus[n] = {}
    BY <1>0, <1>1
  <2>3. Cardinality(allocated \cup LocalCpus[n])
          = Cardinality(allocated) + Cardinality(LocalCpus[n]) - 0
    BY <1>0, <2>1, <2>2, FS_Union, FS_EmptySet
  <2> QED
    BY <1>0, <1>2, <1>5, <2>1, <2>3, FS_CardinalityType
<1>8. nleft' = nleft - size
  <2>1. nleft + Cardinality(allocated) = ncpus
    BY <1>0 DEF NodemapInv, LeftOK
  <2> QED
    BY <1>0, <1>2, <1>4, <1>7, <2>1
<1>9. Cardinality(Whole(size)') = Cardinality(Whole(size)) + 1 /\ Cardinality(Whole(size)) \in Nat
  BY <1>2, <1>6, WholeNodes, FS_AddElement
<1>10. nleft' = ncpus - size * Cardinality(Whole(size)')
  <2>1. nleft = ncpus - size * Cardinality(Whole(size))
    BY DEF IdleSoFar
  <2>2. \A k \in Nat : size * (k + 1) = size * k + size
    BY <1>2
  <2> QED
    BY <1>0, <1>2, <1>8, <1>9, <2>1, <2>2
<1> QED
  BY <1>4, <1>5, <1>6, <1>10

\* An idle node that alloc_idle_nodes passes is one it had taken before, or less
\* than a node is left.
LEMMA IdlePassed ==
  ASSUME Contiguous, NodemapInv, phase = "idle", NEW size \in Sizes, CallsForIdle(size),
         IdleSoFar(size), NEW n \in Idle(size), ~TakeWhole(n)
  PROVE  n \in Whole(size) \/ nleft < size
<1> SUFFICES ASSUME n \notin Whole(size)
             PROVE  nleft < size
  OBVIOUS
<1>0. /\ phase \notin Early /\ phase # "create" /\ nleft \in Int /\ ncpus \in Int
      /\ usedcpus = before \cup allocated /\ n \in Nodes
  BY DEF NodemapInv, NodemapTypeOK, LeftOK, Early, Idle
<1>1. LocalCpus[n] \cap before = {} /\ NodeNcpus(n) = size /\ size \in Nat \ {0}
  BY <1>0, IdleNodes
<1>2. LocalCpus[n] \ usedcpus = LocalCpus[n]
  BY <1>0, <1>1 DEF IdleSoFar, Whole, Takes
<1>3. Navail(n) = size
  BY <1>0, <1>1, <1>2, NavailCounts DEF NodeNcpus
<1>4. IsIdle(n) /\ Navail(n) # 0
  BY <1>1, <1>3 DEF IsIdle
<1>5. conf.idle = "mult" => nleft % size = 0
  <2> SUFFICES ASSUME conf.idle = "mult"
               PROVE  nleft % size = 0
    OBVIOUS
  <2> DEFINE q == ncpus \div size
             k == Cardinality(Whole(size))
  <2>1. ncpus = size * q + 0 /\ q \in Int /\ k \in Int
    BY <1>0, <1>1, DivMod, WholeNodes DEF CallsForIdle
  <2>2. nleft = ncpus - size * k
    BY DEF IdleSoFar
  <2> HIDE DEF q, k
  <2>3. size * q - size * k = size * (q - k)
    BY <1>1, <2>1
  <2>4. nleft = 0 + size * (q - k) /\ q - k \in Int /\ 0 \in 0 .. size - 1
    BY <1>0, <1>1, <2>1, <2>2, <2>3
  <2> QED
    BY <1>0, <1>1, <2>4, ModIs
<1> QED
  BY <1>0, <1>1, <1>3, <1>4, <1>5 DEF TakeWhole

LEMMA IdleGoesOn ==
  ASSUME Contiguous, NodemapInv, AllocIdleNode, NEW size \in Sizes, CallsForIdle(size),
         IdleSoFar(size)
  PROVE  IdleSoFar(size)'
<1>0. /\ phase = "idle" /\ pos \in DOMAIN nodelist /\ nodelist[pos] \in Nodes /\ pos' = pos + 1
      /\ nodelist \in Seq(Nodes) /\ nleft > 0 /\ nleft \in Int /\ pos \in Int
      /\ UNCHANGED <<conf, cpus, ncpus, before, nodelist>> /\ size \in Nat \ {0}
  BY NodeCpus DEF AllocIdleNode, input, NodemapInv, NodemapTypeOK, Sizes
<1>1. PICK n \in Nodes : n = nodelist[pos]
  BY <1>0
<1>2. CASE TakeWhole(n) /\ NodeAllocateN(n, NodeNcpus(n))
  <2>0. nleft >= 0
    BY <1>0
  <2>1. /\ Whole(size)' = Whole(size) \cup {n} /\ nleft' = ncpus - size * Cardinality(Whole(size)')
        /\ allocated' = allocated \cup LocalCpus[n] /\ nleft' \in Int /\ nleft' <= nleft
    BY <1>0, <1>2, <2>0, IdleTaken
  <2>2. \A m \in Nodes : Takes(m)' = {} \/ LocalCpus[m] \subseteq allocated'
    <3> TAKE m \in Nodes
    <3>1. CASE m = n
      BY <2>1, <3>1
    <3>2. CASE m # n
      <4>1. LocalCpus[m] \cap LocalCpus[n] = {}
        BY <3>2, NodemapAssumption
      <4> QED
        BY <2>1, <4>1 DEF IdleSoFar, Takes
    <3> QED
      BY <3>1, <3>2
  <2>3. Idle(size)' = Idle(size)
    BY <1>0 DEF Idle, Was
  <2>4. ASSUME NEW j \in DOMAIN nodelist, j < pos + 1, nodelist[j] \in Idle(size)
        PROVE  nodelist[j] \in Whole(size)' \/ nleft' < size
    <3>1. CASE j = pos
      BY <1>1, <2>1, <3>1
    <3>2. CASE j < pos
      <4>1. nodelist[j] \in Whole(size) \/ nleft < size
        BY <2>4, <3>2 DEF IdleSoFar
      <4> QED
        BY <1>0, <2>1, <4>1
    <3> QED
      BY <1>0, <2>4, <3>1, <3>2
  <2> QED
    BY <1>0, <2>1, <2>2, <2>3, <2>4 DEF IdleSoFar
<1>3. CASE ~TakeWhole(n) /\ UNCHANGED <<usedcpus, nodeused, nleft, allocated>>
  <2>1. Idle(size)' = Idle(size) /\ Whole(size)' = Whole(size)
    BY <1>0, <1>3 DEF Idle, Was, Whole
  <2>2. \A m \in Nodes : Takes(m)' = {} \/ LocalCpus[m] \subseteq allocated'
    BY <1>3 DEF IdleSoFar, Takes
  <2>3. ASSUME NEW j \in DOMAIN nodelist, j < pos + 1, nodelist[j] \in Idle(size)
        PROVE  nodelist[j] \in Whole(size) \/ nleft < size
    <3>1. CASE j = pos
      BY <1>0, <1>1, <1>3, <2>3, <3>1, IdlePassed
    <3>2. CASE j < pos
      BY <2>3, <3>2 DEF IdleSoFar
    <3> QED
      BY <1>0, <2>3, <3>1, <3>2
  <2> QED
    BY <1>0, <1>3, <2>1, <2>2, <2>3 DEF IdleSoFar
<1> QED
  BY <1>1, <1>2, <1>3 DEF AllocIdleNode

\* alloc_idle_nodes stops at the end of the list, or because less is left than a
\* node.
LEMMA IdleEnds ==
  ASSUME Contiguous, NodemapInv, AllocIdleDone, NEW size \in Sizes, CallsForIdle(size),
         IdleSoFar(size)
  PROVE  Enough(size)
<1> DEFINE idle == Cardinality(Idle(size))
           fit == ncpus \div size
           k == Cardinality(Whole(size))
<1>0. /\ phase = "idle" /\ phase \notin Early /\ phase # "create" /\ nodelist \in Seq(Nodes)
      /\ nleft \in Int /\ ncpus \in Int /\ pos \in Int /\ (pos > Len(nodelist) \/ nleft <= 0)
      /\ size \in Nat \ {0} /\ ncpus >= size
  BY NodeCpus DEF AllocIdleDone, NodemapInv, NodemapTypeOK, Early, Sizes, CallsForIdle
<1>1. nleft >= 0
  BY <1>0 DEF NodemapInv, LeftOK
<1>2. idle \in Nat /\ fit \in Int /\ k \in Nat
  BY <1>0, WholeNodes, DivMod
<1>3. CASE nleft < size
  <2>1. nleft = ncpus - size * k
    BY DEF IdleSoFar
  <2> HIDE DEF k
  <2>2. ncpus = nleft + size * k /\ nleft \in 0 .. size - 1
    BY <1>0, <1>1, <1>2, <1>3, <2>1
  <2>3. size \in Nat \ {0} /\ k \in Int /\ ncpus \in Int
    BY <1>0, <1>2
  <2>3a. ncpus \div size = k
    BY ONLY <2>2, <2>3, ModIs
  <2>3b. fit = k
    BY <2>3a
  <2> HIDE DEF fit, idle
  <2>4. k >= Min({idle, fit})
    BY <1>2, <2>3b, EnoughIf
  <2> QED
    BY <2>4 DEF Enough, fit, idle, k
<1>4. CASE nleft >= size
  <2>1. Idle(size) \subseteq Whole(size)
    <3> SUFFICES ASSUME NEW n \in Idle(size)
                 PROVE  n \in Whole(size)
      OBVIOUS
    <3>1. n \in Nodes /\ LocalCpus[n] \cap cpus # {}
      BY IdleNodes DEF Idle
    <3>2. PICK j \in DOMAIN nodelist : nodelist[j] = n
      BY <1>0, <3>1 DEF NodemapInv, MasksAgree
    <3>3. j < pos
      BY <1>0, <1>4
    <3> QED
      BY <1>0, <1>4, <3>2, <3>3 DEF IdleSoFar
  <2>2. idle <= k
    BY <2>1, WholeNodes, FS_Subset
  <2> HIDE DEF fit, idle, k
  <2>3. k >= Min({idle, fit})
    BY <1>2, <2>2, EnoughIf
  <2> QED
    BY <2>3 DEF Enough, fit, idle, k
<1> QED
  BY <1>0, <1>3, <1>4

\* The head of nodemap_allocate starts with nothing taken, and goes past
\* alloc_idle_nodes only if no node is idle.
LEMMA IdleStarts ==
  ASSUME Contiguous, NodemapInv, NodemapInv', NodemapAllocate, NEW size \in Sizes,
         CallsForIdle(size)
  PROVE  /\ phase' = "idle" => IdleSoFar(size)'
         /\ phase' = "policy" => Enough(size)'
<1>0. /\ phase = "allocate" /\ phase # "create" /\ pos' = 1 /\ allocated = {} /\ usedcpus = before
      /\ UNCHANGED <<conf, cpus, ncpus, before, usedcpus, nodeused, allocated>> /\ ncpus \in Int
      /\ size \in Nat \ {0}
  BY NodeCpus DEF NodemapAllocate, input, NodemapInv, NodemapTypeOK, LeftOK, MasksAgree, Early, Sizes
<1>1. ASSUME phase' = "idle"
      PROVE  IdleSoFar(size)'
  <2>1. nleft' = ncpus /\ nodelist' \in Seq(Nodes)
    BY <1>1 DEF NodemapAllocate, NodemapInv, NodemapTypeOK
  <2>2. Whole(size)' = {}
    <3>1. \A n \in Nodes : ~(LocalCpus[n] \subseteq allocated')
      BY <1>0, NodeCpus
    <3>2. Idle(size)' \subseteq Nodes
      BY DEF Idle
    <3> QED
      BY <3>1, <3>2 DEF Whole
  <2>3. Cardinality(Whole(size)') = 0
    BY <2>2, FS_EmptySet
  <2>4. nleft' = ncpus' - size * Cardinality(Whole(size)')
    BY <1>0, <2>1, <2>3
  <2>5. \A n \in Nodes : Takes(n)' = {}
    BY <1>0 DEF Takes
  <2>6. \A j \in DOMAIN nodelist' : ~(j < pos')
    BY <1>0, <2>1
  <2> QED
    BY <2>4, <2>5, <2>6 DEF IdleSoFar
<1>2. ASSUME phase' = "policy"
      PROVE  Enough(size)'
  <2>1. ~ShouldAllocateIdleNodes
    BY <1>2 DEF NodemapAllocate
  <2>2. Idle(size) = {}
    <3> SUFFICES ASSUME NEW n \in Idle(size)
                 PROVE  ShouldAllocateIdleNodes
      BY <2>1
    <3>1. n \in Nodes /\ LocalCpus[n] \cap cpus # {} /\ LocalCpus[n] \cap before = {} /\ NodeNcpus(n) = size
      BY IdleNodes DEF Idle
    <3>2. PICK j \in DOMAIN nodelist : nodelist[j] = n
      BY <1>0, <3>1 DEF NodemapInv, MasksAgree
    <3>3. IsIdle(n)
      <4>1. LocalCpus[n] \ usedcpus = LocalCpus[n]
        BY <1>0, <3>1
      <4> QED
        BY <1>0, <3>1, <4>1, NavailCounts DEF IsIdle, NodeNcpus
    <3>4. conf.idle # "no" /\ ncpus >= size /\ (conf.idle = "mult" => ncpus % size = 0)
      BY DEF CallsForIdle
    <3> QED
      BY <3>1, <3>2, <3>3, <3>4 DEF ShouldAllocateIdleNodes
  <2>3. Cardinality(Idle(size)) = 0
    BY <2>2, FS_EmptySet
  <2>4. ncpus \div size \in Int /\ Cardinality(Whole(size)) \in Nat
    BY <1>0, DivMod, WholeNodes
  <2>5. Enough(size)
    BY <2>3, <2>4, EnoughIf DEF Enough
  <2> QED
    BY <1>0, <2>5, EnoughStays
<1> QED
  BY <1>1, <1>2

LEMMA WholeStep ==
  Contiguous /\ NodemapInv /\ NodemapInv' /\ WholeInv /\ [Next]_vars => WholeInv'
<1> SUFFICES ASSUME Contiguous, NodemapInv, NodemapInv', WholeInv, [Next]_vars
             PROVE  WholeInv'
  OBVIOUS
<1>1. UNCHANGED <<conf, cpus, ncpus, before>>
  BY DEF Next, vars, input, NodemapCreate, NodemapAllocate, AllocIdleNode, AllocIdleDone, ApplyPolicy,
     DoAllocation, DoAllocationDone, AllocationWorstFit, AllocationWorstFitDone
<1> SUFFICES ASSUME NEW size \in Sizes, CallsForIdle(size)
             PROVE  /\ phase' = "idle" => IdleSoFar(size)'
                    /\ phase' \notin Early \cup {"idle"} => Enough(size)'
  BY <1>1 DEF WholeInv, Sizes, CallsForIdle, IdleSoFar, Enough
<1>2. /\ phase = "idle" => IdleSoFar(size)
      /\ phase \notin Early \cup {"idle"} => Enough(size)
  BY DEF WholeInv, Sizes, IdleSoFar, Enough
<1>3. size \in Nat \ {0} /\ ncpus \in Int
  BY NodeCpus DEF Sizes, NodemapInv, NodemapTypeOK
<1>4. CASE NodemapCreate
  BY <1>4 DEF NodemapCreate, Early
<1>5. CASE NodemapAllocate
  <2>1. phase' \in {"failed", "idle", "policy"}
    BY <1>5 DEF NodemapAllocate
  <2> QED
    BY <1>5, <2>1, IdleStarts DEF Early
<1>6. CASE AllocIdleNode
  <2>1. phase = "idle" /\ phase' = "idle"
    BY <1>6 DEF AllocIdleNode
  <2> QED
    BY <1>2, <1>6, <2>1, IdleGoesOn
<1>7. CASE AllocIdleDone
  <2>1. phase = "idle" /\ phase' = "policy" /\ UNCHANGED allocated
    BY <1>7 DEF AllocIdleDone
  <2>2. Enough(size)
    BY <1>2, <1>7, <2>1, IdleEnds
  <2> QED
    BY <1>1, <1>3, <2>1, <2>2, EnoughStays
<1>8. CASE ApplyPolicy \/ DoAllocation \/ DoAllocationDone \/ AllocationWorstFit \/ AllocationWorstFitDone
  <2>1. /\ phase \in {"policy", "each", "worst"} /\ phase' \in {"done", "each", "worst"}
        /\ allocated \subseteq allocated'
    BY <1>8 DEF ApplyPolicy, DoAllocation, DoAllocationDone, AllocationWorstFit,
       AllocationWorstFitDone, NodeAllocateN
  <2>2. Enough(size)
    BY <1>2, <2>1 DEF Early
  <2> QED
    BY <1>1, <1>3, <2>1, <2>2, EnoughStays
<1>9. CASE UNCHANGED vars
  BY <1>2, <1>9 DEF vars, IdleSoFar, Enough, Idle, Whole, Takes, Was
<1> QED
  BY <1>4, <1>5, <1>6, <1>7, <1>8, <1>9 DEF Next

\* In every state of every call, on nodes of one size: what alloc_idle_nodes took
\* are whole nodes, and it left none behind that would have fitted.
THEOREM WholeInvariance ==
  ASSUME Contiguous
  PROVE  Spec => []WholeInv
<1>1. Init => WholeInv
  BY DEF Init, WholeInv, Early
<1>2. NodemapInv /\ NodemapInv' /\ WholeInv /\ [Next]_vars => WholeInv'
  BY WholeStep
<1> QED
  BY <1>1, <1>2, NodemapInvariance, PTL DEF Spec

\* use-idle takes as many whole idle nodes as there are and as fit the number of
\* CPUs, in a cpuset on nodes of one size, whatever the order and the policy.
THEOREM IdleNodesGoFirst ==
  ASSUME Contiguous
  PROVE  Spec => []IdleNodesFirst
<1>1. WholeInv => IdleNodesFirst
  BY DEF WholeInv, IdleNodesFirst, Early
<1> QED
  BY <1>1, WholeInvariance, PTL

=============================================================================
