------------------------------ MODULE Nodemap ------------------------------
(***************************************************************************)
(* nodemap.c: how nodemap_allocate picks ncpus CPUs among those of the     *)
(* current cpuset that are not in use, given the NUMA nodes they belong to *)
(* and the configured policy. One behaviour is one call of create_cpuset;  *)
(* one step is one node visited. Module Cpuset uses only the outcome       *)
(* (Conserved below): some set of free CPUs of that size.                  *)
(***************************************************************************)
EXTENDS Integers, FiniteSets, SequencesExt

CONSTANTS
  CPU,        \* CPU numbers of the root cpuset
  Nodes,      \* ids of the NUMA nodes that have CPUs
  LocalCpus,  \* the CPUs of each node (cpuset_localcpus)
  Cpusets,    \* the current cpusets to consider
  Fits,       \* fit policies to consider: "best", "first", "worst"
  Requests    \* values of ncpus to consider

ASSUME NodemapAssumption ==
  /\ CPU \subseteq Nat /\ IsFiniteSet(CPU)
  /\ Nodes \subseteq Nat /\ IsFiniteSet(Nodes)
  /\ LocalCpus \in [Nodes -> (SUBSET CPU) \ {{}}]
  /\ UNION {LocalCpus[n] : n \in Nodes} = CPU
  /\ \A m, n \in Nodes : m # n => LocalCpus[m] \cap LocalCpus[n] = {}
  /\ Cpusets \subseteq SUBSET CPU
  /\ Fits \subseteq {"best", "first", "worst"}
  /\ Requests \subseteq Int

VARIABLES
  conf,       \* struct policy: fit, reverse, idle ("no", "gt", "mult")
  cpus,       \* map->cpus: CPUs of the current cpuset
  ncpus,      \* the argument of nodemap_allocate
  before,     \* the CPUs used_cpus_bitmask found in use
  phase,      \* how far the call has come
  usedcpus,   \* map->usedcpus
  nodeused,   \* usedcpus of each node, by local CPU number
  nodelist,   \* map->nodelist
  pos,        \* position of the iterator in nodelist
  nleft,      \* CPUs still to allocate
  allocated   \* allocation->allocated_cpus

vars == <<conf, cpus, ncpus, before, phase, usedcpus, nodeused, nodelist, pos,
          nleft, allocated>>
input == <<conf, cpus, ncpus, before>>

-----------------------------------------------------------------------------
(* A node and its CPUs.                                                    *)

NodeNcpus(n) == Cardinality(LocalCpus[n])
Local(n)     == 0 .. (NodeNcpus(n) - 1)

\* node_cpu_to_global takes a node's CPUs to be numbered without gaps.
NodeCpuToGlobal(n, i) == Min(LocalCpus[n]) + i

Navail(n) == NodeNcpus(n) - Cardinality(nodeused[n])
IsIdle(n) == Navail(n) = NodeNcpus(n)

\* Faulty variant: neither usage mask is looked at.
AllocatableAll(n) == Local(n)

\* The local CPUs node_allocate_cpu would hand out.
Allocatable(n) ==
  {i \in Local(n) : i \notin nodeused[n] /\ NodeCpuToGlobal(n, i) \notin usedcpus}

\* list_sort, which is stable.
ListSort(list, key) ==
  LET Before(a, b) == \/ key[list[a]] < key[list[b]]
                      \/ key[list[a]] = key[list[b]] /\ a < b
      Rank(a) == 1 + Cardinality({b \in DOMAIN list : Before(b, a)})
  IN [i \in DOMAIN list |-> list[CHOOSE a \in DOMAIN list : Rank(a) = i]]

\* node_allocate_n: the first `count' local CPUs that are free, or the last
\* ones in reverse order; all that are left in the node if count is negative.
NodeAllocateN(n, count) ==
  LET free == Allocatable(n)
      Earlier(i) == {k \in free : IF conf.reverse THEN k > i ELSE k < i}
      want == Min({nleft, IF count < 0 THEN Navail(n) ELSE count})
      take == {i \in free : Cardinality(Earlier(i)) < want}
      globals == {NodeCpuToGlobal(n, i) : i \in take}
  IN
  /\ nodeused' = [nodeused EXCEPT ![n] = @ \cup take]
  /\ usedcpus' = usedcpus \cup globals
  /\ allocated' = allocated \cup globals
  /\ nleft' = nleft - Cardinality(take)

-----------------------------------------------------------------------------
\* nodemap_create: a node for each memory node local to the current cpuset,
\* pushed on the front of the list.
NodemapCreate ==
  LET here == {n \in Nodes : LocalCpus[n] \cap cpus # {}} IN
  /\ phase = "create"
  /\ usedcpus' = before
  /\ nodeused' = [n \in Nodes |-> {i \in Local(n) : NodeCpuToGlobal(n, i) \in before}]
  /\ nodelist' = [i \in 1 .. Cardinality(here) |->
                    CHOOSE n \in here : Cardinality({m \in here : m >= n}) = i]
  /\ phase' = "allocate"
  /\ UNCHANGED <<input, pos, nleft, allocated>>

\* should_allocate_idle_nodes.
ShouldAllocateIdleNodes ==
  /\ conf.idle # "no"
  /\ \E i \in DOMAIN nodelist :
       LET n == nodelist[i] IN
       /\ IsIdle(n)
       /\ IF conf.idle = "mult" THEN ncpus % NodeNcpus(n) = 0 ELSE ncpus >= NodeNcpus(n)

\* Faulty variant: order = reverse does not reach the list of nodes.
NodemapAllocateForward ==
  /\ phase = "allocate"
  /\ \/ /\ ncpus > Cardinality(CPU \ usedcpus)
        /\ phase' = "failed"
        /\ UNCHANGED <<nodelist, nleft>>
     \/ /\ ncpus <= Cardinality(CPU \ usedcpus)
        /\ nodelist' = ListSort(nodelist, [n \in Nodes |-> n])
        /\ nleft' = ncpus
        /\ phase' = IF ShouldAllocateIdleNodes THEN "idle" ELSE "policy"
  /\ pos' = 1
  /\ UNCHANGED <<input, usedcpus, nodeused, allocated>>

\* The head of nodemap_allocate.
NodemapAllocate ==
  /\ phase = "allocate"
  /\ \/ /\ ncpus > Cardinality(CPU \ usedcpus)
        /\ phase' = "failed"
        /\ UNCHANGED <<nodelist, nleft>>
     \/ /\ ncpus <= Cardinality(CPU \ usedcpus)
        /\ nodelist' = ListSort(nodelist, [n \in Nodes |-> IF conf.reverse THEN -n ELSE n])
        /\ nleft' = ncpus
        /\ phase' = IF ShouldAllocateIdleNodes THEN "idle" ELSE "policy"
  /\ pos' = 1
  /\ UNCHANGED <<input, usedcpus, nodeused, allocated>>

\* Faulty variant: a node that is exactly as large as what is left is skipped.
TakeWholeLarger(n) ==
  /\ Navail(n) # 0
  /\ conf.idle = "mult" => nleft % Navail(n) = 0
  /\ IsIdle(n) /\ nleft > Navail(n)

\* alloc_idle_nodes takes a node that is idle and not larger than what is
\* left, which must be a multiple of its size if use-idle is "mult".
TakeWhole(n) ==
  /\ Navail(n) # 0
  /\ conf.idle = "mult" => nleft % Navail(n) = 0
  /\ IsIdle(n) /\ nleft >= Navail(n)

\* The loop of alloc_idle_nodes, for one node.
AllocIdleNode ==
  LET n == nodelist[pos] IN
  /\ phase = "idle" /\ pos <= Len(nodelist) /\ nleft > 0
  /\ pos' = pos + 1
  /\ \/ TakeWhole(n) /\ NodeAllocateN(n, NodeNcpus(n))
     \/ ~TakeWhole(n) /\ UNCHANGED <<usedcpus, nodeused, nleft, allocated>>
  /\ UNCHANGED <<input, phase, nodelist>>

AllocIdleDone ==
  /\ phase = "idle" /\ (pos > Len(nodelist) \/ nleft <= 0)
  /\ phase' = "policy"
  /\ UNCHANGED <<input, usedcpus, nodeused, nodelist, pos, nleft, allocated>>

\* Faulty variant: best-fit sorts with node_cmp_avail.
ApplyPolicyEmptiest ==
  /\ phase = "policy"
  /\ phase' = IF nleft <= 0 THEN "done" ELSE IF conf.fit = "worst" THEN "worst" ELSE "each"
  /\ nodelist' = IF nleft > 0 /\ conf.fit = "best"
                 THEN ListSort(nodelist, [n \in Nodes |-> -Navail(n)]) ELSE nodelist
  /\ pos' = 1
  /\ UNCHANGED <<input, usedcpus, nodeused, nleft, allocated>>

\* allocation_best_fit, allocation_first_fit or allocation_worst_fit, if
\* there is anything left to allocate.
ApplyPolicy ==
  /\ phase = "policy"
  /\ phase' = IF nleft <= 0 THEN "done" ELSE IF conf.fit = "worst" THEN "worst" ELSE "each"
  /\ nodelist' = IF nleft > 0 /\ conf.fit = "best"
                 THEN ListSort(nodelist, [n \in Nodes |-> Navail(n)]) ELSE nodelist
  /\ pos' = 1
  /\ UNCHANGED <<input, usedcpus, nodeused, nleft, allocated>>

\* do_allocation: node_allocate_all on each node in turn.
DoAllocation ==
  /\ phase = "each" /\ pos <= Len(nodelist)
  /\ NodeAllocateN(nodelist[pos], -1)
  /\ pos' = pos + 1
  /\ UNCHANGED <<input, phase, nodelist>>

DoAllocationDone ==
  /\ phase = "each" /\ pos > Len(nodelist)
  /\ phase' = "done"
  /\ UNCHANGED <<input, usedcpus, nodeused, nodelist, pos, nleft, allocated>>

\* Faulty variant: the nodes are not sorted again.
AllocationWorstFitUnsorted ==
  /\ phase = "worst" /\ nleft # 0
  /\ NodeAllocateN(nodelist[1], 1)
  /\ UNCHANGED <<input, phase, pos, nodelist>>

\* allocation_worst_fit: sort again, then one CPU from the first node.
AllocationWorstFit ==
  /\ phase = "worst" /\ nleft # 0
  /\ LET sorted == ListSort(nodelist, [n \in Nodes |-> -Navail(n)]) IN
     /\ nodelist' = sorted
     /\ NodeAllocateN(sorted[1], 1)
  /\ UNCHANGED <<input, phase, pos>>

\* Faulty variant: the loop goes on at zero.
AllocationWorstFitDoneBelow ==
  /\ phase = "worst" /\ nleft < 0
  /\ phase' = "done"
  /\ UNCHANGED <<input, usedcpus, nodeused, nodelist, pos, nleft, allocated>>

AllocationWorstFitDone ==
  /\ phase = "worst" /\ nleft = 0
  /\ phase' = "done"
  /\ UNCHANGED <<input, usedcpus, nodeused, nodelist, pos, nleft, allocated>>

-----------------------------------------------------------------------------
Init ==
  /\ conf \in [fit : Fits, reverse : BOOLEAN, idle : {"no", "gt", "mult"}]
  /\ cpus \in Cpusets
  /\ before \in {b \cup (CPU \ cpus) : b \in SUBSET cpus}
  /\ ncpus \in Requests
  /\ phase = "create"
  /\ usedcpus = {} /\ nodeused = [n \in Nodes |-> {}] /\ nodelist = <<>>
  /\ pos = 1 /\ nleft = 0 /\ allocated = {}

Next ==
  \/ NodemapCreate \/ NodemapAllocate
  \/ AllocIdleNode \/ AllocIdleDone
  \/ ApplyPolicy
  \/ DoAllocation \/ DoAllocationDone
  \/ AllocationWorstFit \/ AllocationWorstFitDone

Spec == Init /\ [][Next]_vars

\* The call runs in one thread that nobody stops.
FairSpec == Spec /\ WF_vars(Next)

-----------------------------------------------------------------------------
(* Properties.                                                             *)

\* nodemap.h: "Allocate ncpus from nodemap". What the call took so far was free
\* when it began, lies in the current cpuset, and is exactly what nleft has been
\* lowered by: no CPU is counted twice and none is lost, whichever of the two
\* usage masks is looked at. A call that does not fail ends with exactly the CPUs
\* asked for (none if ncpus is not positive).
Conserved ==
  /\ phase \notin {"create", "allocate", "failed"} =>
       /\ usedcpus = before \cup allocated
       /\ allocated \subseteq cpus \ before
       /\ nleft + Cardinality(allocated) = ncpus
  /\ phase = "done" => Cardinality(allocated) = IF ncpus > 0 THEN ncpus ELSE 0

Was(n)   == NodeNcpus(n) - Cardinality(LocalCpus[n] \cap before)
Takes(n) == LocalCpus[n] \cap allocated

\* best-fit packs: unless idle nodes go first, a node gives CPUs only if every
\* fuller node of the current cpuset has given all it had.
BestFitPacks ==
  phase = "done" /\ conf.fit = "best" /\ conf.idle = "no" =>
    \A m, n \in Nodes : Takes(n) # {} /\ Was(m) < Was(n) => LocalCpus[m] \subseteq usedcpus

\* worst-fit spreads: unless idle nodes go first, no node that gave a CPU is
\* left with fewer free CPUs than another has, less one.
WorstFitSpreads ==
  phase = "done" /\ conf.fit = "worst" /\ conf.idle = "no" =>
    \A m, n \in Nodes : Takes(n) # {} => Navail(m) <= Navail(n) + 1

\* The nodes of that size with nothing in use, those of them that the call took
\* whole, and whether its number of CPUs calls for nodes of that size.
Idle(size)  == {n \in Nodes : Was(n) = size}
Whole(size) == {n \in Idle(size) : LocalCpus[n] \subseteq allocated}

CallsForIdle(size) ==
  /\ conf.idle # "no" /\ ncpus >= size /\ (conf.idle = "mult" => ncpus % size = 0)
  /\ \A n \in Nodes : LocalCpus[n] \cap cpus # {} => NodeNcpus(n) = size

\* use-idle: when the number of CPUs calls for idle nodes (by "mult" or by
\* "gt"), as many whole idle nodes are taken as there are and as fit, for a
\* cpuset on nodes of one size.
IdleNodesFirst ==
  phase = "done" =>
    \A size \in {NodeNcpus(n) : n \in Nodes} : CallsForIdle(size) =>
      Cardinality(Whole(size)) >= Min({Cardinality(Idle(size)), ncpus \div size})

\* The call returns: worst-fit, which loops until nothing is left to
\* allocate, does not spin on a node that has nothing to give.
Returns == <>(phase \in {"done", "failed"})

-----------------------------------------------------------------------------
(* The inductive invariant behind Conserved.                               *)

\* A node's CPUs are numbered without gaps, as node_cpu_to_global takes them to
\* be. Otherwise it names CPUs of other nodes, and misses some of its own.
Contiguous == \A n \in Nodes : \E a \in CPU : LocalCpus[n] = a .. a + NodeNcpus(n) - 1

Early == {"create", "allocate", "failed"}

NodemapTypeOK ==
  /\ conf \in [fit : {"best", "first", "worst"}, reverse : BOOLEAN, idle : {"no", "gt", "mult"}]
  /\ cpus \subseteq CPU /\ before \subseteq CPU /\ CPU \ cpus \subseteq before /\ ncpus \in Int
  /\ phase \in Early \cup {"idle", "policy", "each", "worst", "done"}
  /\ usedcpus \subseteq CPU /\ allocated \subseteq CPU /\ nleft \in Int /\ pos \in Nat \ {0}
  /\ nodelist \in Seq(Nodes) /\ nodeused \in [Nodes -> SUBSET Nat]

\* The list has the nodes of the current cpuset, and each node's mask of used
\* CPUs agrees with the map's.
MasksAgree ==
  phase # "create" =>
    /\ \A n \in Nodes : LocalCpus[n] \cap cpus # {} => \E i \in DOMAIN nodelist : nodelist[i] = n
    /\ \A n \in Nodes : nodeused[n] = {i \in Local(n) : NodeCpuToGlobal(n, i) \in usedcpus}
    /\ phase = "allocate" => usedcpus = before

\* What is left was there to be had and is never overdrawn; the nodes that
\* do_allocation has been at gave all they had, unless nothing is left.
LeftOK ==
  /\ phase \in Early => allocated = {}
  /\ phase \notin Early =>
       /\ usedcpus = before \cup allocated /\ allocated \subseteq cpus \ before
       /\ nleft + Cardinality(allocated) = ncpus
       /\ ncpus <= Cardinality(CPU \ before)
       /\ IF ncpus > 0 THEN nleft >= 0 ELSE nleft = ncpus
  /\ phase \in {"each", "worst"} => nleft >= 0
  /\ phase = "each" => \A j \in DOMAIN nodelist :
                         j < pos => nleft = 0 \/ LocalCpus[nodelist[j]] \subseteq usedcpus
  /\ phase = "done" => nleft <= 0

NodemapInv == NodemapTypeOK /\ MasksAgree /\ LeftOK

\* Without idle nodes: as far as worst-fit has come it has spread; best-fit goes
\* through the nodes from the fullest on, and is at the next only when the ones
\* before are empty.
Spread == \A m, n \in Nodes : Takes(n) # {} => Navail(m) <= Navail(n) + 1

Packing ==
  /\ \A i, j \in DOMAIN nodelist : i < j => Was(nodelist[i]) <= Was(nodelist[j])
  /\ \A n \in Nodes : Takes(n) # {} =>
       \E j \in DOMAIN nodelist :
         /\ j < pos /\ nodelist[j] = n
         /\ \A i \in DOMAIN nodelist : i < j => LocalCpus[nodelist[i]] \subseteq usedcpus

FitInv ==
  conf.idle = "no" =>
    /\ phase # "idle" /\ (phase = "policy" => allocated = {})
    /\ phase = "worst" => conf.fit = "worst"
    /\ phase = "each" => conf.fit # "worst"
    /\ conf.fit = "worst" /\ phase \in {"worst", "done"} => Spread
    /\ conf.fit = "best" /\ phase = "each" => Packing
    /\ BestFitPacks

\* With idle nodes, on nodes of one size: alloc_idle_nodes takes nodes whole or
\* not at all, lowers what is left by them, and leaves an idle node behind only if
\* less than a node is left.
WholeInv ==
  \A size \in {NodeNcpus(n) : n \in Nodes} : CallsForIdle(size) =>
    /\ phase = "idle" =>
         /\ \A n \in Nodes : Takes(n) = {} \/ LocalCpus[n] \subseteq allocated
         /\ nleft = ncpus - size * Cardinality(Whole(size))
         /\ \A j \in DOMAIN nodelist :
              j < pos /\ nodelist[j] \in Idle(size) => nodelist[j] \in Whole(size) \/ nleft < size
    /\ phase \notin Early \cup {"idle"} =>
         Cardinality(Whole(size)) >= Min({Cardinality(Idle(size)), ncpus \div size})

=============================================================================
