------------------------- MODULE AutoAffinityProofs -------------------------
(***************************************************************************)
(* Proofs about the masks that auto-affinity.c gives the tasks of a step,  *)
(* for every topology, number of tasks, share and start=, and whatever is  *)
(* changed under the plugin while it runs.                                 *)
(*                                                                         *)
(* The argument: a task's mask is a function of the plugin's variables,    *)
(* which stay as they are once the tasks start, and of the CPUs the task   *)
(* finds itself on (AffinityInv). Positions are numbered modulo the CPUs   *)
(* available, and two tasks have different positions as long as all shares *)
(* fit; position map and mask_to_available take different positions to     *)
(* different CPUs.                                                         *)
(***************************************************************************)
EXTENDS AutoAffinity, Ranks

-----------------------------------------------------------------------------
(* Positions and CPUs.                                                     *)

LEMMA NodeFacts ==
  ASSUME AffinityInv
  PROVE  /\ IsFiniteSet(DOMAIN node) /\ nodecpus \in Nat /\ DOMAIN node = 0 .. nodecpus - 1
         /\ \A c \in DOMAIN node : c \in Nat /\ node[c].pkg \in Int /\ node[c].core \in Int
         /\ ntasks \in Nat \ {0}
<1>1. /\ IsFiniteSet(DOMAIN node) /\ DOMAIN node = 0 .. nodecpus - 1
      /\ \A c \in DOMAIN node : node[c].pkg \in Int /\ node[c].core \in Int
  BY AffinityAssumption DEF AffinityInv, nodecpus
<1>2. nodecpus \in Nat
  BY <1>1, FS_CardinalityType DEF nodecpus
<1>3. ntasks \in Nat \ {0}
  BY AffinityAssumption DEF AffinityInv, ntasks
<1> QED
  BY <1>1, <1>2, <1>3

\* mask_to_available numbers the CPUs of S.
LEMMA Available ==
  ASSUME NEW S, IsFiniteSet(S), S \subseteq Nat
  PROVE  /\ \A n \in 0 .. Cardinality(S) - 1 : mask_to_available(S, n) \in S
         /\ \A n : mask_to_available(S, n) # -1 =>
              n \in 0 .. Cardinality(S) - 1 /\ mask_to_available(S, n) \in S
         /\ \A m, n : mask_to_available(S, m) = mask_to_available(S, n)
                      /\ mask_to_available(S, m) # -1 => m = n
         /\ \A c \in S : \E n \in 0 .. Cardinality(S) - 1 : mask_to_available(S, n) = c
<1> DEFINE R == {q \in S \X S : q[1] < q[2]}
           N == 0 .. Cardinality(S) - 1
           cpu(n) == CHOOSE c \in S : RankOf(S, R, c) = n
<1>0. IsFiniteSet(S)
  OBVIOUS
<1>1. StrictOrder(S, R)
  BY DEF StrictOrder
<1>2. \A c \in S : {d \in S : d < c} = {d \in S : <<d, c>> \in R}
  OBVIOUS
<1>3. \A n \in N : mask_to_available(S, n) = cpu(n)
  <2> TAKE n \in N
  <2>1. \A c \in S : (Cardinality({d \in S : d < c}) = n) <=> (RankOf(S, R, c) = n)
    BY <1>2 DEF RankOf
  <2>2. mask_to_available(S, n) = CHOOSE c \in S : Cardinality({d \in S : d < c}) = n
    BY DEF mask_to_available
  <2> QED
    BY <2>1, <2>2
<1>4. \A n : n \notin N => mask_to_available(S, n) = -1
  BY DEF mask_to_available
<1> HIDE DEF R, cpu
<1>5. \A n \in N : cpu(n) \in S /\ RankOf(S, R, cpu(n)) = n
  <2>1. \A n \in N : \E c \in S : RankOf(S, R, c) = n
    BY ONLY <1>0, <1>1, RankBijection
  <2> QED
    BY <2>1 DEF cpu
<1>6. \A c \in S : RankOf(S, R, c) \in N /\ cpu(RankOf(S, R, c)) = c
  <2> TAKE c \in S
  <2>1. RankOf(S, R, c) \in N
    BY ONLY <1>0, <1>1, RankBounds
  <2>2. cpu(RankOf(S, R, c)) \in S /\ RankOf(S, R, cpu(RankOf(S, R, c))) = RankOf(S, R, c)
    BY <1>5, <2>1
  <2> QED
    BY ONLY <1>0, <1>1, <2>1, <2>2, RankBijection
<1> HIDE DEF N
<1>7. \A n \in N : mask_to_available(S, n) \in S
  BY <1>3, <1>5
<1>8. \A n : mask_to_available(S, n) # -1 => n \in N /\ mask_to_available(S, n) \in S
  BY <1>4, <1>7
<1>9. \A m, n : mask_to_available(S, m) = mask_to_available(S, n)
                /\ mask_to_available(S, m) # -1 => m = n
  <2> SUFFICES ASSUME NEW m, NEW n, mask_to_available(S, m) = mask_to_available(S, n),
                      mask_to_available(S, m) # -1
               PROVE  m = n
    OBVIOUS
  <2>1. m \in N /\ n \in N
    BY <1>4
  <2> QED
    BY <1>3, <1>5, <2>1
<1>10. \A c \in S : \E n \in N : mask_to_available(S, n) = c
  BY <1>3, <1>6
<1> QED
  BY <1>7, <1>8, <1>9, <1>10 DEF N

\* The position map is a permutation of the CPUs.
LEMMA Positions ==
  ASSUME AffinityInv
  PROVE  /\ DOMAIN cpu_position_map = 0 .. nodecpus - 1
         /\ \A n \in 0 .. nodecpus - 1 : cpu_position_map[n] \in 0 .. nodecpus - 1
         /\ \A m, n \in 0 .. nodecpus - 1 : cpu_position_map[m] = cpu_position_map[n] => m = n
         /\ \A c \in 0 .. nodecpus - 1 : \E n \in 0 .. nodecpus - 1 : cpu_position_map[n] = c
         /\ \A m, n \in 0 .. nodecpus - 1 :
              m < n => node[cpu_position_map[m]].pkg <= node[cpu_position_map[n]].pkg
<1> DEFINE D == DOMAIN node
           R == {q \in D \X D : Before(q[1], q[2])}
           N == 0 .. nodecpus - 1
           cpu(n) == CHOOSE c \in D : RankOf(D, R, c) = n
<1>1. /\ IsFiniteSet(D) /\ D = N /\ N = 0 .. Cardinality(D) - 1
      /\ \A c \in D : c \in Nat /\ node[c].pkg \in Int /\ node[c].core \in Int
  BY NodeFacts DEF nodecpus
<1>0. IsFiniteSet(D)
  BY <1>1
<1>2. StrictOrder(D, R)
  <2> DEFINE Pkg(c) == node[c].pkg
             Core(c) == node[c].core
  <2>1. \A c \in D : c \in Nat /\ Pkg(c) \in Int /\ Core(c) \in Int
    BY <1>1
  <2>2. \A c, d \in D : <<c, d>> \in R <=>
          (Pkg(c) < Pkg(d) \/ (Pkg(c) = Pkg(d) /\ Core(c) < Core(d))
             \/ (Pkg(c) = Pkg(d) /\ Core(c) = Core(d) /\ c > d))
    BY DEF Before
  <2> HIDE DEF Pkg, Core, R, D
  <2> QED
    BY <2>1, <2>2 DEF StrictOrder
<1>3. \A c \in D : {d \in D : Before(d, c)} = {d \in D : <<d, c>> \in R}
  OBVIOUS
<1>4. cpu_position_map = [n \in N |-> cpu(n)]
  <2>1. \A c \in D : Cardinality({d \in D : Before(d, c)}) = RankOf(D, R, c)
    BY <1>3 DEF RankOf
  <2>2. \A n \in N : (CHOOSE c \in D : Cardinality({d \in D : Before(d, c)}) = n) = cpu(n)
    <3> TAKE n \in N
    <3>1. \A c \in D : (Cardinality({d \in D : Before(d, c)}) = n) <=> (RankOf(D, R, c) = n)
      BY <2>1
    <3> QED
      BY <3>1
  <2>3. cpu_position_map
          = [n \in N |-> CHOOSE c \in D : Cardinality({d \in D : Before(d, c)}) = n]
    BY DEF cpu_position_map
  <2> HIDE DEF cpu, R
  <2> QED
    BY <2>2, <2>3
<1>5. DOMAIN cpu_position_map = N /\ \A n \in N : cpu_position_map[n] = cpu(n)
  BY <1>4, Zenon
<1>5a. \A c, d \in D : <<d, c>> \notin R => node[c].pkg <= node[d].pkg
  BY <1>1 DEF Before
<1> HIDE DEF R, cpu, D
<1>6. \A n \in N : cpu(n) \in D /\ RankOf(D, R, cpu(n)) = n
  <2>1. \A n \in 0 .. Cardinality(D) - 1 : \E c \in D : RankOf(D, R, c) = n
    BY ONLY <1>0, <1>2, RankBijection
  <2> QED
    BY <1>1, <2>1 DEF cpu
<1>7. \A c \in D : RankOf(D, R, c) \in N /\ cpu(RankOf(D, R, c)) = c
  <2> TAKE c \in D
  <2>1. RankOf(D, R, c) \in 0 .. Cardinality(D) - 1
    BY ONLY <1>0, <1>2, RankBounds
  <2>2. RankOf(D, R, c) \in N
    BY <1>1, <2>1
  <2>3. cpu(RankOf(D, R, c)) \in D /\ RankOf(D, R, cpu(RankOf(D, R, c))) = RankOf(D, R, c)
    BY <1>6, <2>2
  <2> QED
    BY ONLY <1>0, <1>2, <2>2, <2>3, RankBijection
<1> HIDE DEF N
<1>8. \A n \in N : cpu_position_map[n] \in N
  BY <1>1, <1>5, <1>6
<1>9. \A m, n \in N : cpu_position_map[m] = cpu_position_map[n] => m = n
  BY <1>5, <1>6
<1>10. \A c \in N : \E n \in N : cpu_position_map[n] = c
  BY <1>1, <1>5, <1>7
<1>11. ASSUME NEW m \in N, NEW n \in N, m < n
       PROVE  node[cpu(m)].pkg <= node[cpu(n)].pkg
  <2>1. cpu(m) \in D /\ cpu(n) \in D /\ RankOf(D, R, cpu(m)) = m /\ RankOf(D, R, cpu(n)) = n
    BY <1>6
  <2>2. m \in Int /\ n \in Int /\ ~(n < m)
    BY <1>1, <1>11 DEF N
  <2>3. <<cpu(n), cpu(m)>> \notin R
    BY <1>0, <1>2, <2>1, <2>2, RankGrows
  <2> QED
    BY <1>5a, <2>1, <2>3
<1> QED
  BY <1>5, <1>8, <1>9, <1>10, <1>11 DEF N

-----------------------------------------------------------------------------
(* What a task asks for.                                                   *)

\* Whatever the options, a mask has only CPUs that the task found available.
LEMMA MasksIn ==
  ASSUME NEW S, IsFiniteSet(S), S \subseteq Nat, NEW t, NEW m \in MasksFor(S, t), m # None
  PROVE  m \subseteq S
<1>1. \A n : mask_to_available(S, n) # -1 => mask_to_available(S, n) \in S
  BY Available
<1>2. \A positions : (\A k \in DOMAIN positions : k \in Nat \ {0})
                      => BitsUntilFailure(S, positions) \subseteq S
  <2> SUFFICES ASSUME NEW positions, \A k \in DOMAIN positions : k \in Nat \ {0},
                      NEW b \in BitsUntilFailure(S, positions)
               PROVE  b \in S
    OBVIOUS
  <2> DEFINE bit(k) == mask_to_available(S, cpu_position_map[positions[k]])
  <2>1. b \in {bit(k) : k \in {k \in DOMAIN positions : \A j \in 1 .. k : bit(j) # -1}}
    BY DEF BitsUntilFailure
  <2> HIDE DEF bit
  <2>2. PICK k \in DOMAIN positions : (\A j \in 1 .. k : bit(j) # -1) /\ b = bit(k)
    BY <2>1
  <2>3. k \in 1 .. k
    BY <2>2
  <2>4. bit(k) # -1
    BY <2>2, <2>3
  <2> QED
    BY <1>1, <2>2, <2>4 DEF bit
<1> DEFINE n == check_task_cpus_available(S)
           cpt == IF o.cpt > n THEN 0 ELSE o.cpt
<1>3. \A set : \A x \in cpu_set_physical_to_logical(S, set) : x \subseteq S
  BY <1>1 DEF cpu_set_physical_to_logical
<1>4. \A x \in generate_mask_reverse(S, cpt, n, t) : x \subseteq S
  <2> DEFINE c == get_cpus_per_task(cpt, n)
             first == n - 1 - ((t * c + o.start) % n)
             positions == [k \in 1 .. c |-> (first - (k - 1)) % n]
  <2>1. generate_mask_reverse(S, cpt, n, t) = {BitsUntilFailure(S, positions)}
    BY DEF generate_mask_reverse
  <2>2. \A k \in DOMAIN positions : k \in Nat \ {0}
    OBVIOUS
  <2> HIDE DEF positions
  <2> QED
    BY <1>2, <2>1, <2>2
<1>5. \A x \in generate_mask(S, cpt, n, t) : x \subseteq S
  <2> DEFINE c == get_cpus_per_task(cpt, n)
             positions == [k \in 1 .. c |-> (t * c + o.start + k - 1) % n]
             single == {{mask_to_available(S, id)} \ {-1} : id \in cpu_position_to_id(t + o.start)}
  <2>1. generate_mask(S, cpt, n, t) \in {single, {BitsUntilFailure(S, positions)}}
    BY DEF generate_mask
  <2>2. \A k \in DOMAIN positions : k \in Nat \ {0}
    OBVIOUS
  <2>3. \A x \in single : x \subseteq S
    BY <1>1
  <2> HIDE DEF positions, single
  <2> QED
    BY <1>2, <2>1, <2>2, <2>3
<1> QED
  BY <1>3, <1>4, <1>5 DEF MasksFor

LEMMA AffinityStart == AffinityInit => AffinityInv
<1> SUFFICES ASSUME AffinityInit PROVE AffinityInv
  OBVIOUS
<1>1. Placed = {}
  BY DEF AffinityInit, Placed
<1> QED
  BY <1>1 DEF AffinityInit, AffinityInv

LEMMA SameMasks ==
  ASSUME UNCHANGED <<node, step, o, available>>, NEW S, NEW t
  PROVE  MasksFor(S, t)' = MasksFor(S, t)
BY DEF MasksFor, check_task_cpus_available, cpu_set_physical_to_logical, generate_mask,
   generate_mask_reverse, generate_mask_from_cpus_list, get_cpus_per_task, BitsUntilFailure,
   mask_to_available, cpu_position_to_id, cpu_position_map, nodecpus, ntasks, Before

\* A step that leaves masks alone, and the variables they were made from too
\* once there is a mask.
LEMMA MasksStay ==
  ASSUME AffinityInv, UNCHANGED <<node, step, mask, fresh>>, allowed' \subseteq DOMAIN node,
         Placed # {} => UNCHANGED <<o, available>> /\ stage' \in {"run", "done"}
  PROVE  AffinityInv'
<1>1. Placed' = Placed /\ Tasks' = Tasks
  BY DEF Placed, Tasks, ntasks
<1>2. ASSUME NEW t \in Placed
      PROVE  stage' \in {"run", "done"} /\ mask'[t] \in MasksFor(fresh[t], t)'
  <2>1. UNCHANGED <<o, available, node, step, fresh, mask>> /\ stage' \in {"run", "done"}
    BY <1>2
  <2>2. MasksFor(fresh[t], t)' = MasksFor(fresh[t], t)
    BY <2>1, SameMasks
  <2> QED
    BY <2>1, <2>2 DEF AffinityInv
<1> QED
  BY <1>1, <1>2 DEF AffinityInv

LEMMA AffinityStep == AffinityInv /\ [AffinityNext]_affinityvars => AffinityInv'
<1> SUFFICES ASSUME AffinityInv, [AffinityNext]_affinityvars PROVE AffinityInv'
  OBVIOUS
<1>0. /\ allowed \subseteq DOMAIN node
      /\ Placed # {} => stage \in {"run", "done"}
  BY DEF AffinityInv
<1>1. CASE UNCHANGED affinityvars
  BY <1>0, <1>1, MasksStay DEF affinityvars, given
<1>2. CASE slurm_spank_init
  BY <1>0, <1>2, MasksStay DEF slurm_spank_init, given
<1>3. CASE ProcessOptions
  BY <1>0, <1>3, MasksStay DEF ProcessOptions, given
<1>4. CASE slurm_spank_init_post_opt
  BY <1>0, <1>4, MasksStay DEF slurm_spank_init_post_opt, given
<1>5. CASE slurm_spank_user_init
  BY <1>0, <1>5, MasksStay DEF slurm_spank_user_init, given
<1>6. ASSUME NEW t \in Tasks, slurm_spank_task_init(t)
      PROVE  AffinityInv'
  <2>1. PICK m \in MasksFor(allowed, t) : mask' = [mask EXCEPT ![t] = m]
    BY <1>6 DEF slurm_spank_task_init
  <2>2. /\ fresh' = [fresh EXCEPT ![t] = allowed] /\ stage = "run"
        /\ UNCHANGED <<node, step, stage, o, allowed, available>>
    BY <1>6 DEF slurm_spank_task_init, given
  <2>3. Tasks' = Tasks
    BY <2>2 DEF Tasks, ntasks
  <2>2a. ASSUME NEW u PROVE MasksFor(fresh[u], u)' = MasksFor(fresh'[u], u)
    BY <2>2, SameMasks
  <2>4. DOMAIN mask' = Tasks /\ fresh' \in [Tasks -> SUBSET DOMAIN node]
    BY <2>1, <2>2 DEF AffinityInv
  <2>5. ASSUME NEW u \in Placed'
        PROVE  mask'[u] \in MasksFor(fresh'[u], u)
    <3>0. u \in Tasks /\ mask'[u] # None
      BY <2>3, <2>5 DEF Placed
    <3>1. CASE u = t
      BY <2>1, <2>2, <3>1 DEF AffinityInv
    <3>2. CASE u # t
      <4>1. mask'[u] = mask[u] /\ fresh'[u] = fresh[u]
        BY <2>1, <2>2, <3>0, <3>2 DEF AffinityInv
      <4>2. u \in Placed
        BY <3>0, <4>1 DEF Placed
      <4> QED
        BY <4>1, <4>2 DEF AffinityInv
    <3> QED
      BY <3>1, <3>2
  <2> QED
    BY <2>2, <2>3, <2>4, <2>5, <2>2a DEF AffinityInv
<1>7. CASE slurm_spank_exit
  BY <1>0, <1>7, MasksStay DEF slurm_spank_exit, given
<1>8. ASSUME NEW S \in (SUBSET DOMAIN node) \ {{}}, ChangeCpus(S)
      PROVE  AffinityInv'
  BY <1>0, <1>8, MasksStay DEF ChangeCpus, given
<1> QED
  BY <1>1, <1>2, <1>3, <1>4, <1>5, <1>6, <1>7, <1>8 DEF AffinityNext

\* Every mask was made from the variables as they still are and from the CPUs
\* that its task had, in every state of every step.
THEOREM AffinityInvariance == AffinitySpec => []AffinityInv
BY AffinityStart, AffinityStep, PTL DEF AffinitySpec

LEMMA FreshCpus ==
  ASSUME AffinityInv, NEW t \in Placed
  PROVE  IsFiniteSet(fresh[t]) /\ fresh[t] \subseteq Nat /\ fresh[t] \subseteq DOMAIN node
<1>1. fresh[t] \in SUBSET DOMAIN node
  BY DEF AffinityInv, Placed
<1> QED
  BY <1>1, NodeFacts, FS_Subset

\* A task asks for CPUs that the step has when the task starts, however the CPUs
\* of the step were changed before and whatever the options.
THEOREM OnlyFreshCpus == AffinitySpec => []MasksFresh
<1>1. AffinityInv => MasksFresh
  BY FreshCpus, MasksIn DEF AffinityInv, MasksFresh, Placed
<1> QED
  BY <1>1, AffinityInvariance, PTL

-----------------------------------------------------------------------------
(* Tasks get positions of their own.                                       *)

\* The position that task t looks up for the k-th CPU of its share.
PlaceOf(t, k) ==
  IF o.reverse
  THEN ((available - 1 - ((t * Share + o.start) % available)) - (k - 1)) % available
  ELSE IF Share = 1 THEN t + o.start
  ELSE (t * Share + o.start + k - 1) % available

Places(t) == [k \in 1 .. Share |-> PlaceOf(t, k)]

\* What a task with an automatic mask has asked for, if its CPUs are unchanged.
LEMMA PlacedMask ==
  ASSUME AffinityInv, Automatic, InsideMap, NEW t \in Placed, fresh[t] = allowed,
         Cardinality(allowed) = available
  PROVE  /\ available \in Nat /\ available > 1 /\ available <= nodecpus
         /\ ntasks <= available /\ Share \in 1 .. available
         /\ mask[t] = BitsUntilFailure(allowed, Places(t))
<1> DEFINE cpt == IF o.cpt > available THEN 0 ELSE o.cpt
<1>1. /\ nodecpus \in Nat /\ DOMAIN node = 0 .. nodecpus - 1 /\ IsFiniteSet(DOMAIN node)
      /\ ntasks \in Nat \ {0}
  BY NodeFacts
<1>2. allowed \in SUBSET DOMAIN node
  BY DEF AffinityInv
<1>3. available \in Nat /\ available <= nodecpus
  BY <1>1, <1>2, FS_Subset, FS_CardinalityType DEF nodecpus
<1>4. check_task_cpus_available(allowed) = available
  BY <1>3 DEF check_task_cpus_available
<1>5. mask[t] \in MasksFor(allowed, t) /\ mask[t] # None
  BY DEF AffinityInv, Placed
<1>6. available > 1 /\ ntasks <= available
  BY <1>1, <1>3, <1>4, <1>5 DEF MasksFor
<1>7. mask[t] \in IF o.reverse THEN generate_mask_reverse(allowed, cpt, available, t)
                 ELSE generate_mask(allowed, cpt, available, t)
  BY <1>4, <1>5 DEF MasksFor, Automatic
<1>8. o.cpt \in Nat /\ o.start \in Nat
  BY DEF Automatic
<1>9. available \div ntasks \in 1 .. available
  <2>1. available = (ntasks * (available \div ntasks)) + (available % ntasks)
        /\ available % ntasks \in 0 .. ntasks - 1 /\ available \div ntasks \in Int
    BY <1>1, <1>3, DivMod
  <2> DEFINE q == available \div ntasks
  <2>2. q \in Int /\ ntasks * q <= available /\ available < ntasks * q + ntasks
    BY <1>1, <1>3, <2>1
  <2> HIDE DEF q
  <2>3. q >= 1
    <3> SUFFICES ASSUME q <= 0 PROVE FALSE
      BY <2>2
    <3>1. ntasks * q <= 0
      BY <1>1, <2>2
    <3> QED
      BY <1>1, <1>3, <1>6, <2>2, <3>1
  <2>4. q <= ntasks * q
    BY <1>1, <2>2, <2>3
  <2>5. q \in 1 .. available
    BY <1>1, <1>3, <2>2, <2>3, <2>4
  <2> QED
    BY <2>5 DEF q
<1>10. get_cpus_per_task(cpt, available) = Share /\ Share \in 1 .. available
  BY <1>3, <1>8, <1>9 DEF get_cpus_per_task, Share
<1> HIDE DEF cpt
<1>11. CASE o.reverse
  <2>1. mask[t] = BitsUntilFailure(allowed,
          [k \in 1 .. Share |->
             ((available - 1 - ((t * Share + o.start) % available)) - (k - 1)) % available])
    BY <1>7, <1>10, <1>11 DEF generate_mask_reverse
  <2>2. Places(t) = [k \in 1 .. Share |->
             ((available - 1 - ((t * Share + o.start) % available)) - (k - 1)) % available]
    BY <1>11 DEF Places, PlaceOf
  <2> QED
    BY <1>3, <1>6, <1>10, <2>1, <2>2
<1>12. CASE ~o.reverse /\ Share # 1
  <2>1. mask[t] = BitsUntilFailure(allowed,
          [k \in 1 .. Share |-> (t * Share + o.start + k - 1) % available])
    BY <1>7, <1>10, <1>12 DEF generate_mask
  <2>2. Places(t) = [k \in 1 .. Share |-> (t * Share + o.start + k - 1) % available]
    BY <1>12 DEF Places, PlaceOf
  <2> QED
    BY <1>3, <1>6, <1>10, <2>1, <2>2
<1>13. CASE ~o.reverse /\ Share = 1
  <2> DEFINE z == t + o.start
             bit == mask_to_available(allowed, cpu_position_map[z])
             bits(k) == mask_to_available(allowed, cpu_position_map[Places(t)[k]])
  <2>0. t \in 0 .. ntasks - 1
    BY DEF Placed, Tasks
  <2>1. z \in 0 .. nodecpus - 1
    BY <1>1, <1>8, <1>13, <2>0 DEF InsideMap
  <2>2. cpu_position_to_id(z) = {cpu_position_map[z]}
    BY <2>1, Positions DEF cpu_position_to_id
  <2>3. mask[t] \in {{mask_to_available(allowed, c)} \ {-1} : c \in cpu_position_to_id(z)}
    BY <1>7, <1>10, <1>13 DEF generate_mask
  <2>4. mask[t] = {bit} \ {-1}
    BY <2>2, <2>3
  <2>5. DOMAIN Places(t) = {1} /\ Places(t)[1] = z
    BY <1>13 DEF Places, PlaceOf
  <2>6. BitsUntilFailure(allowed, Places(t))
          = {bits(k) : k \in {k \in DOMAIN Places(t) : \A j \in 1 .. k : bits(j) # -1}}
    BY DEF BitsUntilFailure
  <2>7. bits(1) = bit
    BY <2>5
  <2> HIDE DEF bits, bit
  <2>8. {k \in DOMAIN Places(t) : \A j \in 1 .. k : bits(j) # -1} = IF bit = -1 THEN {} ELSE {1}
    BY <2>5, <2>7
  <2>9. BitsUntilFailure(allowed, Places(t)) = {bit} \ {-1}
    BY <2>6, <2>7, <2>8
  <2> QED
    BY <1>3, <1>6, <1>10, <2>4, <2>9
<1> QED
  BY <1>11, <1>12, <1>13

\* CPU i of task t and CPU j of task u are counted by different numbers.
LEMMA ShareNumbers ==
  ASSUME NEW c \in Nat \ {0}, NEW tasks \in Nat, NEW n \in Nat, c * tasks <= n,
         NEW t \in 0 .. tasks - 1, NEW i \in 0 .. c - 1
  PROVE  /\ t * c + i \in 0 .. n - 1
         /\ \A u \in 0 .. tasks - 1, j \in 0 .. c - 1 : t * c + i = u * c + j => t = u /\ i = j
<1>1. \A u \in 0 .. tasks - 1 : u * c >= 0 /\ u * c + c <= n
  <2> TAKE u \in 0 .. tasks - 1
  <2>1. u + 1 <= tasks /\ u + 1 \in Nat
    OBVIOUS
  <2>2. (u + 1) * c <= tasks * c
    BY <2>1
  <2>3. (u + 1) * c = u * c + c /\ tasks * c = c * tasks /\ u * c >= 0 /\ u * c \in Int
    OBVIOUS
  <2> QED
    BY <2>2, <2>3
<1>2. \A u, v \in 0 .. tasks - 1 : u < v => u * c + c <= v * c
  <2> TAKE u \in 0 .. tasks - 1, v \in 0 .. tasks - 1
  <2>1. u < v => (u + 1) * c <= v * c
    OBVIOUS
  <2>2. (u + 1) * c = u * c + c
    OBVIOUS
  <2> QED
    BY <2>1, <2>2
<1>3. \A u \in 0 .. tasks - 1 : u * c \in Int
  OBVIOUS
<1>4. t * c + i \in 0 .. n - 1
  BY <1>1, <1>3
<1>5. ASSUME NEW u \in 0 .. tasks - 1, NEW j \in 0 .. c - 1, t * c + i = u * c + j
      PROVE  t = u /\ i = j
  <2>1. ~(t < u)
    BY <1>2, <1>3, <1>5
  <2>2. ~(u < t)
    BY <1>2, <1>3, <1>5
  <2>3. t = u
    BY <2>1, <2>2
  <2> QED
    BY <1>3, <1>5, <2>3
<1> QED
  BY <1>4, <1>5

\* Positions lie in the map, and equal ones come from the same number.
LEMMA PlaceNumbers ==
  ASSUME AffinityInv, o.start \in Nat, InsideMap, available \in Nat \ {0}, available <= nodecpus,
         Share \in 1 .. available, NEW t \in Tasks, NEW i \in 1 .. Share
  PROVE  /\ PlaceOf(t, i) \in 0 .. nodecpus - 1
         /\ \A u \in Tasks, j \in 1 .. Share :
              /\ PlaceOf(t, i) = PlaceOf(u, j)
              /\ (t * Share + i) - (u * Share + j) < available
              /\ (u * Share + j) - (t * Share + i) < available
              => t * Share + i = u * Share + j
<1>1. nodecpus \in Nat /\ ntasks \in Nat \ {0} /\ Tasks = 0 .. ntasks - 1
  BY NodeFacts DEF Tasks
<1>2. PICK n \in Nat \ {0} : n = available
  OBVIOUS
<1>3. PICK c \in 1 .. n : c = Share
  BY <1>2
<1>4. PICK s \in Nat : s = o.start
  OBVIOUS
<1>5. \A u \in Tasks : u * c \in Int
  BY <1>1
<1>6. CASE o.reverse
  <2> DEFINE first(u) == n - 1 - ((u * c + s) % n)
  <2>1. \A u \in Tasks, j \in 1 .. Share : PlaceOf(u, j) = (first(u) - (j - 1)) % n
    BY <1>2, <1>3, <1>4, <1>6 DEF PlaceOf
  <2>2. \A u \in Tasks : first(u) \in Int
                         /\ \E q \in Int : first(u) = n - 1 - (u * c + s) + n * q
    <3> TAKE u \in Tasks
    <3> DEFINE x == u * c + s
    <3>1. x \in Int
      BY <1>5
    <3> HIDE DEF x
    <3>2. x = (n * (x \div n)) + (x % n) /\ x \div n \in Int /\ x % n \in Int
      <4>1. x = (n * (x \div n)) + (x % n) /\ x \div n \in Int /\ x % n \in 0 .. n - 1
        BY ONLY <3>1, n \in Nat \ {0}, DivMod
      <4> QED
        BY <4>1
    <3>3. first(u) = n - 1 - x + n * (x \div n)
      BY <3>1, <3>2 DEF x
    <3>4. first(u) \in Int
      BY <3>1, <3>2 DEF x
    <3> QED
      BY <3>2, <3>3, <3>4 DEF x
  <2> HIDE DEF first
  <2>3. PlaceOf(t, i) \in 0 .. nodecpus - 1
    <3>1. first(t) - (i - 1) \in Int
      BY <1>3, <2>2
    <3>2. (first(t) - (i - 1)) % n \in 0 .. n - 1
      BY <3>1, DivMod
    <3> QED
      BY <1>1, <1>2, <2>1, <3>2
  <2>4. ASSUME NEW u \in Tasks, NEW j \in 1 .. Share, PlaceOf(t, i) = PlaceOf(u, j),
               (t * c + i) - (u * c + j) < n, (u * c + j) - (t * c + i) < n
        PROVE  t * c + i = u * c + j
    <3> DEFINE a == first(t) - (i - 1)
               b == first(u) - (j - 1)
               d == a \div n
               e == b \div n
               r == a % n
    <3>1. a \in Int /\ b \in Int /\ a % n = b % n
      BY <1>3, <2>1, <2>2, <2>4
    <3>2. PICK q1 \in Int : first(t) = n - 1 - (t * c + s) + n * q1
      BY <2>2
    <3>3. PICK q2 \in Int : first(u) = n - 1 - (u * c + s) + n * q2
      BY <2>2
    <3> HIDE DEF a, b
    <3>4. a = n * d + r /\ b = n * e + r /\ d \in Int /\ e \in Int /\ r \in Int
      <4>1. a = (n * (a \div n)) + (a % n) /\ a \div n \in Int /\ a % n \in 0 .. n - 1
        BY ONLY <3>1, n \in Nat \ {0}, DivMod
      <4>2. b = (n * (b \div n)) + (b % n) /\ b \div n \in Int
        BY ONLY <3>1, n \in Nat \ {0}, DivMod
      <4> QED
        BY <3>1, <4>1, <4>2
    <3> HIDE DEF d, e, r
    <3>5. PICK x \in Int : x = t * c
      BY <1>5
    <3>6. PICK y \in Int : y = u * c
      BY <1>5
    <3>7. a = n - 1 - (x + s) + n * q1 - (i - 1) /\ b = n - 1 - (y + s) + n * q2 - (j - 1)
      BY <3>2, <3>3, <3>5, <3>6 DEF a, b
    <3>8. (y + j) - (x + i) = (n * d - n * q1) - (n * e - n * q2)
      BY <1>3, <3>4, <3>7
    <3>9. (n * d - n * q1) - (n * e - n * q2) = n * (d - q1) - n * (e - q2)
      BY <3>4
    <3>10. d - q1 \in Int /\ e - q2 \in Int
      BY <3>4
    <3>11. n * (d - q1) - n * (e - q2) < n /\ -n < n * (d - q1) - n * (e - q2)
      BY <1>3, <2>4, <3>5, <3>6, <3>8, <3>9
    <3>12. d - q1 = e - q2
      BY <3>10, <3>11, NoMultiple
    <3>13. n * (d - q1) - n * (e - q2) = 0
      BY <3>10, <3>12
    <3> QED
      BY <1>3, <3>5, <3>6, <3>8, <3>9, <3>13
  <2> QED
    BY <1>2, <1>3, <2>3, <2>4
<1>7. CASE ~o.reverse /\ c = 1
  <2>1. \A u \in Tasks, j \in 1 .. Share : PlaceOf(u, j) = u + s /\ j = 1
    BY <1>3, <1>4, <1>7 DEF PlaceOf
  <2>2. s + ntasks <= nodecpus
    BY <1>3, <1>4, <1>7 DEF InsideMap
  <2> QED
    BY <1>1, <1>3, <1>7, <2>1, <2>2
<1>8. CASE ~o.reverse /\ c # 1
  <2>1. \A u \in Tasks, j \in 1 .. Share : PlaceOf(u, j) = (u * c + s + j - 1) % n
    BY <1>2, <1>3, <1>4, <1>8 DEF PlaceOf
  <2>2. \A u \in Tasks, j \in 1 .. Share : u * c + s + j - 1 \in Int
    BY <1>3, <1>5
  <2>3. PlaceOf(t, i) \in 0 .. nodecpus - 1
    <3>1. (t * c + s + i - 1) % n \in 0 .. n - 1
      BY <2>2, DivMod
    <3> QED
      BY <1>1, <1>2, <2>1, <3>1
  <2>4. ASSUME NEW u \in Tasks, NEW j \in 1 .. Share, PlaceOf(t, i) = PlaceOf(u, j),
               (t * c + i) - (u * c + j) < n, (u * c + j) - (t * c + i) < n
        PROVE  t * c + i = u * c + j
    <3>1. PICK x \in Int : x = t * c
      BY <1>5
    <3>2. PICK y \in Int : y = u * c
      BY <1>5
    <3>3. (x + s + i - 1) % n = (y + s + j - 1) % n
      BY <2>1, <2>4, <3>1, <3>2
    <3>4. /\ x + s + i - 1 \in Int /\ y + s + j - 1 \in Int
          /\ (x + s + i - 1) - (y + s + j - 1) < n /\ (y + s + j - 1) - (x + s + i - 1) < n
      BY <1>3, <2>4, <3>1, <3>2
    <3>5. x + s + i - 1 = y + s + j - 1
      <4> DEFINE a == x + s + i - 1
                 b == y + s + j - 1
      <4>1. a \in Int /\ b \in Int /\ a % n = b % n /\ a - b < n /\ b - a < n
        BY <3>3, <3>4
      <4> HIDE DEF a, b
      <4>2. a = b
        BY <4>1, SameMod
      <4> QED
        BY <4>2 DEF a, b
    <3> QED
      BY <1>3, <3>1, <3>2, <3>5
  <2> QED
    BY <1>2, <1>3, <2>3, <2>4
<1> QED
  BY <1>6, <1>7, <1>8

\* A CPU in a mask is the one that a position of the task leads to.
LEMMA BitPlaces ==
  ASSUME NEW S, NEW t, NEW b \in BitsUntilFailure(S, Places(t))
  PROVE  \E k \in 1 .. Share :
           b = mask_to_available(S, cpu_position_map[PlaceOf(t, k)]) /\ b # -1
<1> DEFINE bit(k) == mask_to_available(S, cpu_position_map[Places(t)[k]])
<1>1. DOMAIN Places(t) = 1 .. Share /\ \A k \in 1 .. Share : Places(t)[k] = PlaceOf(t, k)
  BY DEF Places
<1>2. b \in {bit(k) : k \in {k \in DOMAIN Places(t) : \A j \in 1 .. k : bit(j) # -1}}
  BY DEF BitsUntilFailure
<1> HIDE DEF bit
<1>3. PICK k \in 1 .. Share : (\A j \in 1 .. k : bit(j) # -1) /\ b = bit(k)
  BY <1>1, <1>2
<1>4. k \in 1 .. k
  BY <1>3
<1> QED
  BY <1>1, <1>3, <1>4 DEF bit

\* Tasks that are given CPUs automatically share none, for every topology, number
\* of tasks, share and start=, in both directions, whatever CPUs are missing, if
\* the CPUs stayed as they were and are enough for all shares.
THEOREM NoCpuTwice == AffinitySpec => []TasksApart
<1> SUFFICES AffinityInv => TasksApart
  BY AffinityInvariance, PTL
<1> SUFFICES ASSUME AffinityInv, Steady, Automatic, InsideMap, Share * ntasks <= available,
                    NEW t \in Placed, NEW u \in Placed, t # u,
                    NEW b, b \in mask[t], b \in mask[u]
             PROVE  FALSE
  BY DEF TasksApart
<1>1. fresh[t] = allowed /\ fresh[u] = allowed /\ Cardinality(allowed) = available
  BY DEF Steady
<1>2. /\ available \in Nat /\ available > 1 /\ available <= nodecpus /\ Share \in 1 .. available
      /\ mask[t] = BitsUntilFailure(allowed, Places(t))
      /\ mask[u] = BitsUntilFailure(allowed, Places(u))
  BY <1>1, PlacedMask
<1>3. PICK i \in 1 .. Share :
        b = mask_to_available(allowed, cpu_position_map[PlaceOf(t, i)]) /\ b # -1
  BY <1>2, BitPlaces
<1>4. PICK j \in 1 .. Share :
        b = mask_to_available(allowed, cpu_position_map[PlaceOf(u, j)]) /\ b # -1
  BY <1>2, BitPlaces
<1>5. cpu_position_map[PlaceOf(t, i)] = cpu_position_map[PlaceOf(u, j)]
  <2>1. allowed \in SUBSET DOMAIN node /\ IsFiniteSet(DOMAIN node) /\ DOMAIN node \subseteq Nat
    BY NodeFacts DEF AffinityInv
  <2>2. IsFiniteSet(allowed) /\ allowed \subseteq Nat
    BY <2>1, FS_Subset
  <2>3. \A m, n : mask_to_available(allowed, m) = mask_to_available(allowed, n)
                  /\ mask_to_available(allowed, m) # -1 => m = n
    BY <2>2, Available
  <2> QED
    BY <1>3, <1>4, <2>3, Zenon
<1>6. t \in Tasks /\ u \in Tasks /\ Tasks = 0 .. ntasks - 1 /\ ntasks \in Nat \ {0}
  BY NodeFacts DEF Placed, Tasks
<1>7. o.start \in Nat /\ available \in Nat \ {0}
  BY <1>2 DEF Automatic
<1>8. PlaceOf(t, i) \in 0 .. nodecpus - 1 /\ PlaceOf(u, j) \in 0 .. nodecpus - 1
  BY <1>2, <1>6, <1>7, PlaceNumbers
<1>9. PlaceOf(t, i) = PlaceOf(u, j)
  BY <1>5, <1>8, Positions
<1>10. PICK c \in Nat \ {0} : c = Share
  BY <1>2
<1>11. t * c + (i - 1) \in 0 .. available - 1 /\ u * c + (j - 1) \in 0 .. available - 1
       /\ (t * c + (i - 1) = u * c + (j - 1) => t = u)
  <2>1. i - 1 \in 0 .. c - 1 /\ j - 1 \in 0 .. c - 1 /\ c * ntasks <= available
    BY <1>10
  <2> QED
    BY <1>2, <1>6, <2>1, ShareNumbers
<1>12. t * c \in Int /\ u * c \in Int /\ i \in Int /\ j \in Int
  BY <1>6, <1>10
<1>13. (t * c + i) - (u * c + j) < available /\ (u * c + j) - (t * c + i) < available
  BY <1>2, <1>11, <1>12
<1>14. t * c + i = u * c + j
  BY <1>2, <1>6, <1>7, <1>9, <1>10, <1>13, PlaceNumbers
<1> QED
  BY <1>11, <1>12, <1>14

-----------------------------------------------------------------------------
(* Tasks get whole shares.                                                 *)

\* The CPU at a position of the node, when the task has the whole node.
CpuAt(z) == mask_to_available(allowed, cpu_position_map[z])

LEMMA WholeNode ==
  ASSUME AffinityInv, Cardinality(allowed) = nodecpus
  PROVE  /\ allowed = DOMAIN node
         /\ \A z \in 0 .. nodecpus - 1 : CpuAt(z) \in DOMAIN node /\ CpuAt(z) # -1
         /\ \A y, z \in 0 .. nodecpus - 1 : CpuAt(y) = CpuAt(z) => y = z
         /\ \A c \in DOMAIN node : \E z \in 0 .. nodecpus - 1 : CpuAt(z) = c
<1>1. allowed \in SUBSET DOMAIN node /\ IsFiniteSet(DOMAIN node) /\ DOMAIN node \subseteq Nat
  BY NodeFacts DEF AffinityInv
<1>2. allowed = DOMAIN node
  BY <1>1, FS_Subset DEF nodecpus
<1>3. IsFiniteSet(allowed) /\ allowed \subseteq Nat
  BY <1>1, <1>2
<1>4. /\ \A n \in 0 .. nodecpus - 1 : mask_to_available(allowed, n) \in allowed
      /\ \A m, n : mask_to_available(allowed, m) = mask_to_available(allowed, n)
                   /\ mask_to_available(allowed, m) # -1 => m = n
      /\ \A c \in allowed : \E n \in 0 .. nodecpus - 1 : mask_to_available(allowed, n) = c
  BY <1>3, Available
<1>5. \A z \in 0 .. nodecpus - 1 : CpuAt(z) \in DOMAIN node /\ CpuAt(z) # -1
  <2> TAKE z \in 0 .. nodecpus - 1
  <2>1. cpu_position_map[z] \in 0 .. nodecpus - 1
    BY Positions
  <2>2. CpuAt(z) \in DOMAIN node
    BY <1>2, <1>4, <2>1 DEF CpuAt
  <2>3. CpuAt(z) \in Nat
    BY <1>1, <2>2
  <2> QED
    BY <2>2, <2>3
<1>6. \A y, z \in 0 .. nodecpus - 1 : CpuAt(y) = CpuAt(z) => y = z
  <2> SUFFICES ASSUME NEW y \in 0 .. nodecpus - 1, NEW z \in 0 .. nodecpus - 1, CpuAt(y) = CpuAt(z)
               PROVE  y = z
    OBVIOUS
  <2>1. cpu_position_map[y] = cpu_position_map[z]
    BY <1>4, <1>5, Zenon DEF CpuAt
  <2> QED
    BY <2>1, Positions
<1>7. ASSUME NEW c \in DOMAIN node
      PROVE  \E z \in 0 .. nodecpus - 1 : CpuAt(z) = c
  <2>1. PICK n \in 0 .. nodecpus - 1 : mask_to_available(allowed, n) = c
    BY <1>2, <1>4
  <2>2. PICK z \in 0 .. nodecpus - 1 : cpu_position_map[z] = n
    BY Positions
  <2> QED
    BY <2>1, <2>2 DEF CpuAt
<1> QED
  BY <1>2, <1>5, <1>6, <1>7

LEMMA FullMask ==
  ASSUME AffinityInv, Steady, Automatic, InsideMap, available = nodecpus, NEW t \in Placed
  PROVE  /\ nodecpus \in Nat \ {0} /\ Share \in 1 .. nodecpus /\ Cardinality(allowed) = nodecpus
         /\ t \in Tasks /\ \A k \in 1 .. Share : PlaceOf(t, k) \in 0 .. nodecpus - 1
         /\ mask[t] = {CpuAt(PlaceOf(t, k)) : k \in 1 .. Share}
<1>1. fresh[t] = allowed /\ Cardinality(allowed) = available
  BY DEF Steady
<1>2. /\ nodecpus \in Nat /\ nodecpus > 1 /\ Share \in 1 .. nodecpus
      /\ mask[t] = BitsUntilFailure(allowed, Places(t))
  BY <1>1, PlacedMask
<1>3. t \in Tasks /\ o.start \in Nat /\ available \in Nat \ {0} /\ available <= nodecpus
  BY <1>2 DEF Placed, Automatic
<1>4. \A k \in 1 .. Share : PlaceOf(t, k) \in 0 .. nodecpus - 1
  BY <1>2, <1>3, PlaceNumbers
<1>5. \A k \in 1 .. Share : CpuAt(PlaceOf(t, k)) # -1
  BY <1>1, <1>4, WholeNode
<1> DEFINE bit(k) == mask_to_available(allowed, cpu_position_map[Places(t)[k]])
<1>6. \A k \in 1 .. Share : bit(k) = CpuAt(PlaceOf(t, k))
  BY DEF Places, CpuAt
<1>7. mask[t] = {bit(k) : k \in {k \in DOMAIN Places(t) : \A j \in 1 .. k : bit(j) # -1}}
  BY <1>2 DEF BitsUntilFailure
<1>8. DOMAIN Places(t) = 1 .. Share
  BY DEF Places
<1> HIDE DEF bit
<1>9. \A k \in 1 .. Share : \A j \in 1 .. k : bit(j) # -1
  <2> TAKE k \in 1 .. Share
  <2> TAKE j \in 1 .. k
  <2>1. j \in 1 .. Share
    BY <1>2
  <2> QED
    BY <1>5, <1>6, <2>1
<1>10. {k \in DOMAIN Places(t) : \A j \in 1 .. k : bit(j) # -1} = 1 .. Share
  BY <1>8, <1>9
<1>11. mask[t] = {CpuAt(PlaceOf(t, k)) : k \in 1 .. Share}
  BY <1>6, <1>7, <1>10
<1> QED
  BY <1>1, <1>2, <1>3, <1>4, <1>11

\* Every position is one of some task's if the shares come out even.
LEMMA EveryPlace ==
  ASSUME AffinityInv, o.start \in Nat, InsideMap, available = nodecpus, nodecpus \in Nat \ {0},
         Share \in 1 .. nodecpus, Share * ntasks = nodecpus, NEW z \in 0 .. nodecpus - 1
  PROVE  \E t \in Tasks, k \in 1 .. Share : PlaceOf(t, k) = z
<1>1. ntasks \in Nat \ {0} /\ Tasks = 0 .. ntasks - 1
  BY NodeFacts DEF Tasks
<1>2. PICK n \in Nat \ {0} : n = nodecpus
  OBVIOUS
<1>3. PICK c \in Nat \ {0} : c = Share
  OBVIOUS
<1>4. PICK s \in Nat : s = o.start
  OBVIOUS
<1>5. PICK tasks \in Nat \ {0} : tasks = ntasks
  BY <1>1
<1>6. z \in 0 .. n - 1 /\ c * tasks = n
  BY <1>2, <1>3, <1>5
\* Number a is the k-th CPU of task t.
<1>7. ASSUME NEW a \in 0 .. n - 1
      PROVE  \E t \in Tasks, k \in 1 .. Share : t * c + (k - 1) = a
  <2> DEFINE t == a \div c
             r == a % c
  <2>1. a = c * t + r /\ t \in Int /\ r \in 0 .. c - 1
    <3>1. a \in Int /\ c \in Nat \ {0}
      OBVIOUS
    <3> QED
      BY ONLY <3>1, DivMod
  <2> HIDE DEF t, r
  <2>2. t >= 0
    <3> SUFFICES ASSUME t <= -1 PROVE FALSE
      BY <2>1
    <3>1. c * t <= -c
      BY <2>1
    <3>2. c * t \in Int
      BY <2>1
    <3> QED
      BY <2>1, <3>1, <3>2
  <2>3. t <= tasks - 1
    <3> SUFFICES ASSUME t >= tasks PROVE FALSE
      BY <2>1
    <3>1. c * t >= c * tasks /\ c * t \in Int /\ c * tasks \in Int
      BY <2>1
    <3> QED
      BY <1>6, <2>1, <3>1
  <2>4. c * t = t * c /\ t * c \in Int
    BY <2>1
  <2>5. t \in Tasks /\ r + 1 \in 1 .. Share
    BY <1>1, <1>3, <1>5, <2>1, <2>2, <2>3
  <2>6. t * c + ((r + 1) - 1) = a
    BY <2>1, <2>4
  <2> QED
    BY <2>5, <2>6
<1>8. CASE o.reverse
  <2> DEFINE w == n - 1 - z - s
             a == w % n
             q == w \div n
  <2>1. w = n * q + a /\ q \in Int /\ a \in 0 .. n - 1
    <3>1. w \in Int
      BY <1>6
    <3> HIDE DEF w
    <3> QED
      BY <3>1, DivMod
  <2> HIDE DEF a, q
  <2>2. PICK t \in Tasks, k \in 1 .. Share : t * c + (k - 1) = a
    BY <1>7, <2>1
  <2>3. PICK x \in Int : x = t * c
    BY <1>1
  <2> DEFINE p == (x + s) \div n
             r == (x + s) % n
  <2>4. x + s = n * p + r /\ p \in Int /\ r \in Int
    <3>1. x + s \in Int
      BY <2>3
    <3>2. x + s = (n * ((x + s) \div n)) + ((x + s) % n) /\ (x + s) \div n \in Int
          /\ (x + s) % n \in 0 .. n - 1
      BY ONLY <3>1, n \in Nat \ {0}, DivMod
    <3> QED
      BY <3>2
  <2>5. PlaceOf(t, k) = ((n - 1 - r) - (k - 1)) % n
    BY <1>2, <1>3, <1>4, <1>8, <2>3 DEF PlaceOf
  <2> HIDE DEF p, r
  <2>6. (n - 1 - r) - (k - 1) = z + n * (p + q)
    <3>1. n * (p + q) = n * p + n * q
      BY <2>1, <2>4
    <3>2. k \in Int /\ x + (k - 1) = a
      BY <2>2, <2>3
    <3>3. n * p \in Int /\ n * q \in Int
      BY <2>1, <2>4
    <3> QED
      BY <1>6, <2>1, <2>4, <3>1, <3>2, <3>3
  <2> DEFINE y == (n - 1 - r) - (k - 1)
  <2>7. y \in Int /\ p + q \in Int /\ y = z + n * (p + q)
    BY <2>1, <2>2, <2>4, <2>6
  <2> HIDE DEF y
  <2>8. y % n = z
    BY <1>6, <2>7, ModIs
  <2> QED
    BY <2>2, <2>5, <2>8 DEF y
<1>9. CASE ~o.reverse /\ c = 1
  <2>1. s + tasks <= n /\ tasks = n
    BY <1>2, <1>3, <1>4, <1>5, <1>6, <1>9 DEF InsideMap
  <2>2. s = 0 /\ z \in Tasks /\ 1 \in 1 .. Share
    BY <1>1, <1>3, <1>5, <1>6, <2>1
  <2>3. PlaceOf(z, 1) = z
    BY <1>3, <1>4, <1>9, <2>2 DEF PlaceOf
  <2> QED
    BY <2>2, <2>3
<1>10. CASE ~o.reverse /\ c # 1
  <2> DEFINE w == z - s
             a == w % n
             q == w \div n
  <2>1. w = n * q + a /\ q \in Int /\ a \in 0 .. n - 1
    <3>1. w \in Int
      BY <1>6
    <3> HIDE DEF w
    <3> QED
      BY <3>1, DivMod
  <2> HIDE DEF a, q
  <2>2. PICK t \in Tasks, k \in 1 .. Share : t * c + (k - 1) = a
    BY <1>7, <2>1
  <2>3. PICK x \in Int : x = t * c
    BY <1>1
  <2>4. PlaceOf(t, k) = (x + s + k - 1) % n
    BY <1>2, <1>3, <1>4, <1>10, <2>3 DEF PlaceOf
  <2> DEFINE y == x + s + k - 1
  <2>5. y \in Int /\ -q \in Int /\ y = z + n * (-q)
    <3>1. k \in Int /\ x + (k - 1) = a
      BY <2>2, <2>3
    <3>2. n * (-q) = -(n * q) /\ n * q \in Int
      BY <2>1
    <3> QED
      BY <1>6, <2>1, <3>1, <3>2
  <2> HIDE DEF y
  <2>6. y % n = z
    BY <1>6, <2>5, ModIs
  <2> QED
    BY <2>2, <2>4, <2>6 DEF y
<1> QED
  BY <1>8, <1>9, <1>10

\* With the whole node every task gets its share, neither a CPU more nor less,
\* and the tasks together get every CPU if the shares come out even.
THEOREM SharesAreFull == AffinitySpec => []FullShares
<1> SUFFICES AffinityInv => FullShares
  BY AffinityInvariance, PTL
<1> SUFFICES ASSUME AffinityInv, Steady, Automatic, InsideMap, available = nodecpus
             PROVE  /\ \A t \in Placed : Cardinality(mask[t]) = Share
                    /\ Placed = Tasks /\ Share * ntasks = nodecpus
                         => UNION {mask[t] : t \in Tasks} = DOMAIN node
  BY DEF FullShares
<1>1. ASSUME NEW t \in Placed
      PROVE  Cardinality(mask[t]) = Share
  <2>1. /\ nodecpus \in Nat \ {0} /\ Share \in 1 .. nodecpus /\ Cardinality(allowed) = nodecpus
        /\ t \in Tasks /\ \A k \in 1 .. Share : PlaceOf(t, k) \in 0 .. nodecpus - 1
        /\ mask[t] = {CpuAt(PlaceOf(t, k)) : k \in 1 .. Share}
    BY FullMask
  <2> DEFINE f == [k \in 1 .. Share |-> CpuAt(PlaceOf(t, k))]
  <2>2. f \in [1 .. Share -> mask[t]] /\ \A b \in mask[t] : \E k \in 1 .. Share : f[k] = b
    BY <2>1
  <2>3. \A i, j \in 1 .. Share : f[i] = f[j] => i = j
    <3> SUFFICES ASSUME NEW i \in 1 .. Share, NEW j \in 1 .. Share,
                        CpuAt(PlaceOf(t, i)) = CpuAt(PlaceOf(t, j))
                 PROVE  i = j
      OBVIOUS
    <3>1. PlaceOf(t, i) = PlaceOf(t, j)
      BY <2>1, WholeNode
    <3>2. t \in Nat
      BY <2>1, NodeFacts DEF Tasks
    <3>3. PICK x \in Int : x = t * Share
      BY <2>1, <3>2
    <3>4. (x + i) - (x + j) < available /\ (x + j) - (x + i) < available
      BY <2>1
    <3>5. o.start \in Nat /\ available \in Nat \ {0} /\ available <= nodecpus
          /\ Share \in 1 .. available
      BY <2>1 DEF Automatic
    <3>6. x + i = x + j
      BY <2>1, <3>1, <3>3, <3>4, <3>5, PlaceNumbers
    <3> QED
      BY <2>1, <3>6
  <2>4. IsFiniteSet(1 .. Share) /\ Cardinality(1 .. Share) = Share
    <3>1. 1 \in Int /\ Share \in Int /\ ~(1 > Share)
      BY <2>1
    <3>2. IsFiniteSet(1 .. Share) /\ Cardinality(1 .. Share) = Share - 1 + 1
      BY ONLY <3>1, FS_Interval
    <3> QED
      BY <3>1, <3>2
  <2> HIDE DEF f
  <2> QED
    BY <2>2, <2>3, <2>4, SameSize
<1>2. ASSUME Placed = Tasks, Share * ntasks = nodecpus
      PROVE  UNION {mask[t] : t \in Tasks} = DOMAIN node
  <2>1. nodecpus \in Nat \ {0} /\ Share \in 1 .. nodecpus /\ Cardinality(allowed) = nodecpus
    <3>1. 0 \in Placed
      BY <1>2, NodeFacts DEF Tasks
    <3> QED
      BY <3>1, FullMask
  <2>2. \A t \in Tasks :
          /\ \A k \in 1 .. Share : PlaceOf(t, k) \in 0 .. nodecpus - 1
          /\ mask[t] = {CpuAt(PlaceOf(t, k)) : k \in 1 .. Share}
    BY <1>2, FullMask
  <2>3. \A t \in Tasks : mask[t] \subseteq DOMAIN node
    BY <2>1, <2>2, WholeNode
  <2>4. ASSUME NEW c \in DOMAIN node
        PROVE  \E t \in Tasks : c \in mask[t]
    <3>1. PICK z \in 0 .. nodecpus - 1 : CpuAt(z) = c
      BY <2>1, WholeNode
    <3>2. PICK t \in Tasks, k \in 1 .. Share : PlaceOf(t, k) = z
      BY <1>2, <2>1, EveryPlace DEF Automatic
    <3> QED
      BY <2>2, <3>1, <3>2
  <2> QED
    BY <2>3, <2>4
<1> QED
  BY <1>1, <1>2

-----------------------------------------------------------------------------
(* One package.                                                            *)

\* The package of the CPU at a position.
PkgAt(z) == node[cpu_position_map[z]].pkg

\* mask_to_available leaves the CPUs of a whole node as they are.
LEMMA WholeCpus ==
  ASSUME AffinityInv, Cardinality(allowed) = nodecpus, NEW z \in 0 .. nodecpus - 1
  PROVE  CpuAt(z) = cpu_position_map[z]
<1>1. allowed = 0 .. nodecpus - 1 /\ nodecpus \in Nat
  BY WholeNode, NodeFacts
<1>2. \A c \in 0 .. nodecpus - 1 : Cardinality({d \in 0 .. nodecpus - 1 : d < c}) = c
  <2> TAKE c \in 0 .. nodecpus - 1
  <2>1. {d \in 0 .. nodecpus - 1 : d < c} = 0 .. c - 1
    BY <1>1
  <2>2. 0 \in Int /\ c - 1 \in Int /\ c \in Nat
    BY <1>1
  <2>3. Cardinality(0 .. c - 1) = IF 0 > c - 1 THEN 0 ELSE (c - 1) - 0 + 1
    BY ONLY <2>2, FS_Interval
  <2>4. Cardinality(0 .. c - 1) = c
    BY ONLY <2>2, <2>3
  <2> QED
    BY ONLY <2>1, <2>4, Zenon
<1>3. ASSUME NEW x \in 0 .. nodecpus - 1
      PROVE  mask_to_available(allowed, x) = x
  <2>1. mask_to_available(allowed, x)
          = CHOOSE c \in 0 .. nodecpus - 1 : Cardinality({d \in 0 .. nodecpus - 1 : d < c}) = x
    BY <1>1, <1>3 DEF mask_to_available, nodecpus
  <2> QED
    BY <1>2, <2>1
<1> QED
  BY <1>3, Positions DEF CpuAt

\* The CPUs of a package are next to each other in the map.
LEMMA PackageRun ==
  ASSUME AffinityInv, NEW a \in Nat, NEW b \in Nat, a < b, b <= nodecpus, NEW p,
         \A z \in 0 .. nodecpus - 1 : PkgAt(z) = p <=> a <= z /\ z < b
  PROVE  PackageSize(p) = b - a
<1> DEFINE run == a .. b - 1
           cpus == {c \in DOMAIN node : node[c].pkg = p}
           f == [z \in run |-> cpu_position_map[z]]
<1>1. nodecpus \in Nat /\ DOMAIN node = 0 .. nodecpus - 1
  BY NodeFacts
<1>2. run \subseteq 0 .. nodecpus - 1
  BY <1>1
<1>3. f \in [run -> cpus] /\ \A y, z \in run : f[y] = f[z] => y = z
  <2>1. ASSUME NEW z \in run
        PROVE  cpu_position_map[z] \in cpus
    <3>1. z \in 0 .. nodecpus - 1 /\ a <= z /\ z < b
      BY <1>1, <1>2
    <3>2. cpu_position_map[z] \in DOMAIN node
      BY <1>1, <3>1, Positions
    <3>3. node[cpu_position_map[z]].pkg = p
      BY <3>1 DEF PkgAt
    <3> QED
      BY <3>2, <3>3
  <2>2. \A y, z \in run : cpu_position_map[y] = cpu_position_map[z] => y = z
    BY <1>2, Positions
  <2> HIDE DEF run, cpus
  <2> QED
    BY <2>1, <2>2
<1>4. \A c \in cpus : \E z \in run : f[z] = c
  <2> SUFFICES ASSUME NEW c \in cpus
               PROVE  \E z \in run : cpu_position_map[z] = c
    OBVIOUS
  <2>1. PICK z \in 0 .. nodecpus - 1 : cpu_position_map[z] = c
    BY <1>1, Positions
  <2>2. a <= z /\ z < b
    BY <2>1 DEF PkgAt
  <2> QED
    BY <2>1, <2>2
<1>5. IsFiniteSet(run) /\ Cardinality(run) = b - a
  <2>1. a \in Int /\ b - 1 \in Int /\ ~(a > b - 1)
    OBVIOUS
  <2>2. IsFiniteSet(run) /\ Cardinality(run) = (b - 1) - a + 1
    BY ONLY <2>1, FS_Interval
  <2> QED
    BY <2>2
<1> HIDE DEF f, run, cpus
<1>6. Cardinality(cpus) = b - a
  BY <1>3, <1>4, <1>5, SameSize
<1> QED
  BY <1>6 DEF cpus, PackageSize

\* Where one package ends and the next begins.
Border(z) == z = 0 \/ z = nodecpus \/ PkgAt(z - 1) # PkgAt(z)

\* If every package holds whole shares, so do the packages up to a border.
LEMMA BordersAligned ==
  ASSUME AffinityInv, NEW s \in Nat \ {0},
         \A c \in DOMAIN node : PackageSize(node[c].pkg) % s = 0,
         NEW b \in 0 .. nodecpus, Border(b)
  PROVE  b % s = 0
<1>0. /\ nodecpus \in Nat /\ DOMAIN node = 0 .. nodecpus - 1
      /\ \A z \in 0 .. nodecpus - 1 : cpu_position_map[z] \in DOMAIN node /\ PkgAt(z) \in Int
  BY NodeFacts, Positions DEF PkgAt
<1> DEFINE Bad == {z \in 0 .. nodecpus : Border(z) /\ z % s # 0}
<1> SUFFICES ASSUME Bad # {} PROVE FALSE
  OBVIOUS
<1>1. PICK z \in Bad : \A y \in Bad : z <= y
  <2>1. Bad \in SUBSET Nat
    BY <1>0
  <2> HIDE DEF Bad
  <2> QED
    BY <2>1, Least
<1>2. z \in 1 .. nodecpus
  <2>1. 0 = 0 + s * 0 /\ 0 \in 0 .. s - 1 /\ 0 \in Int
    OBVIOUS
  <2>2. 0 % s = 0
    BY ONLY s \in Nat \ {0}, <2>1, ModIs
  <2> QED
    BY <1>0, <1>1, <2>2
<1> DEFINE p == PkgAt(z - 1)
           Same == {y \in 0 .. z - 1 : PkgAt(y) = p}
<1>3. PICK a \in Same : \A y \in Same : a <= y
  <2>1. Same \in SUBSET Nat /\ z - 1 \in Same
    BY <1>2
  <2> HIDE DEF Same
  <2> QED
    BY <2>1, Least
<1>4. a \in Nat /\ a < z /\ a <= nodecpus
  BY <1>0, <1>2, <1>3
<1>5. \A x, y \in 0 .. nodecpus - 1 : x <= y => PkgAt(x) <= PkgAt(y)
  <2> SUFFICES ASSUME NEW x \in 0 .. nodecpus - 1, NEW y \in 0 .. nodecpus - 1, x <= y
               PROVE  PkgAt(x) <= PkgAt(y)
    OBVIOUS
  <2>1. CASE x = y
    BY <1>0, <2>1
  <2>2. CASE x < y
    BY <2>2, Positions DEF PkgAt
  <2> QED
    BY <1>0, <2>1, <2>2
<1>6. ASSUME NEW y \in 0 .. nodecpus - 1
      PROVE  PkgAt(y) = p <=> a <= y /\ y < z
  <2>0. z - 1 \in 0 .. nodecpus - 1 /\ a \in 0 .. nodecpus - 1
         /\ PkgAt(a) = p /\ p \in Int /\ PkgAt(y) \in Int
    BY <1>0, <1>2, <1>3, <1>4
  <2>1. ASSUME a <= y, y < z
        PROVE  PkgAt(y) = p
    <3>1. PkgAt(a) <= PkgAt(y)
      BY <1>5, <2>0, <2>1
    <3>2. y <= z - 1
      BY <1>2, <2>1
    <3>3. PkgAt(y) <= PkgAt(z - 1)
      BY <1>5, <2>0, <3>2
    <3> QED
      BY <2>0, <3>1, <3>3
  <2>2. ASSUME PkgAt(y) = p, y < z
        PROVE  a <= y
    <3>1. y \in Same
      BY <1>2, <2>2
    <3> QED
      BY <1>3, <3>1
  <2>3. ASSUME y >= z
        PROVE  PkgAt(y) # p
    <3>1. z \in 0 .. nodecpus - 1 /\ p # PkgAt(z) /\ z - 1 <= z
      BY <1>0, <1>1, <1>2, <2>3 DEF Border
    <3>2. p <= PkgAt(z) /\ PkgAt(z) <= PkgAt(y)
      BY <1>5, <2>0, <2>3, <3>1
    <3>3. PkgAt(z) \in Int
      BY <1>0, <3>1
    <3> HIDE DEF p
    <3> QED
      BY <2>0, <3>1, <3>2, <3>3
  <2> QED
    BY <1>2, <2>1, <2>2, <2>3
<1>7. PackageSize(p) = z - a
  <2>1. a \in Nat /\ z \in Nat /\ a < z /\ z <= nodecpus
    BY <1>0, <1>2, <1>4
  <2> HIDE DEF p
  <2> QED
    BY <1>6, <2>1, PackageRun
<1>8. (z - a) % s = 0
  <2>1. cpu_position_map[z - 1] \in DOMAIN node
    BY <1>0, <1>2
  <2> QED
    BY <1>7, <2>1 DEF PkgAt
<1>9. a % s = 0
  <2> SUFFICES ASSUME a % s # 0 PROVE FALSE
    OBVIOUS
  <2>1. Border(a)
    <3> SUFFICES ASSUME a # 0, PkgAt(a - 1) = PkgAt(a) PROVE FALSE
      BY DEF Border
    <3>1. a - 1 \in Same
      BY <1>2, <1>3, <1>4
    <3>2. a <= a - 1
      BY <1>3, <3>1
    <3> QED
      BY <1>4, <3>2
  <2>2. a \in Bad
    BY <1>0, <1>4, <2>1
  <2> QED
    BY <1>1, <1>4, <2>2
<1> DEFINE d == (z - a) \div s
           e == a \div s
<1>10. z - a = s * d + 0 /\ a = s * e + 0 /\ d \in Int /\ e \in Int
  <2>1. z - a \in Int /\ a \in Int
    BY <1>2, <1>4
  <2>2. z - a = (s * d) + ((z - a) % s) /\ a = (s * e) + (a % s) /\ d \in Int /\ e \in Int
    BY ONLY <2>1, s \in Nat \ {0}, DivMod
  <2> QED
    BY <1>8, <1>9, <2>2
<1> HIDE DEF d, e
<1>11. z = 0 + s * (d + e) /\ d + e \in Int /\ z \in Int /\ 0 \in 0 .. s - 1
  <2>1. s * (d + e) = s * d + s * e
    BY <1>10
  <2>2. s * d \in Int /\ s * e \in Int
    BY <1>10
  <2> QED
    BY <1>2, <1>4, <1>10, <2>1, <2>2
<1>12. z % s = 0
  BY ONLY s \in Nat \ {0}, <1>11, ModIs
<1> QED
  BY <1>1, <1>12

\* A share that begins at a multiple of the share lies in one package.
LEMMA ShareInPackage ==
  ASSUME AffinityInv, NEW s \in Nat \ {0},
         \A c \in DOMAIN node : PackageSize(node[c].pkg) % s = 0,
         NEW m \in Int
  PROVE  \A y, z \in 0 .. nodecpus - 1 :
           s * m <= y /\ y < z /\ z < s * m + s => PkgAt(y) = PkgAt(z)
<1> SUFFICES ASSUME NEW y \in 0 .. nodecpus - 1, NEW z \in 0 .. nodecpus - 1,
                    s * m <= y, y < z, z < s * m + s, PkgAt(y) # PkgAt(z)
             PROVE  FALSE
  OBVIOUS
<1>0. nodecpus \in Nat /\ s * m \in Int
  BY NodeFacts
<1> DEFINE Other == {x \in y .. z : PkgAt(x) # PkgAt(y)}
<1>1. PICK b \in Other : \A x \in Other : b <= x
  <2>1. Other \in SUBSET Nat /\ z \in Other
    BY <1>0
  <2> HIDE DEF Other
  <2> QED
    BY <2>1, Least
<1>2. b \in Int /\ y < b /\ b <= z /\ b \in 0 .. nodecpus
  BY <1>0, <1>1
<1>3. PkgAt(b - 1) = PkgAt(y)
  <2>1. b - 1 \in y .. z /\ b - 1 \notin Other
    <3>1. b - 1 \in y .. z /\ ~(b <= b - 1)
      BY <1>0, <1>2
    <3> QED
      BY <1>1, <3>1
  <2> QED
    BY <2>1
<1>4. Border(b)
  BY <1>1, <1>3 DEF Border
<1>5. b % s = 0
  BY <1>2, <1>4, BordersAligned
<1> DEFINE d == b \div s
<1>6. b = s * d + 0 /\ d \in Int
  <2>1. b = (s * d) + (b % s) /\ d \in Int
    BY ONLY <1>2, s \in Nat \ {0}, DivMod
  <2> QED
    BY <1>5, <2>1
<1> HIDE DEF d
<1>7. s * d - s * m < s /\ -s < s * d - s * m /\ s * d # s * m
  <2>1. s * d \in Int
    BY <1>6
  <2> QED
    BY <1>0, <1>2, <1>6, <2>1
<1>8. d = m
  BY <1>6, <1>7, NoMultiple
<1> QED
  BY <1>7, <1>8

\* With start= a multiple of the share, a task's positions begin at one.
LEMMA PlacesAligned ==
  ASSUME AffinityInv, o.start \in Nat, InsideMap, available = nodecpus, nodecpus \in Nat \ {0},
         Share \in 1 .. nodecpus, o.start % Share = 0, nodecpus % Share = 0, NEW t \in Tasks
  PROVE  \E m \in Int : \A k \in 1 .. Share :
           Share * m <= PlaceOf(t, k) /\ PlaceOf(t, k) < Share * m + Share
<1>1. t \in Nat
  BY NodeFacts DEF Tasks
<1>2. PICK n \in Nat \ {0} : n = nodecpus
  OBVIOUS
<1>3. PICK c \in Nat \ {0} : c = Share
  OBVIOUS
<1>4. PICK s \in Nat : s = o.start
  OBVIOUS
<1> DEFINE big == n \div c
           e == s \div c
<1>5. n = c * big /\ s = c * e /\ big \in Int /\ e \in Int
  <2>1. n = (c * big) + (n % c) /\ s = (c * e) + (s % c) /\ big \in Int /\ e \in Int
    BY ONLY n \in Nat \ {0}, s \in Nat, c \in Nat \ {0}, DivMod
  <2>2. n % c = 0 /\ s % c = 0
    BY <1>2, <1>3, <1>4
  <2>3. c * big \in Int /\ c * e \in Int
    BY <2>1
  <2> QED
    BY <2>1, <2>2, <2>3
<1> HIDE DEF big, e
<1> DEFINE x == t * c + s
           q == x \div n
           r == x % n
           g == t + e - big * q
<1>6. x = n * q + r /\ q \in Int /\ r \in 0 .. n - 1 /\ x \in Int
  <2>1. x \in Int
    BY <1>1
  <2> HIDE DEF x
  <2> QED
    BY ONLY <2>1, n \in Nat \ {0}, DivMod
<1>7. r = c * g /\ g \in Int
  <2>1. x = c * (t + e)
    <3>1. c * (t + e) = c * t + c * e /\ t * c = c * t
      BY <1>1, <1>5
    <3> QED
      BY <1>5, <3>1
  <2> HIDE DEF x, q, r
  <2>2. n * q = c * (big * q) /\ big * q \in Int
    <3>1. (c * big) * q = c * (big * q) /\ big * q \in Int
      BY ONLY c \in Nat \ {0}, <1>5, <1>6
    <3> QED
      BY ONLY <3>1, <1>5
  <2>3. PICK h \in Int : h = big * q
    BY <2>2
  <2>4. c * (t + e) - c * h = c * ((t + e) - h)
    <3>1. PICK u \in Int : u = t + e
      BY <1>1, <1>5
    <3>2. c * u - c * h = c * (u - h)
      BY ONLY c \in Nat \ {0}, u \in Int, h \in Int
    <3> QED
      BY ONLY <3>1, <3>2
  <2>5. c * (t + e) \in Int /\ c * h \in Int
    BY <1>1, <1>5
  <2>6. r = c * ((t + e) - h)
    BY <1>6, <2>1, <2>2, <2>3, <2>4, <2>5
  <2> QED
    BY <1>1, <1>5, <2>3, <2>6
<1> HIDE DEF q, r, g
<1>8. r + c <= n
  <2> SUFFICES ASSUME r + c > n PROVE FALSE
    BY <1>6
  <2>1. c * big - c * g < c /\ -c < c * big - c * g
    BY <1>5, <1>6, <1>7
  <2>2. big = g
    BY <1>5, <1>7, <2>1, NoMultiple
  <2> QED
    BY <1>5, <1>6, <1>7, <2>2
<1>9. CASE o.reverse
  <2>1. ASSUME NEW k \in 1 .. Share
        PROVE  PlaceOf(t, k) = (n - 1 - r) - (k - 1)
    <3> DEFINE y == (n - 1 - r) - (k - 1)
    <3>1. PlaceOf(t, k) = y % n
      BY <1>2, <1>3, <1>4, <1>9 DEF PlaceOf, r
    <3>2. y \in 0 .. n - 1 /\ y = y + n * 0 /\ y \in Int /\ 0 \in Int
      BY <1>3, <1>6, <1>8
    <3> HIDE DEF y
    <3>3. y % n = y
      BY ONLY n \in Nat \ {0}, <3>2, ModIs
    <3> QED
      BY <3>1, <3>3 DEF y
  <2>2. c * (big - g - 1) = n - r - c
    <3>1. c * (big - g - 1) = c * big - c * g - c
      BY <1>5, <1>7
    <3> QED
      BY <1>5, <1>7, <3>1
  <2>3. big - g - 1 \in Int
    BY <1>5, <1>7
  <2>4. \A k \in 1 .. Share : c * (big - g - 1) <= PlaceOf(t, k) /\ PlaceOf(t, k) < c * (big - g - 1) + c
    BY <1>3, <1>6, <2>1, <2>2
  <2> QED
    BY <1>3, <2>3, <2>4
<1>10. CASE ~o.reverse /\ c = 1
  <2>1. \A k \in 1 .. Share : PlaceOf(t, k) = t + s
    BY <1>3, <1>4, <1>10 DEF PlaceOf
  <2>2. Share * (t + s) = t + s /\ t + s \in Int /\ Share = 1
    BY <1>1, <1>3, <1>10
  <2> QED
    BY <2>1, <2>2
<1>11. CASE ~o.reverse /\ c # 1
  <2>1. ASSUME NEW k \in 1 .. Share
        PROVE  PlaceOf(t, k) = r + (k - 1)
    <3> DEFINE y == r + (k - 1)
               w == x + k - 1
    <3>1. PlaceOf(t, k) = w % n
      BY <1>2, <1>3, <1>4, <1>11 DEF PlaceOf
    <3>2. y \in 0 .. n - 1 /\ w = y + n * q /\ w \in Int /\ q \in Int
      <4> HIDE DEF x
      <4>1. n * q \in Int
        BY <1>6
      <4> QED
        BY <1>3, <1>6, <1>8, <4>1
    <3> HIDE DEF y, w
    <3>3. w % n = y
      BY ONLY n \in Nat \ {0}, <3>2, ModIs
    <3> QED
      BY <3>1, <3>3 DEF y
  <2>2. \A k \in 1 .. Share : c * g <= PlaceOf(t, k) /\ PlaceOf(t, k) < c * g + c
    BY <1>3, <1>6, <1>7, <2>1
  <2> QED
    BY <1>3, <1>7, <2>2
<1> QED
  BY <1>9, <1>10, <1>11

\* With the whole node, packages that hold whole shares and start= a multiple of
\* the share, no task has CPUs of two packages, in whatever order the kernel
\* numbers packages, cores and threads.
THEOREM NoStraddling == AffinitySpec => []OnePackage
<1> SUFFICES AffinityInv => OnePackage
  BY AffinityInvariance, PTL
<1> SUFFICES ASSUME AffinityInv, Steady, Automatic, InsideMap, available = nodecpus,
                    o.start % Share = 0,
                    \A c \in DOMAIN node : PackageSize(node[c].pkg) % Share = 0,
                    NEW t \in Placed
             PROVE  Cardinality({node[c].pkg : c \in mask[t]}) = 1
  BY DEF OnePackage
<1>1. /\ nodecpus \in Nat \ {0} /\ Share \in 1 .. nodecpus /\ Cardinality(allowed) = nodecpus
      /\ t \in Tasks /\ \A k \in 1 .. Share : PlaceOf(t, k) \in 0 .. nodecpus - 1
      /\ mask[t] = {CpuAt(PlaceOf(t, k)) : k \in 1 .. Share}
  BY FullMask
<1>2. PICK s \in Nat \ {0} : s = Share
  BY <1>1
<1>3. nodecpus % s = 0
  <2>1. nodecpus \in 0 .. nodecpus /\ Border(nodecpus)
    BY <1>1 DEF Border
  <2> QED
    BY <1>2, <2>1, BordersAligned
<1>4. PICK m \in Int : \A k \in 1 .. s : s * m <= PlaceOf(t, k) /\ PlaceOf(t, k) < s * m + s
  BY <1>1, <1>2, <1>3, PlacesAligned DEF Automatic
<1>5. \A j, k \in 1 .. s : PkgAt(PlaceOf(t, j)) = PkgAt(PlaceOf(t, k))
  <2> SUFFICES ASSUME NEW j \in 1 .. s, NEW k \in 1 .. s, PlaceOf(t, j) < PlaceOf(t, k)
               PROVE  PkgAt(PlaceOf(t, j)) = PkgAt(PlaceOf(t, k))
    <3>1. \A j, k \in 1 .. s : \/ PlaceOf(t, j) < PlaceOf(t, k) \/ PlaceOf(t, k) < PlaceOf(t, j)
                               \/ PlaceOf(t, j) = PlaceOf(t, k)
      BY <1>1, <1>2
    <3> QED
      BY <3>1
  <2>1. \A z \in 0 .. nodecpus - 1 : z \in Int
    BY <1>1
  <2>2. /\ PlaceOf(t, j) \in 0 .. nodecpus - 1 /\ PlaceOf(t, k) \in 0 .. nodecpus - 1
        /\ s * m <= PlaceOf(t, j) /\ PlaceOf(t, k) < s * m + s
    BY <1>1, <1>2, <1>4
  <2>3. \A c \in DOMAIN node : PackageSize(node[c].pkg) % s = 0
    BY <1>2
  <2>4. \A y, z \in 0 .. nodecpus - 1 :
          s * m <= y /\ y < z /\ z < s * m + s => PkgAt(y) = PkgAt(z)
    <3>1. \A w \in Int : \A y, z \in 0 .. nodecpus - 1 :
            s * w <= y /\ y < z /\ z < s * w + s => PkgAt(y) = PkgAt(z)
      BY <2>3, ShareInPackage, Zenon
    <3> QED
      BY ONLY <3>1, m \in Int, Zenon
  <2> QED
    BY <2>2, <2>4, Zenon
<1>6. {node[c].pkg : c \in mask[t]} = {PkgAt(PlaceOf(t, 1))}
  <2>1. \A k \in 1 .. s : node[CpuAt(PlaceOf(t, k))].pkg = PkgAt(PlaceOf(t, k))
    BY <1>1, <1>2, WholeCpus DEF PkgAt
  <2>2. 1 \in 1 .. s
    BY <1>2
  <2>3. \A k \in 1 .. s : node[CpuAt(PlaceOf(t, k))].pkg = PkgAt(PlaceOf(t, 1))
    BY <1>5, <2>1, <2>2
  <2> QED
    BY <1>1, <1>2, <2>2, <2>3
<1> QED
  BY <1>6, FS_Singleton

=============================================================================
