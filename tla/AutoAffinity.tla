---------------------------- MODULE AutoAffinity ----------------------------
(***************************************************************************)
(* auto-affinity.c: a spank plugin that spreads the tasks of a job step    *)
(* over the CPUs of a node. slurmstepd runs its callbacks in a fixed order *)
(* and forks the tasks, each of which runs slurm_spank_task_init on its    *)
(* own copy of the plugin's variables. Other plugins change the CPUs that  *)
(* the step may use in between.                                            *)
(***************************************************************************)
EXTENDS Integers, FiniteSets, SequencesExt

CONSTANTS
  Topologies,  \* nodes: functions from CPU ids 0.. to their package and core
  Steps,       \* job steps: ntasks, cpt (srun -c), batch, cpus (allocated)
  Arguments,   \* plugin arguments: exclusive_only, multiples_only, off, bad
  UserOptions, \* sequences of the words of --auto-affinity=
  MaxChanges,  \* bound: changes of the step's CPUs by others
  None         \* no cpus= or masks= list, no mask set

ASSUME AffinityAssumption ==
  /\ \A topo \in Topologies :
       /\ IsFiniteSet(DOMAIN topo) /\ DOMAIN topo = 0 .. Cardinality(DOMAIN topo) - 1
       /\ \A c \in DOMAIN topo : topo[c].pkg \in Int /\ topo[c].core \in Int
  /\ \A job \in Steps : job.ntasks \in Nat \ {0}

VARIABLES
  node, step, argv, words, \* this behaviour's node, step, arguments, options
  stage,     \* the last callback that ran, "failed" or "done"
  o,         \* the plugin's option variables
  allowed,   \* the CPUs the step may use, as sched_getaffinity tells
  available, \* ncpus_available
  changes,   \* changes of allowed so far
  mask,      \* the mask each task asked for in task_init, or None
  fresh      \* history: allowed when the task asked for its mask

given == <<node, step, argv, words>>
affinityvars == <<given, stage, o, allowed, available, changes, mask, fresh>>

nodecpus == Cardinality(DOMAIN node) \* ncpus
ntasks == step.ntasks
Tasks == 0 .. ntasks - 1

-----------------------------------------------------------------------------
(* Options. A cpus= list is a sequence of ranges a-b:s, or None if one of  *)
(* them does not parse; a masks= list one of the bits and whether all the  *)
(* digits were good. str2int makes -1 of what is no number. A start= below *)
(* zero is only modelled as the last word, which makes it an error.        *)

Defaults ==
  [disabled |-> FALSE, reverse |-> FALSE, start |-> 0, cpt |-> 0, enabled |-> TRUE,
   cpus |-> None, masks |-> None, exclusive_only |-> FALSE, multiples_only |-> FALSE]

parse_argv(p) ==
  [p EXCEPT !.disabled = argv.off, !.exclusive_only = argv.exclusive_only,
            !.multiples_only = argv.multiples_only]

Entry(r) == [k \in 1 .. ((r.b - r.a) \div r.s) + 1 |-> r.a + (k - 1) * r.s]

\* The CPUs of a list up to its first range that runs backwards; there the
\* count is 1 and so is every CPU from there on.
cstr_cpus(list) ==
  LET bad == SelectInSeq(list, LAMBDA r : r.a > r.b)
      good == IF bad = 0 THEN list ELSE SubSeq(list, 1, bad - 1)
      cpus == FlattenSeq([k \in DOMAIN good |-> Entry(good[k])])
  IN IF bad = 0 THEN cpus ELSE IF cpus = <<>> THEN <<1>> ELSE <<cpus[1]>>

\* What one word does to the variables; the result is that of the last word. A
\* cpus= list that does not parse stays in the list of words, and is read again
\* as words that parse_option does not know and does not mind.
parse_option(acc, w) ==
  LET p == acc.o IN
  CASE w.word = "off" -> [o |-> [p EXCEPT !.disabled = TRUE], rc |-> 0]
    [] w.word = "reverse" -> [o |-> [p EXCEPT !.reverse = TRUE], rc |-> 0]
    [] w.word = "cpt" -> [o |-> [p EXCEPT !.cpt = w.n], rc |-> IF w.n < 0 THEN -1 ELSE 0]
    [] w.word = "start" -> [o |-> [p EXCEPT !.start = w.n], rc |-> IF w.n < 0 THEN -1 ELSE 0]
    [] w.word = "cpus" /\ w.list = None -> [o |-> p, rc |-> 0]
    [] w.word = "cpus" /\ w.list # None -> [o |-> [p EXCEPT !.cpus = cstr_cpus(w.list)], rc |-> 0]
    [] w.word = "masks" ->
         [o |-> [p EXCEPT !.masks = [k \in DOMAIN w.list |-> w.list[k].bits]],
          rc |-> IF Last(w.list).ok THEN 0 ELSE -1]

parse_user_option(p) == FoldLeft(parse_option, [o |-> p, rc |-> 0], words)

-----------------------------------------------------------------------------
(* CPU positions.                                                          *)

\* Faulty variant: CPUs are sorted by core alone.
BeforeByCore(c, d) == node[c].core < node[d].core \/ (node[c].core = node[d].core /\ c > d)

\* cpu_info_cmp; the list is built back to front and the sort is stable.
Before(c, d) ==
  \/ node[c].pkg < node[d].pkg
  \/ node[c].pkg = node[d].pkg /\ node[c].core < node[d].core
  \/ node[c].pkg = node[d].pkg /\ node[c].core = node[d].core /\ c > d

\* create_cpu_position_map: the CPU id at position n.
cpu_position_map ==
  [n \in 0 .. nodecpus - 1 |->
     CHOOSE c \in DOMAIN node : Cardinality({d \in DOMAIN node : Before(d, c)}) = n]

\* A read beyond the end of the map finds anything.
cpu_position_to_id(n) == IF n \in DOMAIN cpu_position_map THEN {cpu_position_map[n]} ELSE -1 .. nodecpus

\* Faulty variant: a position is taken for the CPU itself.
mask_to_availableIdentity(S, n) == n

\* The CPU that is number n among those available (S), -1 if there are fewer.
mask_to_available(S, n) ==
  IF n \in 0 .. Cardinality(S) - 1
  THEN CHOOSE c \in S : Cardinality({d \in S : d < c}) = n ELSE -1

\* Faulty variant: off by one.
get_cpus_per_taskLess(cpt, n) == IF cpt # 0 THEN cpt ELSE (n - 1) \div ntasks

get_cpus_per_task(cpt, n) == IF cpt # 0 THEN cpt ELSE n \div ntasks

\* The bits set before the first position that no available CPU answers to.
BitsUntilFailure(S, positions) ==
  LET bit(k) == mask_to_available(S, cpu_position_map[positions[k]])
  IN {bit(k) : k \in {k \in DOMAIN positions : \A j \in 1 .. k : bit(j) # -1}}

\* Faulty variant: the task's number is left out where tasks get several CPUs.
generate_maskOverlap(S, cpt, n, t) ==
  LET c == get_cpus_per_task(cpt, n) IN
  IF c = 1 THEN {{mask_to_available(S, id)} \ {-1} : id \in cpu_position_to_id(t + o.start)}
  ELSE {BitsUntilFailure(S, [k \in 1 .. c |-> (o.start + k - 1) % n])}

\* The masks that generate_mask may come to, on n CPUs S and for a
\* requested_cpus_per_task of cpt; a failure keeps what was set.
generate_mask(S, cpt, n, t) ==
  LET c == get_cpus_per_task(cpt, n) IN
  IF c = 1 THEN {{mask_to_available(S, id)} \ {-1} : id \in cpu_position_to_id(t + o.start)}
  ELSE {BitsUntilFailure(S, [k \in 1 .. c |-> (t * c + o.start + k - 1) % n])}

generate_mask_reverse(S, cpt, n, t) ==
  LET c == get_cpus_per_task(cpt, n)
      first == n - 1 - ((t * c + o.start) % n)
  IN {BitsUntilFailure(S, [k \in 1 .. c |-> (first - (k - 1)) % n])}

generate_mask_from_cpus_list(cpt, t) ==
  LET id(k) == o.cpus[(k % Len(o.cpus)) + 1] IN
  IF cpt # 0 THEN {id(t * cpt + k) : k \in 0 .. cpt - 1} ELSE {id(t)}

\* Every position of the set becomes a CPU; CPU_SET of -1 does nothing.
cpu_set_physical_to_logical(S, set) ==
  {{mask_to_available(S, f[n]) : n \in set} \ {-1} :
     f \in {g \in [set -> -1 .. nodecpus] : \A n \in set : g[n] \in cpu_position_to_id(n)}}

-----------------------------------------------------------------------------
(* The callbacks.                                                          *)

AffinityInit ==
  /\ node \in Topologies /\ step \in Steps /\ argv \in Arguments /\ words \in UserOptions
  /\ stage = "start" /\ o = Defaults
  /\ allowed = DOMAIN node /\ available = 0 /\ changes = 0
  /\ mask = [t \in Tasks |-> None] /\ fresh = [t \in Tasks |-> {}]

slurm_spank_init ==
  /\ stage = "start"
  /\ \/ stage' = "failed" /\ UNCHANGED o \* also when the CPUs cannot be read
     \/ ~argv.bad /\ stage' = "init" /\ o' = parse_argv(o)
  /\ UNCHANGED <<given, allowed, available, changes, mask, fresh>>

ProcessOptions ==
  /\ stage = "init"
  /\ o' = parse_user_option(o).o
  /\ stage' = IF parse_user_option(o).rc < 0 THEN "failed" ELSE "options"
  /\ UNCHANGED <<given, allowed, available, changes, mask, fresh>>

slurm_spank_init_post_opt ==
  /\ stage = "options"
  /\ stage' = "post_opt"
  /\ available' \in {Cardinality(allowed), -1} \* -1: sched_getaffinity failed
  /\ UNCHANGED <<given, o, allowed, changes, mask, fresh>>

\* What slurm_spank_user_init makes of the variables. A batch step is left as
\* it is, and that is enabled.
UserInit(p) ==
  LET off == [p EXCEPT !.enabled = FALSE]
      q == [off EXCEPT !.cpt = IF @ = 0 /\ step.cpt > 1 THEN step.cpt ELSE @]
  IN IF step.batch THEN p
     ELSE IF p.exclusive_only /\ step.cpus # nodecpus THEN off
     ELSE IF q.cpt # 0 \/ q.cpus # None \/ q.masks # None THEN [q EXCEPT !.enabled = TRUE]
     ELSE IF ntasks > available THEN q
     ELSE IF available % ntasks = 0 THEN [q EXCEPT !.enabled = TRUE]
     ELSE IF q.multiples_only \/ available \div ntasks = 1 THEN q
     ELSE [q EXCEPT !.enabled = TRUE, !.cpt = available \div ntasks]

slurm_spank_user_init ==
  /\ stage = "post_opt"
  /\ stage' = "run"
  /\ o' = UserInit(o)
  /\ UNCHANGED <<given, allowed, available, changes, mask, fresh>>

\* The count of CPUs as the task finds it; -1 if others changed it.
check_task_cpus_available(S) ==
  LET n == Cardinality(S) IN
  IF n # 0 /\ n # available THEN IF available > 0 THEN -1 ELSE n ELSE available

\* The masks the task may ask for when it finds itself on CPUs S; None if it
\* leaves them alone.
MasksFor(S, t) ==
  LET n == check_task_cpus_available(S)
      cpt == IF o.cpt > n THEN 0 ELSE o.cpt
  IN IF \/ ~o.enabled \/ o.disabled
        \/ n <= 1
        \/ ntasks <= 1 /\ o.cpt = 0
        \/ ntasks > n
     THEN {None}
     ELSE IF o.cpus # None
     THEN cpu_set_physical_to_logical(S, generate_mask_from_cpus_list(cpt, t))
     ELSE IF o.masks # None
     THEN cpu_set_physical_to_logical(S, o.masks[(t % Len(o.masks)) + 1])
     ELSE IF o.reverse THEN generate_mask_reverse(S, cpt, n, t)
     ELSE generate_mask(S, cpt, n, t)

\* sched_setaffinity refuses a mask without a CPU, and the task fails.
slurm_spank_task_init(t) ==
  /\ stage = "run"
  /\ mask[t] = None /\ fresh[t] = {}
  /\ mask' \in {[mask EXCEPT ![t] = m] : m \in MasksFor(allowed, t)}
  /\ fresh' = [fresh EXCEPT ![t] = allowed]
  /\ UNCHANGED <<given, stage, o, allowed, available, changes>>

slurm_spank_exit ==
  /\ stage = "failed" \/ (stage = "run" /\ \A t \in Tasks : fresh[t] # {})
  /\ stage' = "done"
  /\ UNCHANGED <<given, o, allowed, available, changes, mask, fresh>>

\* Another plugin, or the cpuset of the user, changes the CPUs of the step.
ChangeCpus(S) ==
  /\ stage # "done" /\ changes < MaxChanges
  /\ allowed' = S /\ changes' = changes + 1
  /\ UNCHANGED <<given, stage, o, available, mask, fresh>>

AffinityNext ==
  \/ slurm_spank_init \/ ProcessOptions \/ slurm_spank_init_post_opt
  \/ slurm_spank_user_init
  \/ \E t \in Tasks : slurm_spank_task_init(t)
  \/ slurm_spank_exit
  \/ \E S \in (SUBSET DOMAIN node) \ {{}} : ChangeCpus(S)

AffinitySpec == AffinityInit /\ [][AffinityNext]_affinityvars

-----------------------------------------------------------------------------
(* What the tasks may rely on.                                             *)

Placed == {t \in Tasks : mask[t] # None}

\* The CPUs that a task was meant to get; 0 in cpt means an even share.
Share == IF o.cpt \in 1 .. available THEN o.cpt ELSE available \div ntasks

\* Nobody changed the step's CPUs between init_post_opt and the tasks.
Steady == \A t \in Placed : fresh[t] = allowed /\ Cardinality(allowed) = available

\* cpt= and start= take what is no number for -1; only a later word hides that.
Automatic == o.cpus = None /\ o.masks = None /\ o.cpt \in Nat /\ o.start \in Nat

\* The one branch that looks up a position without wrapping it around.
InsideMap == o.reverse \/ Share # 1 \/ o.start + ntasks <= nodecpus

\* Tasks that are given CPUs automatically share none, as long as there are
\* enough for all: whatever start=, the direction, and the CPUs missing.
TasksApart ==
  Steady /\ Automatic /\ InsideMap /\ Share * ntasks <= available
  => \A t, u \in Placed : t # u => mask[t] \cap mask[u] = {}

\* A task asks for CPUs the step has when the task starts, never for those it
\* had when slurm_spank_init_post_opt counted them.
MasksFresh == \A t \in Placed : mask[t] \subseteq fresh[t]

\* With the whole node, each task gets its share, and together the tasks get
\* every CPU if the shares come out even.
FullShares ==
  Steady /\ Automatic /\ InsideMap /\ available = nodecpus
  => /\ \A t \in Placed : Cardinality(mask[t]) = Share
     /\ Placed = Tasks /\ Share * ntasks = nodecpus => UNION {mask[t] : t \in Tasks} = DOMAIN node

PackageSize(p) == Cardinality({c \in DOMAIN node : node[c].pkg = p})

\* With the whole node and packages that hold whole shares, no task straddles
\* two packages, however the kernel numbers CPUs, cores and threads.
OnePackage ==
  /\ Placed # {} /\ Steady /\ Automatic /\ InsideMap /\ available = nodecpus
  /\ o.start % Share = 0
  /\ \A c \in DOMAIN node : PackageSize(node[c].pkg) % Share = 0
  => \A t \in Placed : Cardinality({node[c].pkg : c \in mask[t]}) = 1

-----------------------------------------------------------------------------
(* The inductive invariant behind the properties of the masks.             *)

\* A mask was asked for with the plugin's variables as they still are, on the
\* CPUs that the task had then.
AffinityInv ==
  /\ node \in Topologies /\ step \in Steps
  /\ allowed \subseteq DOMAIN node
  /\ DOMAIN mask = Tasks
  /\ fresh \in [Tasks -> SUBSET DOMAIN node]
  /\ \A t \in Placed : stage \in {"run", "done"} /\ mask[t] \in MasksFor(fresh[t], t)

=============================================================================
