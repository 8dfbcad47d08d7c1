---------------------------- MODULE MCPlacement -----------------------------
(***************************************************************************)
(* The two parts that choose CPUs by the layout of the machine: Nodemap,   *)
(* which CPUs a job's cpuset gets, and AutoAffinity, which of a step's     *)
(* CPUs each task gets. They share no state: a behaviour is about one of   *)
(* them.                                                                   *)
(***************************************************************************)
EXTENDS Nodemap, AutoAffinity, TLC

VARIABLE asked \* the part: "cpuset" or "tasks"

-----------------------------------------------------------------------------
(* A machine for Nodemap: the 4 nodes of 2 CPUs behind the examples of     *)
(* slurm-cpuset(8), and two more of 1 and of 3. The current cpuset is the  *)
(* first four nodes, or any set of CPUs of the nodes of different sizes,   *)
(* of the node of 2 only one.                                              *)

MachineCpus == 0 :> {0, 1} @@ 1 :> {2, 3} @@ 2 :> {4, 5} @@ 3 :> {6, 7}
               @@ 4 :> {8} @@ 5 :> {9, 10, 11}
Machine     == 0 .. 11
FourNodes   == 0 .. 7
SomeCpusets == {FourNodes} \cup SUBSET {1, 8, 9, 10, 11}
FewAndNone  == {-1, 1, 2, 3, 4}

ASSUME MachineContiguous == Contiguous

\* The examples of slurm-cpuset(8), EXAMPLES: which CPUs a job gets after the
\* jobs before it.
Example(f, r, i, b, n, a) ==
  [conf |-> [fit |-> f, reverse |-> r, idle |-> i], before |-> b, ncpus |-> n, gets |-> a]

Examples ==
  { Example("best", FALSE, "mult", {}, 2, {0, 1}),
    Example("best", FALSE, "mult", {0, 1}, 1, {2}),
    Example("best", FALSE, "mult", {0, 1, 2}, 1, {3}),
    Example("best", FALSE, "mult", {0, 1, 2, 3}, 4, {4, 5, 6, 7}),
    Example("best", TRUE, "mult", {}, 2, {6, 7}),
    Example("best", TRUE, "mult", {6, 7}, 1, {5}),
    Example("best", TRUE, "mult", {5, 6, 7}, 1, {4}),
    Example("best", TRUE, "mult", {4, 5, 6, 7}, 4, {0, 1, 2, 3}),
    Example("worst", FALSE, "no", {}, 1, {0}),
    Example("worst", FALSE, "no", {0}, 1, {2}),
    Example("worst", FALSE, "no", {0, 2}, 1, {4}),
    Example("worst", FALSE, "no", {0, 2, 4}, 4, {1, 3, 6, 7}),
    Example("worst", FALSE, "no", {0, 1, 2, 3, 4, 6, 7}, 1, {5}),
    Example("first", FALSE, "mult", {}, 1, {0}),
    Example("first", FALSE, "mult", {0}, 1, {1}),
    Example("first", FALSE, "mult", {0, 1}, 1, {2}),
    Example("first", FALSE, "mult", {0, 1, 2}, 4, {4, 5, 6, 7}),
    Example("first", FALSE, "mult", {0, 1, 2, 4, 5, 6, 7}, 1, {3}) }

\* The manual's sample sessions come out as printed there: policy, order and
\* use-idle together lead nodemap_allocate to those CPUs.
ManualExamples ==
  phase = "done" =>
    \A e \in Examples :
      cpus = FourNodes /\ conf = e.conf /\ before \cap cpus = e.before /\ ncpus = e.ncpus
        => allocated = e.gets

-----------------------------------------------------------------------------
(* Nodes of four CPUs for AutoAffinity: two packages numbered one after    *)
(* the other, alternately, and as threads of shared cores.                 *)

At(p, c) == [pkg |-> p, core |-> c]

InOrder == [c \in 0 .. 3 |-> At(c \div 2, c % 2)]
Alternate == [c \in 0 .. 3 |-> At(c % 2, c \div 2)]
Threads == [c \in 0 .. 3 |-> At(c % 2, 0)]

MCTopologies == {InOrder, Alternate, Threads}

\* Only exclusive_only looks at how many CPUs the job was given.
MCSteps ==
  {[ntasks |-> n, cpt |-> c, batch |-> FALSE, cpus |-> 4] : n \in {1, 2, 3}, c \in {1, 2}}
  \cup {[ntasks |-> 4, cpt |-> 1, batch |-> FALSE, cpus |-> 4],
        [ntasks |-> 2, cpt |-> 1, batch |-> FALSE, cpus |-> 2],
        [ntasks |-> 1, cpt |-> 1, batch |-> TRUE, cpus |-> 4]}

Plain == [off |-> FALSE, exclusive_only |-> FALSE, multiples_only |-> FALSE, bad |-> FALSE]

MCArguments ==
  {Plain, [Plain EXCEPT !.off = TRUE], [Plain EXCEPT !.exclusive_only = TRUE],
   [Plain EXCEPT !.multiples_only = TRUE], [Plain EXCEPT !.bad = TRUE]}

Word(w) == [word |-> w]
Number(w, n) == [word |-> w, n |-> n]

Bits(S) == [bits |-> S, ok |-> TRUE]

MCUserOptions ==
  {<<>>, <<Word("reverse")>>, <<Number("start", 1)>>, <<Number("start", 2), Word("reverse")>>,
   <<Number("cpt", 1)>>, <<Number("cpt", 2), Number("start", 2)>>, <<Word("off")>>,
   <<Number("cpt", -1), Number("start", 0)>>, <<Number("start", -1)>>,
   <<[word |-> "cpus", list |-> <<[a |-> 0, b |-> 3, s |-> 2], [a |-> 5, b |-> 5, s |-> 1]>>]>>,
   <<[word |-> "cpus", list |-> <<[a |-> 3, b |-> 1, s |-> 1]>>]>>,
   <<[word |-> "cpus", list |-> None]>>,
   <<[word |-> "masks", list |-> <<Bits({0, 1}), Bits({2, 3})>>]>>,
   <<[word |-> "masks", list |-> <<Bits({0}), [bits |-> {}, ok |-> FALSE]>>]>>}

-----------------------------------------------------------------------------
(* A job's cpuset is made before its tasks start. Where a behaviour is     *)
(* about the tasks, the call that makes it finds no CPU free and fails.    *)

\* Other arguments than none come with few options of the user.
ForTheTasks ==
  /\ argv \in Arguments
  /\ words \in IF argv = Plain THEN UserOptions ELSE {<<>>, <<Number("start", 1)>>}
  /\ conf = [fit |-> "first", reverse |-> FALSE, idle |-> "no"]
  /\ cpus = FourNodes /\ before = Machine /\ ncpus = 1

ForTheCpuset ==
  /\ node = InOrder /\ argv = Plain /\ words = <<>>
  /\ step = CHOOSE job \in Steps : job.batch

PlacementInit ==
  /\ \/ asked = "tasks" /\ ForTheTasks
     \/ asked = "cpuset" /\ ForTheCpuset
  /\ Init /\ AffinityInit

PlacementNext ==
  \/ Next /\ UNCHANGED <<asked, affinityvars>>
  \/ /\ asked = "tasks" /\ phase = "failed"
     /\ AffinityNext
     /\ UNCHANGED <<asked, vars>>

PlacementSpec ==
  /\ PlacementInit /\ [][PlacementNext]_<<asked, vars, affinityvars>>
  /\ WF_vars(Next)

=============================================================================
