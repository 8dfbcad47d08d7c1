------------------------------ MODULE MCCpuset ------------------------------
(***************************************************************************)
(* Workloads for Cpuset. Two jobs with a step of one task each and a       *)
(* login of the first user ("Rivals": jobs of different users that cannot  *)
(* run at once; "Mates": jobs of one user that can), and one job whose two *)
(* steps ask for step and task cpusets ("Nested").                         *)
(***************************************************************************)
EXTENDS Cpuset, TLC

CONSTANTS u1, u2, j1, j2, s1, s2, t1, t2, t3, l1

RivalOwner    == j1 :> u1 @@ j2 :> u2
RivalCpus     == j1 :> 2 @@ j2 :> 2
MateOwner     == j1 :> u1 @@ j2 :> u1
MateCpus      == j1 :> 1 @@ j2 :> 1
OwnStep       == s1 :> j1 @@ s2 :> j2
PlainOpt      == s1 :> "none" @@ s2 :> "none"
BareOpt       == s1 :> "none" @@ s2 :> "bare"
OneCpu        == s1 :> 1 @@ s2 :> 1
UnsetCpu      == s1 :> 1 @@ s2 :> -1
OneTask       == t1 :> s1 @@ t2 :> s2
Login1        == l1 :> u1

NestedOwner   == j1 :> u1
NestedCpus    == j1 :> 3
NestedStep    == s1 :> j1 @@ s2 :> j1
NestedOpt     == s1 :> "tasks" @@ s2 :> "args"
NestedPerTask == s1 :> 1 @@ s2 :> 2
NestedTask    == t1 :> s1 @@ t2 :> s1 @@ t3 :> s2

SoloCpus      == j1 :> 1
SoloStep      == s1 :> j1
SoloPlain     == s1 :> "none"
SoloTask      == t1 :> s1
SoloPerTask   == s1 :> 1
NoLogin       == << >>

CpuSymmetry == Permutations(CPU)

=============================================================================
