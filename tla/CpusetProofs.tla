---------------------------- MODULE CpusetProofs ----------------------------
(***************************************************************************)
(* Proofs about module Cpuset, for any number of CPUs, users, jobs, steps, *)
(* tasks and logins: IInv is inductive, hence every cpuset within a job    *)
(* has CPUs of its own (Exclusive), no user has a cpuset and an orphan     *)
(* cpuset at once (NoOrphanTwin), and the lock gives mutual exclusion      *)
(* (in TypeOK).                                                            *)
(*                                                                         *)
(* IInv is proved part by part: the tree (TreeStep), mutual exclusion      *)
(* (PcStep), the types of the other variables (DataStep), the CPUs between *)
(* allocation and creation (AllocStep), and where each kind of process is  *)
(* (StepShapeStep, LoginShapeStep, AgentShapeStep).                        *)
(***************************************************************************)
EXTENDS Cpuset, TLAPS

-----------------------------------------------------------------------------
(* Paths.                                                                  *)

PathOfJob(j, o) == <<JobTop(j, o), j>>
TaskPath(t, o) == <<JobTop(StepJob[TaskStep[t]], o), StepJob[TaskStep[t]], TaskStep[t], t>>
StepPath(s, o) == <<JobTop(StepJob[s], o), StepJob[s], s>>

\* A path is /slurm, a user cpuset, or the cpuset of a job, a step or a task.
LEMMA PathCases ==
  ASSUME NEW p \in Path
  PROVE  \/ p = <<>>
         \/ \E n \in TopName : p = <<n>>
         \/ \E j \in Jobs, o \in BOOLEAN : p = PathOfJob(j, o)
         \/ \E s \in Steps, o \in BOOLEAN : p = StepPath(s, o)
         \/ \E t \in Tasks, o \in BOOLEAN : p = TaskPath(t, o)
BY DEF Path, PathOfJob, TaskPath, StepPath

\* The user part of a job, step or task path names a user.
LEMMA TopNames ==
  ASSUME NEW o \in BOOLEAN
  PROVE  /\ \A j \in Jobs : JobTop(j, o) \in TopName
         /\ \A s \in Steps : JobTop(StepJob[s], o) \in TopName
         /\ \A t \in Tasks : JobTop(StepJob[TaskStep[t]], o) \in TopName
BY CpusetAssumption DEF TopName, JobTop

\* ... and conversely each of these tuples is a path.
LEMMA TuplePath ==
  /\ <<>> \in Path
  /\ \A n \in TopName : <<n>> \in Path
  /\ \A j \in Jobs, o \in BOOLEAN : PathOfJob(j, o) \in Path
  /\ \A s \in Steps, o \in BOOLEAN : StepPath(s, o) \in Path
  /\ \A t \in Tasks, o \in BOOLEAN : TaskPath(t, o) \in Path
BY DEF Path, PathOfJob, TaskPath, StepPath

\* What Parent drops from a tuple.
LEMMA TupleParent ==
  ASSUME NEW a, NEW b, NEW c, NEW d
  PROVE  /\ Parent(<<a>>) = <<>>
         /\ Parent(<<a, b>>) = <<a>>
         /\ Parent(<<a, b, c>>) = <<a, b>>
         /\ Parent(<<a, b, c, d>>) = <<a, b, c>>
BY DEF Parent

\* Lengths and elements of the tuples that are paths.
LEMMA TupleLen ==
  ASSUME NEW a, NEW b, NEW c, NEW d
  PROVE  /\ Len(<<>>) = 0
         /\ Len(<<a>>) = 1 /\ <<a>> # <<>> /\ <<a>>[1] = a
         /\ Len(<<a, b>>) = 2 /\ <<a, b>> # <<>>
         /\ <<a, b>>[1] = a /\ <<a, b>>[2] = b
         /\ Len(<<a, b, c>>) = 3 /\ <<a, b, c>> # <<>> /\ <<a, b, c>>[1] = a
         /\ <<a, b, c>>[2] = b /\ <<a, b, c>>[3] = c
         /\ Len(<<a, b, c, d>>) = 4 /\ <<a, b, c, d>> # <<>> /\ <<a, b, c, d>>[1] = a
         /\ <<a, b, c, d>>[4] = d
OBVIOUS

PathFact(p) ==
  /\ Len(p) \in 0 .. 4
  /\ Len(p) = 0 <=> p = <<>>
  /\ p # <<>> => p[1] \in TopName
  /\ Len(p) = 1 => p = <<p[1]>>
  /\ Len(p) = 2 => p[2] \in Jobs
  /\ p # <<>> => /\ Parent(p) \in Path
                 /\ Len(Parent(p)) = Len(p) - 1
  /\ Len(p) > 1 => Parent(p)[1] = p[1]

\* Appending the id of a job or of a step.
LEMMA TupleAppend ==
  ASSUME NEW a, NEW b, NEW c
  PROVE  /\ Append(<<a>>, b) = <<a, b>>
         /\ Append(<<a, b>>, c) = <<a, b, c>>
<1>1. /\ Append(<<a>>, b) = [i \in 1 .. 2 |-> IF i = 2 THEN b ELSE <<a>>[i]]
      /\ Append(<<a, b>>, c) = [i \in 1 .. 3 |-> IF i = 3 THEN c ELSE <<a, b>>[i]]
  OBVIOUS
<1>2. /\ [i \in 1 .. 2 |-> IF i = 2 THEN b ELSE <<a>>[i]] = <<a, b>>
      /\ [i \in 1 .. 3 |-> IF i = 3 THEN c ELSE <<a, b>>[i]] = <<a, b, c>>
  OBVIOUS
<1> QED BY <1>1, <1>2

\* Appending the id of a task.
LEMMA TupleAppend4 ==
  ASSUME NEW a, NEW b, NEW c, NEW d PROVE Append(<<a, b, c>>, d) = <<a, b, c, d>>
<1>1. Append(<<a, b, c>>, d) = [i \in 1 .. 4 |-> IF i = 4 THEN d ELSE <<a, b, c>>[i]]
  OBVIOUS
<1>2. [i \in 1 .. 4 |-> IF i = 4 THEN d ELSE <<a, b, c>>[i]] = <<a, b, c, d>>
  OBVIOUS
<1> QED BY <1>1, <1>2

\* The shape of every path: depth, user name, and where its parent is.
LEMMA PathLen ==
  ASSUME NEW p \in Path
  PROVE  PathFact(p)
<1>1. CASE p = <<>>
  BY <1>1, TupleLen DEF PathFact
<1>2. ASSUME NEW n \in TopName, p = <<n>> PROVE PathFact(p)
  <2>1. Parent(p) = <<>> /\ Parent(p) \in Path
    BY <1>2, TupleParent, TuplePath
  <2>2. Len(p) = 1 /\ p # <<>> /\ p[1] = n
    BY <1>2, TupleLen
  <2> QED BY <2>1, <2>2, <1>2, TupleLen DEF PathFact
<1>3. ASSUME NEW j \in Jobs, NEW o \in BOOLEAN, p = PathOfJob(j, o) PROVE PathFact(p)
  <2>1. Parent(p) = <<JobTop(j, o)>> /\ Parent(p) \in Path
    BY <1>3, TupleParent, TuplePath, TopNames DEF PathOfJob
  <2>2. Len(p) = 2 /\ p # <<>> /\ p[1] = JobTop(j, o) /\ p[2] = j
    BY <1>3, TupleLen DEF PathOfJob
  <2>3. Len(Parent(p)) = 1 /\ Parent(p)[1] = JobTop(j, o)
    BY <2>1, TupleLen
  <2> QED BY <2>1, <2>2, <2>3, TopNames DEF PathFact
<1>4. ASSUME NEW s \in Steps, NEW o \in BOOLEAN, p = StepPath(s, o) PROVE PathFact(p)
  <2>1. StepJob[s] \in Jobs
    BY CpusetAssumption
  <2>2. Parent(p) = PathOfJob(StepJob[s], o)
    BY <1>4, TupleParent DEF StepPath, PathOfJob
  <2>5. Parent(p) \in Path
    BY <2>1, <2>2, TuplePath
  <2>3. Len(p) = 3 /\ p # <<>> /\ p[1] = JobTop(StepJob[s], o)
    BY <1>4, TupleLen DEF StepPath
  <2>4. Len(Parent(p)) = 2 /\ Parent(p)[1] = JobTop(StepJob[s], o)
    BY <2>2, TupleLen DEF PathOfJob
  <2> QED BY <2>1, <2>2, <2>3, <2>4, <2>5, TopNames DEF PathFact
<1>5. ASSUME NEW t \in Tasks, NEW o \in BOOLEAN, p = TaskPath(t, o) PROVE PathFact(p)
  <2>1. TaskStep[t] \in Steps
    BY CpusetAssumption
  <2>2. Parent(p) = StepPath(TaskStep[t], o)
    BY <1>5, TupleParent DEF StepPath, TaskPath
  <2>5. Parent(p) \in Path
    BY <2>1, <2>2, TuplePath
  <2>3. Len(p) = 4 /\ p # <<>> /\ p[1] = JobTop(StepJob[TaskStep[t]], o)
    BY <1>5, TupleLen DEF TaskPath
  <2>4. Len(Parent(p)) = 3 /\ Parent(p)[1] = JobTop(StepJob[TaskStep[t]], o)
    BY <2>2, TupleLen DEF StepPath
  <2> QED BY <2>1, <2>2, <2>3, <2>4, <2>5, TopNames DEF PathFact
<1> QED
  BY <1>1, <1>2, <1>3, <1>4, <1>5, PathCases


\* Replacing the user part of a path, which is all that a rename does.
LEMMA TupleExcept ==
  ASSUME NEW a, NEW b, NEW c, NEW d, NEW x
  PROVE  /\ [<<a>> EXCEPT ![1] = x] = <<x>>
         /\ [<<a, b>> EXCEPT ![1] = x] = <<x, b>>
         /\ [<<a, b, c>> EXCEPT ![1] = x] = <<x, b, c>>
         /\ [<<a, b, c, d>> EXCEPT ![1] = x] = <<x, b, c, d>>
OBVIOUS


TopOf(u, o) == <<[uid |-> u, orphan |-> o]>>

\* User cpusets, orphaned or not, are paths of depth 1 below /slurm.
LEMMA TopPath ==
  ASSUME NEW u \in Users, NEW o \in BOOLEAN
  PROVE  /\ TopOf(u, o) \in Path /\ TopOf(u, o) # <<>>
         /\ Len(TopOf(u, o)) = 1 /\ Parent(TopOf(u, o)) = <<>>
         /\ TopOf(u, o)[1] = [uid |-> u, orphan |-> o]
         /\ TopOf(u, o)[1] \in TopName
         /\ IsOrphan(TopOf(u, o)) <=> o
<1> DEFINE n == [uid |-> u, orphan |-> o]
<1>1. n \in TopName
  BY DEF TopName
<1>2. <<n>> \in Path
  BY <1>1, TuplePath
<1>3. <<n>> # <<>> /\ Len(<<n>>) = 1 /\ <<n>>[1] = n /\ Parent(<<n>>) = <<>>
  BY TupleLen, TupleParent
<1>4. n.orphan = o
  OBVIOUS
<1> QED BY <1>1, <1>2, <1>3, <1>4 DEF TopOf, IsOrphan

RenFact(p, r, a, b) ==
  /\ r \in Path /\ Len(r) = Len(p)
  /\ p # <<>> /\ p[1] = a[1] => r[1] = b[1]
  /\ p # <<>> /\ p[1] = b[1] => r = p
  /\ p = <<>> \/ p[1] # a[1] => r = p
  /\ p # <<>> => r # <<>> /\ Parent(r) = Renamed(Parent(p), a, b)
  /\ p = <<>> \/ p[1] # b[1] => Renamed(r, b, a) = p

\* user_cpuset_orphan and user_cpuset_unorphan: renaming a user's directory
\* maps cpusets to cpusets, keeps depth and parent, and can be undone.
LEMMA RenamedPath ==
  ASSUME NEW p \in Path, NEW u \in Users, NEW o \in BOOLEAN
  PROVE  RenFact(p, Renamed(p, TopOf(u, o), TopOf(u, ~o)), TopOf(u, o), TopOf(u, ~o))
<1> DEFINE a == TopOf(u, o)
<1> DEFINE b == TopOf(u, ~o)
<1> DEFINE r == Renamed(p, a, b)
<1>0. a[1] \in TopName /\ b[1] \in TopName /\ a[1] # b[1]
  <2>1. [uid |-> u, orphan |-> o].orphan = o /\ [uid |-> u, orphan |-> ~o].orphan = ~o
    OBVIOUS
  <2> QED BY TopPath, <2>1
<1> HIDE DEF a, b
<1> SUFFICES RenFact(p, r, a, b)
  BY DEF a, b
<1>1. CASE p = <<>>
  <2>1. r = p BY <1>1 DEF Renamed
  <2>2. Renamed(r, b, a) = p BY <1>1, <2>1 DEF Renamed
  <2> QED BY <1>1, <2>1, <2>2 DEF RenFact
<1>2. CASE p # <<>> /\ p[1] # a[1]
  <2>1. r = p BY <1>2 DEF Renamed
  <2>2. Len(p) > 1 => Parent(p)[1] = p[1]
    BY PathLen DEF PathFact
  <2>3. Len(p) = 1 => Parent(p) = <<>>
    <3>0. PathFact(p)
      BY PathLen
    <3>1. Len(p) = 1 => Parent(p) \in Path /\ Len(Parent(p)) = 0
      BY <3>0, <1>2 DEF PathFact
    <3>2. Parent(p) \in Path => (Len(Parent(p)) = 0 <=> Parent(p) = <<>>)
      BY PathLen DEF PathFact
    <3> QED BY <3>1, <3>2
  <2>4. Renamed(Parent(p), a, b) = Parent(p)
    BY <2>2, <2>3, <1>2, PathLen DEF Renamed, PathFact
  <2>5. p[1] # b[1] => Renamed(r, b, a) = p
    BY <2>1 DEF Renamed
  <2> QED BY <1>2, <2>1, <2>4, <2>5 DEF RenFact
<1>3. CASE p # <<>> /\ p[1] = a[1]
  <2> DEFINE Goal == /\ r \in Path /\ Len(r) = Len(p) /\ r[1] = b[1] /\ r # <<>>
                     /\ Parent(r) = Renamed(Parent(p), a, b)
                     /\ [r EXCEPT ![1] = a[1]] = p
  <2>1. r = [p EXCEPT ![1] = b[1]]
    BY <1>3 DEF Renamed
  <2>2. SUFFICES Goal
    BY <1>3, <1>0 DEF RenFact, Renamed
  <2>a. ASSUME NEW j \in Jobs, NEW q \in BOOLEAN, JobTop(j, q) = a[1]
        PROVE  q = o /\ b[1] = JobTop(j, ~o)
    <3>1. JobTop(j, q).uid = Owner[j] /\ JobTop(j, q).orphan = q
      BY DEF JobTop
    <3>a. a[1] = [uid |-> u, orphan |-> o]
      BY TopPath DEF a
    <3>2. a[1].uid = u /\ a[1].orphan = o
      BY <3>a
    <3>3. b[1] = [uid |-> u, orphan |-> ~o]
      BY TopPath DEF b
    <3> QED BY <2>a, <3>1, <3>2, <3>3 DEF JobTop
  <2> HIDE DEF r
  <2>3. ASSUME NEW n \in TopName, p = <<n>> PROVE Goal
    <3>1. n = a[1] /\ r = <<b[1]>>
      BY <1>3, <2>1, <2>3, TupleLen, TupleExcept
    <3>2. r \in Path /\ Len(r) = Len(p) /\ r[1] = b[1] /\ r # <<>>
      BY <3>1, <2>3, <1>0, TupleLen, TuplePath
    <3>3. Parent(r) = <<>> /\ Parent(p) = <<>>
      BY <3>1, <2>3, TupleParent
    <3>4. Renamed(Parent(p), a, b) = <<>>
      BY <3>3 DEF Renamed
    <3>5. [r EXCEPT ![1] = a[1]] = p
      BY <3>1, <2>3, TupleExcept
    <3> QED BY <3>2, <3>3, <3>4, <3>5
  <2>4. ASSUME NEW j \in Jobs, NEW q \in BOOLEAN, p = PathOfJob(j, q) PROVE Goal
    <3>1. JobTop(j, q) = a[1] /\ r = <<b[1], j>>
      BY <1>3, <2>1, <2>4, TupleLen, TupleExcept DEF PathOfJob
    <3>2. r = PathOfJob(j, ~o) /\ p = <<a[1], j>>
      BY <2>a, <3>1, <2>4 DEF PathOfJob
    <3>3. r \in Path
      BY <3>2, TuplePath
    <3>4. Len(r) = Len(p) /\ r[1] = b[1] /\ r # <<>>
      BY <3>1, <3>2, TupleLen
    <3>5. Parent(r) = <<b[1]>> /\ Parent(p) = <<a[1]>>
      BY <3>1, <3>2, TupleParent
    <3>6. Renamed(Parent(p), a, b) = <<b[1]>>
      BY <3>5, TupleLen, TupleExcept DEF Renamed
    <3>7. [r EXCEPT ![1] = a[1]] = p
      BY <3>1, <3>2, TupleExcept
    <3> QED BY <3>3, <3>4, <3>5, <3>6, <3>7
  <2>5. ASSUME NEW s \in Steps, NEW q \in BOOLEAN, p = StepPath(s, q) PROVE Goal
    <3> DEFINE j == StepJob[s]
    <3>0. j \in Jobs
      BY CpusetAssumption
    <3> HIDE DEF j
    <3>1. JobTop(j, q) = a[1] /\ r = <<b[1], j, s>>
      BY <1>3, <2>1, <2>5, TupleLen, TupleExcept DEF StepPath, j
    <3>2. r = StepPath(s, ~o) /\ p = <<a[1], j, s>>
      BY <2>a, <3>0, <3>1, <2>5 DEF StepPath, j
    <3>3. r \in Path
      BY <3>2, TuplePath
    <3>4. Len(r) = Len(p) /\ r[1] = b[1] /\ r # <<>>
      BY <3>1, <3>2, TupleLen
    <3>5. Parent(r) = <<b[1], j>> /\ Parent(p) = <<a[1], j>>
      BY <3>1, <3>2, TupleParent
    <3>6. Renamed(Parent(p), a, b) = <<b[1], j>>
      BY <3>5, TupleLen, TupleExcept DEF Renamed
    <3>7. [r EXCEPT ![1] = a[1]] = p
      BY <3>1, <3>2, TupleExcept
    <3> QED BY <3>3, <3>4, <3>5, <3>6, <3>7
  <2>6. ASSUME NEW t \in Tasks, NEW q \in BOOLEAN, p = TaskPath(t, q) PROVE Goal
    <3> DEFINE s == TaskStep[t]
    <3> DEFINE j == StepJob[s]
    <3>0. j \in Jobs
      BY CpusetAssumption
    <3> HIDE DEF j, s
    <3>1. JobTop(j, q) = a[1] /\ r = <<b[1], j, s, t>>
      BY <1>3, <2>1, <2>6, TupleLen, TupleExcept DEF TaskPath, j, s
    <3>2. r = TaskPath(t, ~o) /\ p = <<a[1], j, s, t>>
      BY <2>a, <3>0, <3>1, <2>6 DEF TaskPath, j, s
    <3>3. r \in Path
      BY <3>2, TuplePath
    <3>4. Len(r) = Len(p) /\ r[1] = b[1] /\ r # <<>>
      BY <3>1, <3>2, TupleLen
    <3>5. Parent(r) = <<b[1], j, s>> /\ Parent(p) = <<a[1], j, s>>
      BY <3>1, <3>2, TupleParent
    <3>6. Renamed(Parent(p), a, b) = <<b[1], j, s>>
      BY <3>5, TupleLen, TupleExcept DEF Renamed
    <3>7. [r EXCEPT ![1] = a[1]] = p
      BY <3>1, <3>2, TupleExcept
    <3> QED BY <3>3, <3>4, <3>5, <3>6, <3>7
  <2> QED BY <1>3, <2>3, <2>4, <2>5, <2>6, PathCases
<1> QED BY <1>1, <1>2, <1>3


\* The tree is at most four deep.
LEMMA Depth ==
  ASSUME NEW p \in Path
  PROVE  Len(p) \in 0 .. 4 /\ (Len(p) = 0 <=> p = <<>>)
BY PathLen DEF PathFact

\* The cpusets within jobs are those of depth 2, 3 and 4.
LEMMA InJobFacts ==
  ASSUME NEW p \in Path
  PROVE  /\ InJob(p) <=> Len(p) \in {2, 3, 4}
         /\ ~InJob(p) <=> Len(p) \in {0, 1}
         /\ InJob(p) => p # <<>>
<1>1. ASSUME NEW n \in 0 .. 4
      PROVE  (n > 1 <=> n \in {2, 3, 4}) /\ (~(n > 1) <=> n \in {0, 1})
  OBVIOUS
<1>2. Len(p) \in 0 .. 4 /\ (Len(p) = 0 <=> p = <<>>)
  BY Depth
<1>3. (Len(p) > 1 <=> Len(p) \in {2, 3, 4}) /\ (~(Len(p) > 1) <=> Len(p) \in {0, 1})
  BY <1>1, <1>2
<1> QED BY <1>2, <1>3 DEF InJob

\* Being within a job depends only on the depth.
LEMMA SameDepth ==
  ASSUME NEW p, NEW q, Len(p) = Len(q), InJob(p) PROVE InJob(q)
BY DEF InJob

\* The parent of a path, its depth, and that it is under the same user cpuset.
LEMMA ParentFacts ==
  ASSUME NEW p \in Path, p # <<>>
  PROVE  /\ Parent(p) \in Path /\ Parent(p) # p
         /\ Len(p) \in {1, 2, 3, 4}
         /\ Len(p) = 1 <=> Parent(p) = <<>>
         /\ Len(p) = 2 => Len(Parent(p)) = 1
         /\ Len(p) = 3 => Len(Parent(p)) = 2
         /\ Len(p) = 4 => Len(Parent(p)) = 3
         /\ InJob(p) => IsOrphan(Parent(p)) <=> IsOrphan(p)
         /\ InJob(p) => Parent(p)[1] = p[1]
         /\ InJob(p) /\ Len(p) # 2 => InJob(Parent(p))
<1>1. PathFact(p)
  BY PathLen
<1>2. Parent(p) \in Path /\ Len(Parent(p)) = Len(p) - 1
  BY <1>1 DEF PathFact
<1>3. InJob(p) => Parent(p)[1] = p[1]
  BY <1>1 DEF PathFact, InJob
<1>4. Len(p) \in {1, 2, 3, 4}
  BY Depth
<1>5. /\ Len(p) = 1 => Len(Parent(p)) = 0
      /\ Len(p) = 2 => Len(Parent(p)) = 1
      /\ Len(p) = 3 => Len(Parent(p)) = 2
      /\ Len(p) = 4 => Len(Parent(p)) = 3
  BY <1>2
<1>6. Parent(p) = <<>> <=> Len(Parent(p)) = 0
  BY <1>2, Depth
<1>7. InJob(p) <=> Len(p) \in {2, 3, 4}
  BY InJobFacts
<1>8. InJob(Parent(p)) <=> Len(Parent(p)) \in {2, 3, 4}
  BY <1>2, InJobFacts
<1>9. InJob(p) => IsOrphan(Parent(p)) <=> IsOrphan(p)
  BY <1>3, <1>4, <1>5, <1>6, <1>7 DEF IsOrphan
<1>10. Len(p) = 1 <=> Parent(p) = <<>>
  BY <1>4, <1>5, <1>6
<1>11. InJob(p) /\ Len(p) # 2 => InJob(Parent(p))
  BY <1>4, <1>5, <1>7, <1>8
<1>12. Parent(p) # p
  BY <1>4, <1>5
<1> QED BY <1>2, <1>3, <1>4, <1>5, <1>9, <1>10, <1>11, <1>12

\* The two names of a user cpuset, written with the orphan flag.
LEMMA TopDef ==
  ASSUME NEW u PROVE Top(u) = TopOf(u, FALSE) /\ OrphanOf(u) = TopOf(u, TRUE)
BY DEF Top, OrphanOf, TopOf

\* Different users, or different flags, give different names.
LEMMA TopInj ==
  ASSUME NEW u \in Users, NEW v \in Users, NEW o \in BOOLEAN, NEW w \in BOOLEAN,
         TopOf(u, o)[1] = TopOf(v, w)[1]
  PROVE  u = v /\ o = w
<1>1. [uid |-> u, orphan |-> o] = [uid |-> v, orphan |-> w]
  BY TopPath
<1>2. /\ [uid |-> u, orphan |-> o].uid = u /\ [uid |-> u, orphan |-> o].orphan = o
      /\ [uid |-> v, orphan |-> w].uid = v /\ [uid |-> v, orphan |-> w].orphan = w
  OBVIOUS
<1> QED BY <1>1, <1>2

\* A cpuset that exists has its user's (or the orphan's) cpuset above it.
LEMMA TopIn ==
  ASSUME dirs \subseteq Path, TreeInv, NEW p \in dirs, p # <<>>
  PROVE  <<p[1]>> \in dirs
<1>1. ASSUME NEW q \in dirs, Len(q) = 1 PROVE <<q[1]>> \in dirs
  <2>1. q = <<q[1]>> BY <1>1, PathLen DEF PathFact
  <2> QED BY <2>1
<1>2. ASSUME NEW q \in dirs, Len(q) \in {2, 3, 4}
      PROVE  Parent(q) \in dirs /\ Parent(q)[1] = q[1]
  <2>1. InJob(q) /\ q # <<>> BY <1>2, InJobFacts
  <2> QED BY <2>1, ParentFacts DEF TreeInv
<1>3. ASSUME NEW q \in dirs, Len(q) = 2 PROVE <<q[1]>> \in dirs
  <2>1. q # <<>> /\ Len(Parent(q)) = 1 BY <1>3, Depth, ParentFacts
  <2>2. Parent(q) \in dirs /\ Parent(q)[1] = q[1] BY <1>3, <1>2
  <2> QED BY <2>1, <2>2, <1>1
<1>4. ASSUME NEW q \in dirs, Len(q) = 3 PROVE <<q[1]>> \in dirs
  <2>1. q # <<>> /\ Len(Parent(q)) = 2 BY <1>4, Depth, ParentFacts
  <2>2. Parent(q) \in dirs /\ Parent(q)[1] = q[1] BY <1>4, <1>2
  <2> QED BY <2>1, <2>2, <1>3
<1>5. ASSUME NEW q \in dirs, Len(q) = 4 PROVE <<q[1]>> \in dirs
  <2>1. q # <<>> /\ Len(Parent(q)) = 3 BY <1>5, Depth, ParentFacts
  <2>2. Parent(q) \in dirs /\ Parent(q)[1] = q[1] BY <1>5, <1>2
  <2> QED BY <2>1, <2>2, <1>4
<1>6. Len(p) \in {1, 2, 3, 4} BY ParentFacts
<1> QED BY <1>1, <1>3, <1>4, <1>5, <1>6

-----------------------------------------------------------------------------
(* What each change of the tree preserves.                                 *)

TreeType == dirs \subseteq Path /\ cpus \in [Path -> SUBSET CPU]
TreeOK == TreeType /\ TreeInv /\ Exclusive /\ NoOrphanTwin

\* The tree facts survive a step that does not touch the tree.
LEMMA SameTree ==
  ASSUME TreeOK, UNCHANGED <<dirs, cpus>> PROVE TreeOK'
BY DEF TreeOK, TreeType, TreeInv, Exclusive, NoOrphanTwin, Top, OrphanOf

\* mkdir of /slurm or, if there is no orphan, of a user cpuset.
LEMMA AddTop ==
  ASSUME TreeOK, NEW p \in Path, ~InJob(p), dirs' = dirs \cup {p}, cpus' = cpus,
         \A u \in Users : p = Top(u) => OrphanOf(u) \notin dirs,
         \A u \in Users : p # OrphanOf(u)
  PROVE  TreeOK'
<1>1. TreeType'
  BY DEF TreeOK, TreeType
<1>2. TreeInv'
  BY DEF TreeOK, TreeType, TreeInv
<1>3. Exclusive'
  <2>1. \A q, r \in dirs' : InJob(q) /\ Len(q) = Len(r) => q \in dirs /\ r \in dirs
    BY SameDepth
  <2> QED BY <2>1 DEF TreeOK, Exclusive
<1>4. NoOrphanTwin'
  BY DEF TreeOK, NoOrphanTwin
<1> QED BY <1>1, <1>2, <1>3, <1>4 DEF TreeOK

\* rmdir of a cpuset the kernel finds empty.
LEMMA RemoveCpuset ==
  ASSUME TreeOK, NEW p \in Path, ~Busy(dirs, loc, p),
         dirs' = dirs \ {p}, cpus' = [cpus EXCEPT ![p] = {}]
  PROVE  TreeOK'
<1>1. TreeType'
  BY DEF TreeOK, TreeType
<1>2. \A q \in dirs : q # <<>> => Parent(q) # p
  BY DEF Busy
<1>3. \A q \in dirs : InJob(q) => q # <<>>
  BY InJobFacts DEF TreeOK, TreeType
<1>4. \A q \in Path : cpus'[q] = IF q = p THEN {} ELSE cpus[q]
  BY DEF TreeOK, TreeType
<1>5. TreeInv'
  <2>1. \A q \in dirs' : InJob(q) => Parent(q) \in dirs' /\ cpus'[q] = cpus[q]
                                       /\ cpus'[Parent(q)] = cpus[Parent(q)]
    BY <1>2, <1>3, <1>4 DEF TreeOK, TreeType, TreeInv
  <2> QED BY <2>1, <1>4 DEF TreeOK, TreeType, TreeInv
<1>6. Exclusive' /\ NoOrphanTwin'
  BY <1>4 DEF TreeOK, TreeType, Exclusive, NoOrphanTwin
<1> QED BY <1>1, <1>5, <1>6 DEF TreeOK

\* cpuset_modify of a user cpuset, when the kernel accepts it.
LEMMA ModifyUser ==
  ASSUME TreeOK, NEW u \in Users, NEW used \in SUBSET CPU,
         KidCpus(Top(u)) \subseteq used,
         dirs' = dirs, cpus' = [cpus EXCEPT ![Top(u)] = used]
  PROVE  TreeOK'
<1>1. TreeType'
  BY DEF TreeOK, TreeType
<1>2. Top(u) \in Path /\ Len(Top(u)) = 1
  BY TopPath, TopDef
<1>3. \A q \in Path : cpus'[q] = IF q = Top(u) THEN used ELSE cpus[q]
  BY DEF TreeOK, TreeType
<1>4. \A q \in dirs : q # <<>> /\ Parent(q) = Top(u) => cpus[q] \subseteq used
  BY DEF KidCpus, Kids
<1>5. ASSUME NEW q \in Path, InJob(q) PROVE q # <<>> /\ q # Top(u)
  BY <1>2, <1>5, InJobFacts
<1>6. TreeInv'
  <2>1. \A q \in dirs : InJob(q) => cpus'[q] = cpus[q] /\ Parent(q) \in dirs
                                      /\ cpus[q] \subseteq cpus'[Parent(q)]
    BY <1>3, <1>4, <1>5 DEF TreeOK, TreeType, TreeInv
  <2> QED BY <2>1, <1>3, <1>5 DEF TreeOK, TreeType, TreeInv
<1>7. Exclusive'
  <2>1. \A q \in dirs : InJob(q) => cpus'[q] = cpus[q]
    BY <1>3, <1>5 DEF TreeOK, TreeType
  <2> QED BY <2>1, SameDepth DEF TreeOK, Exclusive
<1>8. NoOrphanTwin'
  BY DEF TreeOK, NoOrphanTwin
<1> QED BY <1>1, <1>6, <1>7, <1>8 DEF TreeOK

\* job_cpuset_create, when the kernel accepts it.
LEMMA AddCpuset ==
  ASSUME TreeOK, NEW p \in Path, NEW a \in SUBSET CPU, InJob(p),
         Len(p) = 2 => ~IsOrphan(p),
         p \notin dirs, Parent(p) \in dirs, a \subseteq cpus[Parent(p)],
         \A q \in dirs : Len(q) = Len(p) => a \cap cpus[q] = {},
         dirs' = dirs \cup {p}, cpus' = [cpus EXCEPT ![p] = a]
  PROVE  TreeOK'
<1>1. TreeType'
  BY DEF TreeOK, TreeType
<1>2. \A q \in Path : cpus'[q] = IF q = p THEN a ELSE cpus[q]
  BY DEF TreeOK, TreeType
<1>3. p # <<>> /\ Parent(p) # p
  BY InJobFacts, ParentFacts
<1>4. IsOrphan(p) => a = {}
  <2>1. SUFFICES ASSUME IsOrphan(p) PROVE a = {}
    OBVIOUS
  <2>2. InJob(Parent(p)) /\ IsOrphan(Parent(p))
    BY <2>1, <1>3, ParentFacts
  <2>3. cpus[Parent(p)] = {}
    BY <2>2 DEF TreeOK, TreeInv
  <2> QED BY <2>3
<1>5. \A q \in dirs : InJob(q) => Parent(q) # p
  BY DEF TreeOK, TreeInv
<1>6. TreeInv'
  BY <1>2, <1>3, <1>4, <1>5 DEF TreeOK, TreeType, TreeInv
<1>7. Exclusive'
  BY <1>2 DEF TreeOK, TreeType, Exclusive
<1>8. NoOrphanTwin'
  <2>1. Len(p) # 1
    BY InJobFacts
  <2>2. ASSUME NEW u \in Users PROVE p # Top(u) /\ p # OrphanOf(u)
    BY <2>1, TopPath, TopDef
  <2> QED BY <2>2 DEF TreeOK, NoOrphanTwin
<1> QED BY <1>1, <1>6, <1>7, <1>8 DEF TreeOK


\* What a rename of a user's directory does to the cpusets below it.
LEMMA RenameMoves ==
  ASSUME TreeOK, NEW u \in Users, NEW o \in BOOLEAN,
         TopOf(u, o) \in dirs, TopOf(u, ~o) \notin dirs,
         Rename(TopOf(u, o), TopOf(u, ~o))
  PROVE  LET R(p) == Renamed(p, TopOf(u, o), TopOf(u, ~o)) IN
         /\ \A p \in dirs : p = <<>> \/ p[1] # TopOf(u, ~o)[1]
         /\ \A p \in dirs : R(p) \in dirs' /\ cpus'[R(p)] = cpus[p]
         /\ \A q \in dirs' : \E p \in dirs : q = R(p)
         /\ \A p, q \in dirs : R(p) = R(q) => p = q
         /\ \A q \in Path : q \notin dirs' /\ InJob(q) => cpus'[q] = {}
<1> DEFINE a == TopOf(u, o)
<1> DEFINE b == TopOf(u, ~o)
<1> DEFINE R(p) == Renamed(p, a, b)
<1>0. /\ dirs \subseteq Path /\ cpus \in [Path -> SUBSET CPU] /\ TreeInv
      /\ b = <<b[1]>> /\ a[1] # b[1]
  <2>1. [uid |-> u, orphan |-> o].orphan = o /\ [uid |-> u, orphan |-> ~o].orphan = ~o
    OBVIOUS
  <2>2. a[1] # b[1]
    BY <2>1, TopPath
  <2>3. b = <<b[1]>>
    BY TupleLen DEF TopOf
  <2> QED BY <2>2, <2>3 DEF TreeOK, TreeType
<1>1. \A p \in Path : RenFact(p, R(p), a, b) /\ RenFact(p, Renamed(p, b, a), b, a)
  <2>1. ASSUME NEW p \in Path PROVE RenFact(p, R(p), a, b)
    BY RenamedPath
  <2>2. ASSUME NEW p \in Path PROVE RenFact(p, Renamed(p, b, a), b, a)
    <3>1. RenFact(p, Renamed(p, TopOf(u, ~o), TopOf(u, ~~o)), TopOf(u, ~o), TopOf(u, ~~o))
      BY RenamedPath
    <3> QED BY <3>1
  <2> QED BY <2>1, <2>2
<1>2. /\ b \notin dirs
      /\ dirs' = {R(p) : p \in dirs}
      /\ \A p \in Path : cpus'[p] = IF p # <<>> /\ p[1] = b[1] THEN cpus[Renamed(p, b, a)]
                                     ELSE IF p # <<>> /\ p[1] = a[1] THEN {} ELSE cpus[p]
  BY DEF Rename
<1> HIDE DEF a, b
<1>3. ASSUME NEW p \in dirs PROVE p = <<>> \/ p[1] # b[1]
  <2>1. p # <<>> => <<p[1]>> \in dirs
    BY <1>0, TopIn
  <2> QED BY <2>1, <1>0, <1>2
<1>4. ASSUME NEW p \in dirs PROVE R(p) \in dirs' /\ cpus'[R(p)] = cpus[p]
  <2>1. R(p) \in dirs' /\ p \in Path
    BY <1>2, <1>0
  <2>2. R(p) \in Path /\ Renamed(R(p), b, a) = p
    BY <2>1, <1>1, <1>3 DEF RenFact
  <2>3. CASE p = <<>>
    <3>1. R(p) = p BY <2>3, <2>1, <1>1 DEF RenFact
    <3> QED BY <3>1, <2>1, <2>3, <1>2
  <2>4. CASE p # <<>> /\ p[1] = a[1]
    <3>1. R(p) # <<>> /\ R(p)[1] = b[1] BY <2>4, <2>1, <1>1 DEF RenFact
    <3> QED BY <3>1, <2>1, <2>2, <1>2
  <2>5. CASE p # <<>> /\ p[1] # a[1]
    <3>1. R(p) = p BY <2>5, <2>1, <1>1 DEF RenFact
    <3> QED BY <3>1, <2>1, <2>5, <1>2, <1>3
  <2> QED BY <2>3, <2>4, <2>5
<1>5. \A q \in dirs' : \E p \in dirs : q = R(p)
  BY <1>2
<1>6. ASSUME NEW p \in dirs, NEW q \in dirs, R(p) = R(q) PROVE p = q
  <2>1. Renamed(R(p), b, a) = p /\ Renamed(R(q), b, a) = q
    BY <1>0, <1>1, <1>3 DEF RenFact
  <2> QED BY <2>1, <1>6
<1>7. ASSUME NEW q \in Path, q \notin dirs', InJob(q) PROVE cpus'[q] = {}
  <2>0. q # <<>>
    BY <1>7, InJobFacts
  <2>1. CASE q[1] = b[1]
    <3> DEFINE p == Renamed(q, b, a)
    <3>1. p \in Path /\ Len(p) = Len(q) /\ R(p) = q
      BY <2>0, <2>1, <1>0, <1>1 DEF RenFact
    <3>2. p \notin dirs /\ InJob(p)
      BY <3>1, <1>7, <1>4, SameDepth
    <3>3. cpus[p] = {}
      BY <3>1, <3>2, <1>0 DEF TreeInv
    <3> QED BY <3>3, <2>0, <2>1, <1>2
  <2>2. CASE q[1] = a[1]
    BY <2>2, <2>0, <1>0, <1>2
  <2>3. CASE q[1] # a[1] /\ q[1] # b[1]
    <3>1. R(q) = q
      BY <2>0, <2>3, <1>1 DEF RenFact
    <3>2. q \notin dirs
      BY <3>1, <1>4, <1>7
    <3>3. cpus[q] = {}
      BY <3>2, <1>7, <1>0 DEF TreeInv
    <3> QED BY <3>3, <2>3, <1>2
  <2> QED BY <2>1, <2>2, <2>3
<1> QED BY <1>3, <1>4, <1>5, <1>6, <1>7 DEF a, b


\* Orphaning (o = FALSE) or unorphaning (o = TRUE) a user who has no CPUs.
LEMMA RenameTree ==
  ASSUME TreeOK, NEW u \in Users, NEW o \in BOOLEAN,
         TopOf(u, o) \in dirs, TopOf(u, ~o) \notin dirs,
         \A p \in dirs : InJob(p) /\ p[1] = TopOf(u, o)[1] => cpus[p] = {},
         Rename(TopOf(u, o), TopOf(u, ~o))
  PROVE  TreeOK'
<1> DEFINE a == TopOf(u, o)
<1> DEFINE b == TopOf(u, ~o)
<1> DEFINE R(p) == Renamed(p, a, b)
<1>0. dirs \subseteq Path /\ cpus \in [Path -> SUBSET CPU] /\ TreeInv
  BY DEF TreeOK, TreeType
<1>1. /\ \A p \in dirs : R(p) \in dirs' /\ cpus'[R(p)] = cpus[p]
      /\ \A q \in dirs' : \E p \in dirs : q = R(p)
      /\ \A p, q \in dirs : R(p) = R(q) => p = q
      /\ \A q \in Path : q \notin dirs' /\ InJob(q) => cpus'[q] = {}
  BY RenameMoves
<1>2. \A p \in Path : RenFact(p, R(p), a, b)
  BY RenamedPath
<1>3. TreeType'
  <2>1. dirs' \subseteq Path
    BY <1>0, <1>1, <1>2 DEF RenFact
  <2>2. cpus' \in [Path -> SUBSET CPU]
    <3>1. \A p \in Path : RenFact(p, Renamed(p, b, a), b, a)
      <4>1. ASSUME NEW p \in Path
            PROVE RenFact(p, Renamed(p, TopOf(u, ~o), TopOf(u, ~~o)), TopOf(u, ~o), TopOf(u, ~~o))
        BY RenamedPath
      <4> QED BY <4>1
    <3>2. \A p \in Path : Renamed(p, b, a) \in Path
      BY <3>1 DEF RenFact
    <3> HIDE DEF a, b
    <3> QED BY <3>2, <1>0 DEF Rename, a, b
  <2> QED BY <2>1, <2>2 DEF TreeType
<1>4. \A p \in dirs : InJob(p) => cpus[p] = {} \/ R(p) = p
  <2>1. ASSUME NEW p \in dirs, InJob(p), p[1] # a[1] PROVE R(p) = p
    BY <2>1, <1>0, <1>2 DEF RenFact
  <2> QED BY <2>1
<1> HIDE DEF a, b
<1>5. ASSUME NEW q \in dirs', InJob(q)
      PROVE  /\ Parent(q) \in dirs' /\ cpus'[q] \subseteq cpus'[Parent(q)]
             /\ IsOrphan(q) => cpus'[q] = {}
  <2>1. PICK p \in dirs : q = R(p)
    BY <1>1
  <2>2. Len(p) = Len(q) /\ p \in Path
    BY <2>1, <1>0, <1>2 DEF RenFact
  <2>3. InJob(p) /\ p # <<>>
    BY <2>2, <1>5, SameDepth, InJobFacts
  <2>4. Parent(p) \in dirs /\ cpus[p] \subseteq cpus[Parent(p)] /\ Parent(q) = R(Parent(p))
    BY <2>1, <2>2, <2>3, <1>0, <1>2 DEF RenFact, TreeInv
  <2>5. Parent(q) \in dirs' /\ cpus'[q] \subseteq cpus'[Parent(q)]
    BY <2>1, <2>4, <1>1
  <2>6. IsOrphan(q) => cpus'[q] = {}
    BY <2>1, <2>3, <1>0, <1>1, <1>4 DEF TreeInv
  <2> QED BY <2>5, <2>6
<1>6. TreeInv'
  BY <1>1, <1>5 DEF TreeInv
<1>7. Exclusive'
  <2>1. SUFFICES ASSUME NEW q \in dirs', NEW r \in dirs', InJob(q), Len(q) = Len(r), q # r
                 PROVE  cpus'[q] \cap cpus'[r] = {}
    BY DEF Exclusive
  <2>2. PICK p \in dirs, s \in dirs : q = R(p) /\ r = R(s)
    BY <1>1
  <2>3. Len(p) = Len(s) /\ InJob(p) /\ p # s
    <3>1. Len(p) = Len(q) /\ Len(s) = Len(r)
      BY <2>2, <1>0, <1>2 DEF RenFact
    <3> QED BY <3>1, <2>1, <2>2, SameDepth
  <2> QED BY <2>2, <2>3, <1>1 DEF TreeOK, Exclusive
<1>8. NoOrphanTwin'
  <2>1. SUFFICES ASSUME NEW v \in Users, Top(v) \in dirs', OrphanOf(v) \in dirs'
                 PROVE  FALSE
    BY DEF NoOrphanTwin
  <2>2. ASSUME NEW q \in dirs', Len(q) = 1, q # b PROVE q \in dirs /\ q # a
    <3>1. PICK p \in dirs : q = R(p)
      BY <1>1
    <3>2. p \in Path /\ q \in Path /\ Len(p) = 1 /\ p # <<>> /\ q = <<q[1]>>
      <4>1. p \in Path /\ q \in Path /\ Len(p) = 1
        BY <3>1, <2>2, <1>0, <1>2 DEF RenFact
      <4> QED BY <4>1, <2>2, Depth, PathLen DEF PathFact
    <3>3. b = <<b[1]>>
      BY TupleLen DEF TopOf, b
    <3>4. p[1] # a[1]
      BY <3>1, <3>2, <3>3, <2>2, <1>2 DEF RenFact
    <3> QED BY <3>1, <3>2, <3>4, <1>2 DEF RenFact
  <2>3. Len(Top(v)) = 1 /\ Len(OrphanOf(v)) = 1
    BY TopPath, TopDef
  <2>4. CASE v = u
    <3>1. a # b
      BY TopInj DEF a, b
    <3>2. a = Top(v) \/ a = OrphanOf(v)
      BY <2>4, TopDef DEF a
    <3> QED BY <2>1, <2>2, <2>3, <3>1, <3>2
  <2>5. CASE v # u
    <3>0. TopOf(v, FALSE)[1] # TopOf(u, ~o)[1] /\ TopOf(v, TRUE)[1] # TopOf(u, ~o)[1]
      BY <2>5, TopInj
    <3>1. Top(v) # b /\ OrphanOf(v) # b
      BY <3>0, TopDef DEF b
    <3> QED BY <2>1, <2>2, <2>3, <3>1 DEF TreeOK, NoOrphanTwin
  <2> QED BY <2>4, <2>5
<1> QED BY <1>3, <1>6, <1>7, <1>8 DEF TreeOK


\* Under a user cpuset whose job cpusets have no CPUs, no cpuset has any.
LEMMA NoCpusBelow ==
  ASSUME TreeOK, NEW u \in Users, KidCpus(Top(u)) = {}
  PROVE  \A p \in dirs : InJob(p) /\ p[1] = Top(u)[1] => cpus[p] = {}
<1>0. dirs \subseteq Path /\ TreeInv
  BY DEF TreeOK, TreeType
<1>1. ASSUME NEW p \in dirs, Len(p) = 2, p[1] = Top(u)[1] PROVE cpus[p] = {}
  <2>1. p # <<>> /\ InJob(p)
    BY <1>0, <1>1, InJobFacts
  <2>2. Parent(p) \in Path /\ Len(Parent(p)) = 1 /\ Parent(p)[1] = Top(u)[1]
    BY <1>0, <1>1, <2>1, ParentFacts
  <2>3. Parent(p) = <<Top(u)[1]>>
    BY <2>2, PathLen DEF PathFact
  <2>4. Top(u) = <<Top(u)[1]>>
    BY TupleLen DEF Top
  <2> QED BY <2>1, <2>3, <2>4 DEF KidCpus, Kids
<1>2. ASSUME NEW p \in dirs, Len(p) \in {3, 4}, p[1] = Top(u)[1]
      PROVE  /\ Parent(p) \in dirs /\ cpus[p] \subseteq cpus[Parent(p)]
             /\ Parent(p)[1] = Top(u)[1]
             /\ Len(p) = 3 => Len(Parent(p)) = 2
             /\ Len(p) = 4 => Len(Parent(p)) = 3
  <2>1. p # <<>> /\ InJob(p)
    BY <1>0, <1>2, InJobFacts
  <2> QED BY <1>0, <1>2, <2>1, ParentFacts DEF TreeInv
<1>3. ASSUME NEW p \in dirs, Len(p) = 3, p[1] = Top(u)[1] PROVE cpus[p] = {}
  BY <1>1, <1>2, <1>3
<1>4. ASSUME NEW p \in dirs, Len(p) = 4, p[1] = Top(u)[1] PROVE cpus[p] = {}
  BY <1>3, <1>2, <1>4
<1> QED BY <1>0, <1>1, <1>3, <1>4, InJobFacts


-----------------------------------------------------------------------------
(* Every step keeps the tree in order.                                     *)

\* The invariant includes the tree facts.
LEMMA IInvTree ==
  ASSUME IInv PROVE TreeOK
BY DEF IInv, TypeOK, TreeOK, TreeType

\* Only slurmstepd, a login and the release agent ever hold the lock.
LEMMA HolderProcs ==
  ASSUME TypeOK, NEW h, lock = h, h # Nobody
  PROVE  h \in Steps \/ h \in Logins \/ h = Agent
BY CpusetAssumption DEF TypeOK, Procs

\* user_cpuset_update (modify, kill or rename) keeps the tree in order.
LEMMA UserUpdateTree ==
  ASSUME IInv, NEW h, NEW u \in Users, NEW used \in SUBSET CPU, NEW n1, NEW n2,
         used = {} => KidCpus(Top(u)) = {},
         UserCpusetUpdate(h, u, used, n1, n2)
  PROVE  TreeOK'
<1>1. TreeOK
  BY IInvTree
<1>2. CASE used = {} /\ OrphanUser(h, u, n1)
  <2>1. CASE UNCHANGED <<dirs, cpus>>
    BY <1>1, <2>1, SameTree
  <2>2. CASE CanRename(Top(u), OrphanOf(u)) /\ Rename(Top(u), OrphanOf(u))
    <3>1. \A p \in dirs : InJob(p) /\ p[1] = Top(u)[1] => cpus[p] = {}
      BY <1>1, <1>2, NoCpusBelow
    <3>2. TopOf(u, FALSE) = Top(u) /\ TopOf(u, ~FALSE) = OrphanOf(u)
      BY TopDef
    <3>3. TopOf(u, FALSE) \in dirs /\ TopOf(u, ~FALSE) \notin dirs
      BY <2>2, <3>2 DEF CanRename
    <3>4. \A p \in dirs : InJob(p) /\ p[1] = TopOf(u, FALSE)[1] => cpus[p] = {}
      BY <3>1, <3>2
    <3>5. Rename(TopOf(u, FALSE), TopOf(u, ~FALSE))
      BY <2>2, <3>2
    <3> QED BY <1>1, <3>3, <3>4, <3>5, RenameTree
  <2> QED BY <1>2, <2>1, <2>2 DEF OrphanUser, KillOrphan, UserCpusetOrphan
<1>3. CASE dirs' = dirs /\ cpus' = cpus
  BY <1>1, <1>3, SameTree
<1>4. CASE /\ dirs' = dirs /\ ModifyResult(Top(u), used) = "ok"
           /\ cpus' = [cpus EXCEPT ![Top(u)] = used]
  <2>1. KidCpus(Top(u)) \subseteq used
    BY <1>4 DEF ModifyResult
  <2> QED BY <1>1, <1>4, <2>1, ModifyUser
<1> QED BY <1>2, <1>3, <1>4 DEF UserCpusetUpdate

\* The path job_cpuset_path computes for a process in the root cpuset.
LEMMA JobPathFacts ==
  ASSUME NEW j \in Jobs
  PROVE  /\ JobPath(j) \in Path /\ Len(JobPath(j)) = 2 /\ InJob(JobPath(j))
         /\ JobPath(j)[1] = Top(Owner[j])[1] /\ JobPath(j)[1].uid = Owner[j]
         /\ JobPath(j)[2] = j /\ ~IsOrphan(JobPath(j)) /\ Owner[j] \in Users
         /\ JobPath(j) = PathOfJob(j, FALSE)
<1>1. JobPath(j) = PathOfJob(j, FALSE)
  BY TupleAppend DEF JobPath, Top, PathOfJob, JobTop
<1>2. JobPath(j) \in Path
  BY <1>1, TuplePath
<1>3. /\ Len(JobPath(j)) = 2 /\ JobPath(j) # <<>> /\ JobPath(j)[1] = JobTop(j, FALSE)
      /\ JobPath(j)[2] = j
  BY <1>1, TupleLen DEF PathOfJob
<1>4. JobTop(j, FALSE).uid = Owner[j] /\ JobTop(j, FALSE).orphan = FALSE
  BY DEF JobTop
<1>5. Top(Owner[j])[1] = JobTop(j, FALSE)
  BY TupleLen DEF Top, JobTop
<1>6. Owner[j] \in Users
  BY CpusetAssumption
<1>7. InJob(JobPath(j))
  BY <1>2, <1>3, InJobFacts
<1> QED BY <1>1, <1>2, <1>3, <1>4, <1>5, <1>6, <1>7 DEF IsOrphan

\* A step cpuset hangs below its job's, a task cpuset below its step's.
LEMMA ShapeFacts ==
  ASSUME NEW s \in Steps, NEW p
  PROVE  /\ IsJobOf(p, s) => /\ p \in Path /\ Len(p) = 2
                             /\ IsStepOf(Append(p, s), s) /\ Parent(Append(p, s)) = p
         /\ IsStepOf(p, s) => /\ p \in Path /\ Len(p) = 3 /\ IsJobOf(Parent(p), s)
                              /\ \A t \in TasksOf(s) : /\ IsTaskOf(Append(p, t), s)
                                                       /\ Parent(Append(p, t)) = p
         /\ IsTaskOf(p, s) => /\ p \in Path /\ Len(p) = 4 /\ IsStepOf(Parent(p), s)
                              /\ p[4] \in TasksOf(s)
<1> DEFINE j == StepJob[s]
<1>0. j \in Jobs
  BY CpusetAssumption
<1>1. ASSUME IsJobOf(p, s)
      PROVE  /\ p \in Path /\ Len(p) = 2
             /\ IsStepOf(Append(p, s), s) /\ Parent(Append(p, s)) = p
  <2>1. PICK o \in BOOLEAN : p = PathOfJob(j, o)
    BY <1>1 DEF IsJobOf, PathOfJob
  <2>2. p = <<JobTop(j, o), j>> /\ Append(p, s) = <<JobTop(j, o), j, s>>
    BY <2>1, TupleAppend DEF PathOfJob
  <2>3. Parent(Append(p, s)) = p
    BY <2>2, TupleParent
  <2>4. p \in Path
    BY <2>1, <1>0, TuplePath
  <2>5. Len(p) = 2
    BY <2>2, TupleLen
  <2> QED BY <2>2, <2>3, <2>4, <2>5 DEF IsStepOf
<1>2. ASSUME IsStepOf(p, s)
      PROVE  /\ p \in Path /\ Len(p) = 3 /\ IsJobOf(Parent(p), s)
             /\ \A t \in TasksOf(s) : IsTaskOf(Append(p, t), s) /\ Parent(Append(p, t)) = p
  <2>1. PICK o \in BOOLEAN : p = StepPath(s, o)
    BY <1>2 DEF IsStepOf, StepPath
  <2>2. p = <<JobTop(j, o), j, s>> /\ Parent(p) = <<JobTop(j, o), j>>
    BY <2>1, TupleParent DEF StepPath
  <2>3. p \in Path
    BY <2>1, TuplePath
  <2>4. Len(p) = 3
    BY <2>2, TupleLen
  <2>5. ASSUME NEW t \in TasksOf(s)
        PROVE  IsTaskOf(Append(p, t), s) /\ Parent(Append(p, t)) = p
    <3>1. Append(p, t) = <<JobTop(j, o), j, s, t>>
      <4>1. Append(<<JobTop(j, o), j, s>>, t) = <<JobTop(j, o), j, s, t>>
        BY TupleAppend4
      <4> QED BY <4>1, <2>2
    <3>2. Parent(Append(p, t)) = p
      BY <3>1, <2>2, TupleParent
    <3> QED BY <3>1, <3>2 DEF IsTaskOf
  <2> QED BY <2>2, <2>3, <2>4, <2>5 DEF IsJobOf
<1>3. ASSUME IsTaskOf(p, s)
      PROVE  p \in Path /\ Len(p) = 4 /\ IsStepOf(Parent(p), s) /\ p[4] \in TasksOf(s)
  <2>1. PICK o \in BOOLEAN, t \in TasksOf(s) : p = <<JobTop(j, o), j, s, t>>
    BY <1>3 DEF IsTaskOf
  <2>2. Parent(p) = <<JobTop(j, o), j, s>>
    BY <2>1, TupleParent
  <2>3. t \in Tasks /\ TaskStep[t] = s
    BY DEF TasksOf
  <2>4. p = TaskPath(t, o)
    BY <2>1, <2>3 DEF TaskPath
  <2>5. p \in Path
    BY <2>3, <2>4, TuplePath
  <2>6. Len(p) = 4 /\ p[4] = t
    BY <2>1, TupleLen
  <2> QED BY <2>2, <2>5, <2>6 DEF IsStepOf
<1> QED BY <1>1, <1>2, <1>3

\* A rename of a user cpuset leaves job and step cpusets what they are.
LEMMA RenamedShape ==
  ASSUME NEW s \in Steps, NEW u \in Users, NEW o \in BOOLEAN, NEW p
  PROVE  LET r == Renamed(p, TopOf(u, o), TopOf(u, ~o)) IN
         /\ IsJobOf(p, s) => IsJobOf(r, s)
         /\ IsStepOf(p, s) => IsStepOf(r, s)
<1> DEFINE a == TopOf(u, o)
<1> DEFINE b == TopOf(u, ~o)
<1> DEFINE j == StepJob[s]
<1>0. a[1] = [uid |-> u, orphan |-> o] /\ b[1] = [uid |-> u, orphan |-> ~o]
  BY TopPath
<1>1. ASSUME NEW w \in BOOLEAN, JobTop(j, w) = a[1] PROVE b[1] = JobTop(j, ~o)
  <2>1. JobTop(j, w).uid = Owner[j] /\ a[1].uid = u
    BY <1>0 DEF JobTop
  <2> QED BY <2>1, <1>0, <1>1 DEF JobTop
<1> HIDE DEF a, b, j
<1>2. ASSUME IsJobOf(p, s) PROVE IsJobOf(Renamed(p, a, b), s)
  <2>1. PICK w \in BOOLEAN : p = <<JobTop(j, w), j>>
    BY <1>2 DEF IsJobOf, j
  <2>2. p # <<>> /\ p[1] = JobTop(j, w)
    BY <2>1, TupleLen
  <2>3. CASE p[1] = a[1]
    <3>1. Renamed(p, a, b) = <<b[1], j>>
      BY <2>1, <2>2, <2>3, TupleExcept DEF Renamed
    <3> QED BY <3>1, <2>2, <2>3, <1>1 DEF IsJobOf, j
  <2>4. CASE p[1] # a[1]
    BY <2>4, <1>2 DEF Renamed
  <2> QED BY <2>3, <2>4
<1>3. ASSUME IsStepOf(p, s) PROVE IsStepOf(Renamed(p, a, b), s)
  <2>1. PICK w \in BOOLEAN : p = <<JobTop(j, w), j, s>>
    BY <1>3 DEF IsStepOf, j
  <2>2. p # <<>> /\ p[1] = JobTop(j, w)
    BY <2>1, TupleLen
  <2>3. CASE p[1] = a[1]
    <3>1. Renamed(p, a, b) = <<b[1], j, s>>
      BY <2>1, <2>2, <2>3, TupleExcept DEF Renamed
    <3> QED BY <3>1, <2>2, <2>3, <1>1 DEF IsStepOf, j
  <2>4. CASE p[1] # a[1]
    BY <2>4, <1>3 DEF Renamed
  <2> QED BY <2>3, <2>4
<1> QED BY <1>2, <1>3 DEF a, b

\* In create_cpuset the target is a job cpuset seen from the root cpuset, or a
\* step or task cpuset seen from its parent.
LEMMA StepTarget ==
  ASSUME IInv, NEW h \in Procs, lock = h, pc[h] \in {"create", "userdir", "usermod", "mkdir"}
  PROVE  /\ h \in Steps \/ h \in Logins
         /\ InJob(target)
         /\ \/ loc[h] = Root /\ (\E j \in Jobs : target = JobPath(j))
            \/ loc[h] = Parent(target) /\ Len(target) \in {3, 4}
         /\ pc[h] \in {"userdir", "usermod"} => \E j \in Jobs : target = JobPath(j)
<1>1. h \in Steps \/ h \in Logins \/ h = Agent
  BY CpusetAssumption, HolderProcs DEF IInv, Procs
<1>2. h # Agent
  BY DEF IInv, AgentShape
<1>3. CASE h \in Steps
  <2>1. StepShape(h)
    BY <1>3 DEF IInv
  <2>2. CASE target = JobPath(StepJob[h]) /\ loc[h] = Root
    <3>1. StepJob[h] \in Jobs
      BY <1>3, CpusetAssumption
    <3>2. InJob(target)
      BY <3>1, <2>2, JobPathFacts
    <3>3. \E i \in Jobs : target = JobPath(i)
      BY <3>1, <2>2
    <3> QED BY <3>2, <3>3, <2>2, <1>3
  <2>3. CASE /\ IsStepOf(target, h) \/ IsTaskOf(target, h)
             /\ pc[h] \in StageTwo /\ loc[h] = Parent(target)
    <3>1. target \in Path /\ Len(target) \in {3, 4}
      BY <1>3, <2>3, ShapeFacts
    <3> QED BY <3>1, <2>3, <1>3, InJobFacts DEF StageTwo
  <2> QED BY <2>1, <2>2, <2>3 DEF StepShape, WorkingOn
<1>4. CASE h \in Logins
  <2>1. LoginShape(h)
    BY <1>4 DEF IInv
  <2>2. PICK j \in Jobs : target = JobPath(j)
    BY <2>1 DEF LoginShape
  <2>3. InJob(target)
    BY <2>2, JobPathFacts
  <2>4. loc[h] = Root
    BY <2>1 DEF LoginShape
  <2>5. \E i \in Jobs : target = JobPath(i)
    BY <2>2
  <2> QED BY <2>3, <2>4, <2>5, <1>4
<1> QED BY <1>1, <1>2, <1>3, <1>4

\* Giving /slurm its CPUs keeps the tree in order.
LEMMA SetRootTree ==
  ASSUME TreeOK, dirs' = dirs, cpus' = [cpus EXCEPT ![<<>>] = CPU]
  PROVE  TreeOK'
<1>1. TreeType'
  BY DEF TreeOK, TreeType
<1>2. \A p \in Path : p # <<>> => cpus'[p] = cpus[p]
  BY DEF TreeOK, TreeType
<1>3. ASSUME NEW p \in Path, InJob(p)
      PROVE  /\ Parent(p) \in Path /\ cpus'[p] = cpus[p]
             /\ cpus'[Parent(p)] = cpus[Parent(p)]
  <2>1. p # <<>> /\ Len(p) # 1
    BY <1>3, InJobFacts
  <2>2. Parent(p) \in Path /\ Parent(p) # <<>>
    BY <2>1, ParentFacts
  <2> QED BY <1>2, <2>1, <2>2
<1>4. TreeInv'
  BY <1>3 DEF TreeOK, TreeType, TreeInv
<1>5. Exclusive'
  <2>1. \A p \in dirs : InJob(p) => cpus'[p] = cpus[p]
    BY <1>3 DEF TreeOK, TreeType
  <2> QED BY <2>1, SameDepth DEF TreeOK, Exclusive
<1>6. NoOrphanTwin'
  BY DEF TreeOK, NoOrphanTwin
<1> QED BY <1>1, <1>4, <1>5, <1>6 DEF TreeOK

\* create_and_lock_cpuset_dir keeps the tree in order.
LEMMA CreateTree ==
  ASSUME IInv, NEW h, SlurmCpusetCreate(h) PROVE TreeOK'
<1>1. TreeOK
  BY IInvTree
<1>2. CASE UNCHANGED <<dirs, cpus>>
  BY <1>1, <1>2, SameTree
<1>3. CASE dirs' = dirs \cup {<<>>} /\ cpus' = cpus
  <2>1. <<>> \in Path /\ Len(<<>>) = 0
    BY TuplePath, TupleLen
  <2>2. ~InJob(<<>>)
    BY <2>1, InJobFacts
  <2>3. ASSUME NEW u \in Users PROVE <<>> # Top(u) /\ <<>> # OrphanOf(u)
    BY TopPath, TopDef
  <2> QED BY <1>1, <1>3, <2>1, <2>2, <2>3, AddTop
<1> QED BY <1>2, <1>3 DEF SlurmCpusetCreate

\* slurm_cpuset_clean_path keeps the tree in order: a busy cpuset stays.
LEMMA CleanTree ==
  ASSUME IInv, NEW h, SlurmCpusetClean(h) PROVE TreeOK'
<1>1. TreeOK /\ sweep \subseteq Path
  BY IInvTree DEF IInv, TypeOK
<1>2. PICK p \in sweep :
         \E valid \in (IF Len(p) = 2 THEN JobidIsValid(p[2]) ELSE {FALSE}) :
            CleanPath(p, valid)
  BY DEF SlurmCpusetClean
<1>3. CASE UNCHANGED <<dirs, cpus>>
  BY <1>1, <1>3, SameTree
<1>4. CASE /\ ~Busy(dirs, loc, p)
           /\ dirs' = dirs \ {p} /\ cpus' = [cpus EXCEPT ![p] = {}]
  BY <1>1, <1>4, RemoveCpuset
<1> QED BY <1>2, <1>3, <1>4 DEF CleanPath

\* The union of the children's CPUs is a set of CPUs.
LEMMA KidCpusType ==
  ASSUME TreeOK, NEW p PROVE KidCpus(p) \in SUBSET CPU
BY DEF TreeOK, TreeType, KidCpus, Kids

\* update_user_cpusets keeps the tree in order.
LEMMA UpdateTree ==
  ASSUME IInv, NEW h, UpdateUserCpusets(h) PROVE TreeOK'
<1>1. PICK u \in pending : UserCpusetUpdate(h, u, KidCpus(Top(u)), pc[h], pc[h])
  BY DEF UpdateUserCpusets
<1>2. u \in Users /\ KidCpus(Top(u)) \in SUBSET CPU
  BY IInvTree, KidCpusType DEF IInv, TypeOK
<1> QED BY <1>1, <1>2, UserUpdateTree

\* user_cpuset_unorphan or user_cpuset_create keeps the tree in order.
LEMMA UserDirTree ==
  ASSUME IInv, NEW h \in Procs, UserCpusetDir(h) PROVE TreeOK'
<1>1. TreeOK
  BY IInvTree
<1>2. PICK j \in Jobs : target = JobPath(j)
  BY StepTarget DEF UserCpusetDir
<1> DEFINE u == target[1].uid
<1>3. u \in Users
  BY <1>2, JobPathFacts
<1> HIDE DEF u
<1>4. CASE CanRename(OrphanOf(u), Top(u)) /\ Rename(OrphanOf(u), Top(u))
  <2>1. TopOf(u, TRUE) = OrphanOf(u) /\ TopOf(u, ~TRUE) = Top(u)
    BY TopDef
  <2>2. TopOf(u, TRUE) \in dirs /\ TopOf(u, ~TRUE) \notin dirs
    BY <1>4, <2>1 DEF CanRename
  <2>3. Rename(TopOf(u, TRUE), TopOf(u, ~TRUE))
    BY <1>4, <2>1
  <2>4. ASSUME NEW p \in dirs, InJob(p), p[1] = TopOf(u, TRUE)[1] PROVE cpus[p] = {}
    <3>1. p \in Path /\ p # <<>>
      BY <1>1, <2>4, InJobFacts DEF TreeOK, TreeType
    <3>2. TopOf(u, TRUE)[1] = [uid |-> u, orphan |-> TRUE]
      BY <1>3, TopPath
    <3>3. IsOrphan(p)
      <4>1. p[1] = [uid |-> u, orphan |-> TRUE]
        BY <2>4, <3>2
      <4>2. p[1].orphan = TRUE
        BY <4>1
      <4> QED BY <3>1, <4>2 DEF IsOrphan
    <3> QED BY <2>4, <3>3, <1>1 DEF TreeOK, TreeInv
  <2> QED BY <1>1, <1>3, <2>2, <2>3, <2>4, RenameTree
<1>5. CASE /\ ~CanRename(OrphanOf(u), Top(u))
           /\ dirs' = dirs \cup {Top(u)} /\ cpus' = cpus
  <2>1. CASE Top(u) \in dirs
    <3>1. UNCHANGED <<dirs, cpus>>
      BY <1>5, <2>1
    <3> QED BY <1>1, <3>1, SameTree
  <2>2. CASE Top(u) \notin dirs
    <3>1. OrphanOf(u) \notin dirs
      BY <1>5, <2>2 DEF CanRename
    <3>2. Top(u) \in Path /\ Len(Top(u)) = 1
      BY <1>3, TopPath, TopDef
    <3>3. ~InJob(Top(u))
      BY <3>2, InJobFacts
    <3>4. ASSUME NEW v \in Users
          PROVE  Top(u) # OrphanOf(v) /\ (Top(u) = Top(v) => u = v)
      <4>1. Top(u) = TopOf(u, FALSE) /\ Top(v) = TopOf(v, FALSE) /\ OrphanOf(v) = TopOf(v, TRUE)
        BY TopDef
      <4>2. TopOf(u, FALSE)[1] = TopOf(v, TRUE)[1] => FALSE = TRUE
        BY <1>3, TopInj
      <4>3. TopOf(u, FALSE)[1] = TopOf(v, FALSE)[1] => u = v
        BY <1>3, TopInj
      <4> QED BY <4>1, <4>2, <4>3
    <3> QED BY <1>1, <1>5, <3>1, <3>2, <3>3, <3>4, AddTop
  <2> QED BY <2>1, <2>2
<1> QED BY <1>4, <1>5 DEF UserCpusetDir, u

\* The rest of user_cpuset_update, in create_cpuset, does too.
LEMMA UserModifyTree ==
  ASSUME IInv, NEW h \in Procs, UserCpusetModify(h) PROVE TreeOK'
<1>1. PICK j \in Jobs : target = JobPath(j)
  BY StepTarget DEF UserCpusetModify
<1> DEFINE u == target[1].uid
<1> DEFINE used == (IF unorphan THEN {} ELSE KidCpus(Top(u))) \cup alloc
<1>2. u \in Users
  BY <1>1, JobPathFacts
<1>3. used \in SUBSET CPU
  BY IInvTree, KidCpusType DEF IInv, TypeOK
<1>4. unorphan => KidCpus(Top(u)) = {}
  BY DEF UserCpusetModify, IInv, AllocInv
<1>5. used = {} => KidCpus(Top(u)) = {}
  BY <1>4
<1>6. UserCpusetUpdate(h, u, used, "mkdir", CreateFailed(h))
  BY DEF UserCpusetModify
<1> HIDE DEF u, used
<1> QED BY <1>2, <1>3, <1>5, <1>6, UserUpdateTree

\* job_cpuset_create keeps the tree in order; this is where Exclusive needs
\* that nobody took the allocated CPUs in the meantime (AllocInv).
LEMMA MkdirTree ==
  ASSUME IInv, NEW h \in Procs, JobCpusetCreate(h) PROVE TreeOK'
<1>1. TreeOK /\ target \in Path /\ alloc \in SUBSET CPU
  BY IInvTree DEF IInv, TypeOK
<1>2. CASE UNCHANGED <<dirs, cpus>>
  BY <1>1, <1>2, SameTree
<1>3. CASE /\ target \notin dirs /\ Parent(target) \in dirs
           /\ alloc \subseteq cpus[Parent(target)]
           /\ dirs' = dirs \cup {target} /\ cpus' = [cpus EXCEPT ![target] = alloc]
  <2>1. InJob(target)
    BY StepTarget DEF JobCpusetCreate
  <2>2. Len(target) = 2 => ~IsOrphan(target)
    <3>1. (\E j \in Jobs : target = JobPath(j)) \/ Len(target) \in {3, 4}
      BY StepTarget DEF JobCpusetCreate
    <3>2. CASE \E j \in Jobs : target = JobPath(j)
      BY <3>2, JobPathFacts
    <3>3. CASE Len(target) \in {3, 4}
      BY <3>3
    <3> QED BY <3>1, <3>2, <3>3
  <2>3. \A q \in dirs : Len(q) = Len(target) => alloc \cap cpus[q] = {}
    BY DEF JobCpusetCreate, IInv, AllocInv
  <2> QED BY <1>1, <1>3, <2>1, <2>2, <2>3, AddCpuset
<1> QED BY <1>2, <1>3 DEF JobCpusetCreate


\* Every step keeps the tree in order.
LEMMA TreeStep ==
  ASSUME IInv, Next PROVE TreeOK'
<1>0. TreeOK
  BY IInvTree
<1>1. ASSUME NEW h \in Procs, Holder(h) PROVE TreeOK'
  <2>1. CASE InitSlurm(h)
    <3>1. CASE UNCHANGED cpus
      BY <1>0, <2>1, <3>1, SameTree DEF InitSlurm
    <3> QED BY <1>0, <2>1, <3>1, SetRootTree DEF InitSlurm
  <2>2. CASE SlurmCpusetClean(h)
    BY <2>2, CleanTree
  <2>3. CASE UpdateUserCpusets(h)
    BY <2>3, UpdateTree
  <2>4. CASE UserCpusetDir(h)
    BY <2>4, UserDirTree
  <2>5. CASE UserCpusetModify(h)
    BY <2>5, UserModifyTree
  <2>6. CASE JobCpusetCreate(h)
    BY <2>6, MkdirTree
  <2>7. CASE CleanDone(h) \/ UpdateDone(h) \/ CreateCpuset(h) \/ Migrate(h) \/ Unlock(h)
    <3>1. UNCHANGED <<dirs, cpus>>
      BY <2>7 DEF CleanDone, UpdateDone, CreateCpuset, Migrate, Unlock
    <3> QED BY <1>0, <3>1, SameTree
  <2>8. CASE LoadJobs(h) \/ ScanJob(h) \/ ScanDone(h)
    <3>1. UNCHANGED <<dirs, cpus>>
      BY <2>8 DEF LoadJobs, ScanJob, ScanDone
    <3> QED BY <1>0, <3>1, SameTree
  <2> QED BY <1>1, <2>1, <2>2, <2>3, <2>4, <2>5, <2>6, <2>7, <2>8 DEF Holder
<1>2. ASSUME NEW h \in Procs, Dies(h) PROVE TreeOK'
  BY <1>0, <1>2, SameTree DEF Dies
<1>3. ASSUME NEW s \in Steps, SpankInit(s) PROVE TreeOK'
  BY <1>3, CreateTree DEF SpankInit
<1>4. ASSUME NEW s \in Steps, SpankInitPostOpt(s) PROVE TreeOK'
  BY <1>0, <1>4, SameTree DEF SpankInitPostOpt
<1>5. ASSUME NEW s \in Steps, NEW t \in Tasks,
             ForkTask(s, t) \/ SpankTaskPostFork(s, t) \/ SpankTaskExit(s, t)
      PROVE  TreeOK'
  <2>1. UNCHANGED <<dirs, cpus>>
    BY <1>5 DEF ForkTask, SpankTaskPostFork, SpankTaskExit
  <2> QED BY <1>0, <2>1, SameTree
<1>6. ASSUME NEW t \in Tasks, TaskExit(t) PROVE TreeOK'
  BY <1>0, <1>6, SameTree DEF TaskExit
<1>7. ASSUME NEW x \in Steps \cup Logins, Exit(x) PROVE TreeOK'
  BY <1>0, <1>7, SameTree DEF Exit
<1>8. ASSUME NEW l \in Logins, PamAcctMgmt(l) PROVE TreeOK'
  BY <1>8, CreateTree DEF PamAcctMgmt
<1>9. CASE AgentStart
  BY <1>9, CreateTree DEF AgentStart
<1>10. ASSUME NEW j \in Jobs, JobStart(j) \/ JobEnd(j) PROVE TreeOK'
  <2>1. UNCHANGED <<dirs, cpus>>
    BY <1>10 DEF JobStart, JobEnd
  <2> QED BY <1>0, <2>1, SameTree
<1> QED
  BY <1>1, <1>2, <1>3, <1>4, <1>5, <1>6, <1>7, <1>8, <1>9, <1>10 DEF Next, Crash, GiveUp


-----------------------------------------------------------------------------
(* Types, and the lock.                                                    *)

PcOK ==
  /\ pc \in [Procs -> HolderPC \cup FreePC]
  /\ lock \in (Procs \ Tasks) \cup {Nobody}
  /\ \A x \in Procs : pc[x] \in HolderPC <=> lock = x

\* No place in the program is both inside and outside the critical section.
LEMMA PcDisjoint == HolderPC \cap FreePC = {}
BY DEF HolderPC, FreePC

\* Nobody is not a process.
LEMMA NobodyFacts == Nobody \notin Procs
BY CpusetAssumption DEF Procs

\* The holder of the lock moves on within the critical section.
LEMMA GotoHeld ==
  ASSUME PcOK, NEW h \in Procs, lock = h, lock' = lock, NEW l \in HolderPC, Goto(h, l)
  PROVE  PcOK'
BY DEF PcOK, Goto

\* A process enters the critical section with the lock.
LEMMA GotoLock ==
  ASSUME PcOK, NEW h \in Procs \ Tasks, lock = Nobody, lock' = h, NEW l \in HolderPC, Goto(h, l)
  PROVE  PcOK'
BY NobodyFacts DEF PcOK, Goto

\* The holder leaves the critical section with unlocking.
LEMMA GotoFree ==
  ASSUME PcOK, NEW h \in Procs, lock = h, lock' = Nobody, NEW l \in FreePC, Goto(h, l)
  PROVE  PcOK'
BY NobodyFacts, PcDisjoint DEF PcOK, Goto

\* A process outside the critical section moves on outside.
LEMMA GotoOutside ==
  ASSUME PcOK, NEW h \in Procs, pc[h] \in FreePC, lock' = lock, NEW l \in FreePC, Goto(h, l)
  PROVE  PcOK' /\ lock # h
BY PcDisjoint DEF PcOK, Goto

\* A step that moves no process keeps mutual exclusion.
LEMMA SamePc == ASSUME PcOK, UNCHANGED <<pc, lock>> PROVE PcOK'
BY DEF PcOK

\* After cleaning, the holder is still inside.
LEMMA AfterCleanPC ==
  ASSUME NEW h \in Procs PROVE AfterClean(h) \in HolderPC
BY DEF AfterClean, HolderPC

\* After unlocking, the former holder is outside.
LEMMA AfterUnlockPC ==
  ASSUME NEW h \in Procs PROVE AfterUnlock(h) \in FreePC
<1>1. CASE h \in Logins
  BY <1>1, CpusetAssumption DEF AfterUnlock, FreePC
<1>2. CASE h \in Steps
  BY <1>2, CpusetAssumption DEF AfterUnlock, FreePC
<1>3. CASE h \notin Steps /\ h \notin Logins
  BY <1>3 DEF AfterUnlock, FreePC
<1> QED BY <1>1, <1>2, <1>3

\* user_cpuset_update, which may kill other processes, keeps mutual exclusion.
LEMMA UserUpdatePc ==
  ASSUME PcOK, NEW h \in Procs, lock = h, lock' = lock,
         NEW u, NEW used, NEW n1 \in HolderPC, NEW n2 \in HolderPC,
         UserCpusetUpdate(h, u, used, n1, n2)
  PROVE  PcOK'
<1>1. pc[h] \in HolderPC
  BY DEF PcOK
<1>2. CASE \E l \in HolderPC : Goto(h, l)
  BY <1>2, GotoHeld
<1>3. CASE pc' = [x \in Procs |-> IF x = h THEN n1
                                  ELSE IF loc[x] = Top(u) THEN "killed" ELSE pc[x]]
  <2>1. "killed" \in FreePC
    BY DEF FreePC
  <2> QED BY <1>3, <2>1, PcDisjoint DEF PcOK
<1>4. CASE OrphanUser(h, u, n1)
  BY <1>2, <1>3, <1>4 DEF OrphanUser, KillOrphan, UserCpusetOrphan
<1>5. CASE Goto(h, CASE ModifyResult(Top(u), used) = "ok" -> n1
                     [] ModifyResult(Top(u), used) = "EACCES" -> n2 [] OTHER -> pc[h])
  BY <1>1, <1>2, <1>5
<1> QED BY <1>4, <1>5 DEF UserCpusetUpdate

\* create_and_lock_cpuset_dir waits for the lock.
LEMMA CreatePc ==
  ASSUME PcOK, NEW h \in Procs \ Tasks, SlurmCpusetCreate(h) PROVE PcOK'
<1>1. "clean" \in HolderPC /\ "initslurm" \in HolderPC /\ "failing" \in HolderPC
  BY DEF HolderPC
<1> QED BY <1>1, GotoLock DEF SlurmCpusetCreate


\* Every step keeps mutual exclusion.
LEMMA PcStep ==
  ASSUME IInv, Next PROVE PcOK'
<1>0. PcOK
  BY DEF IInv, TypeOK, PcOK
<1>a. /\ Steps \subseteq Procs \ Tasks /\ Logins \subseteq Procs \ Tasks
      /\ Agent \in Procs \ Tasks /\ Tasks \subseteq Procs
  BY CpusetAssumption DEF Procs
<1>1. ASSUME NEW h \in Procs, Holder(h) PROVE PcOK'
  <2>1. CASE InitSlurm(h)
    <3>1. AfterClean(h) \in HolderPC /\ "failing" \in HolderPC
      BY AfterCleanPC DEF HolderPC
    <3> QED BY <1>0, <2>1, <3>1, GotoHeld DEF InitSlurm
  <2>2. CASE SlurmCpusetClean(h)
    BY <1>0, <2>2, SamePc DEF SlurmCpusetClean
  <2>3. CASE UpdateUserCpusets(h)
    <3>1. pc[h] \in HolderPC /\ lock = h /\ lock' = lock
      BY <2>3, <1>0 DEF UpdateUserCpusets, PcOK
    <3>2. \E u \in pending : UserCpusetUpdate(h, u, KidCpus(Top(u)), pc[h], pc[h])
      BY <2>3 DEF UpdateUserCpusets
    <3> QED BY <3>1, <3>2, <1>0, UserUpdatePc
  <2>4. CASE UserCpusetDir(h)
    <3>1. "usermod" \in HolderPC BY DEF HolderPC
    <3> QED BY <1>0, <2>4, <3>1, GotoHeld DEF UserCpusetDir
  <2>5. CASE UserCpusetModify(h)
    <3>1. "mkdir" \in HolderPC /\ CreateFailed(h) \in HolderPC
      BY DEF HolderPC, CreateFailed
    <3>2. \E u, used : UserCpusetUpdate(h, u, used, "mkdir", CreateFailed(h))
      BY <2>5 DEF UserCpusetModify
    <3>3. lock = h /\ lock' = lock
      BY <2>5 DEF UserCpusetModify
    <3> QED BY <1>0, <3>1, <3>2, <3>3, UserUpdatePc
  <2>6. CASE JobCpusetCreate(h)
    <3>1. "scan" \in HolderPC /\ "migrate2" \in HolderPC /\ CreateFailed(h) \in HolderPC
      BY DEF HolderPC, CreateFailed
    <3>2. \E l \in HolderPC : Goto(h, l)
      BY <2>6, <3>1 DEF JobCpusetCreate
    <3> QED BY <1>0, <2>6, <3>2, GotoHeld DEF JobCpusetCreate
  <2>7. CASE CleanDone(h)
    <3>1. "update" \in HolderPC BY DEF HolderPC
    <3> QED BY <1>0, <2>7, <3>1, GotoHeld DEF CleanDone
  <2>8. CASE UpdateDone(h)
    <3>1. "unlock_ok" \in HolderPC BY DEF HolderPC
    <3>2. \E l \in HolderPC : Goto(h, l)
      BY <2>8, <3>1, AfterCleanPC DEF UpdateDone
    <3> QED BY <1>0, <2>8, <3>2, GotoHeld DEF UpdateDone
  <2>9. CASE CreateCpuset(h)
    <3>1. "userdir" \in HolderPC /\ "mkdir" \in HolderPC /\ CreateFailed(h) \in HolderPC
      BY DEF HolderPC, CreateFailed
    <3>2. \E l \in HolderPC : Goto(h, l)
      BY <2>9, <3>1 DEF CreateCpuset
    <3> QED BY <1>0, <2>9, <3>2, GotoHeld DEF CreateCpuset
  <2>10. CASE Migrate(h)
    <3>1. "unlock_ok" \in HolderPC /\ "unlock_fail" \in HolderPC /\ "create" \in HolderPC
      BY DEF HolderPC
    <3>2. \E l \in HolderPC : Goto(h, l)
      BY <2>10, <3>1 DEF Migrate
    <3> QED BY <1>0, <2>10, <3>2, GotoHeld DEF Migrate
  <2>11. CASE Unlock(h)
    BY <1>0, <2>11, GotoFree, AfterUnlockPC DEF Unlock
  <2>12. CASE LoadJobs(h) \/ ScanDone(h)
    <3>1. "scan" \in HolderPC /\ "unlock_fail" \in HolderPC /\ "unlock_ok" \in HolderPC
      BY DEF HolderPC
    <3>2. \E l \in HolderPC : Goto(h, l)
      BY <2>12, <3>1 DEF LoadJobs, ScanDone
    <3> QED BY <1>0, <2>12, <3>2, GotoHeld DEF LoadJobs, ScanDone
  <2>13. CASE ScanJob(h)
    <3>1. "create" \in HolderPC BY DEF HolderPC
    <3>2. UNCHANGED pc \/ Goto(h, "create")
      BY <2>13 DEF ScanJob
    <3>3. lock = h /\ lock' = lock
      BY <2>13 DEF ScanJob
    <3> QED BY <1>0, <3>1, <3>2, <3>3, GotoHeld, SamePc
  <2> QED BY <1>1, <2>1, <2>2, <2>3, <2>4, <2>5, <2>6, <2>7, <2>8, <2>9, <2>10, <2>11,
             <2>12, <2>13 DEF Holder
<1>2. ASSUME NEW h \in Procs, Dies(h) PROVE PcOK'
  <2>1. {"idle", "gone", "inited", "running", "forked"} \subseteq FreePC
    BY DEF FreePC
  <2>2. CASE lock = h /\ lock' = Nobody
    BY <1>0, <1>2, <2>1, <2>2, GotoFree DEF Dies
  <2>3. CASE pc[h] \in {"inited", "running", "forked"} /\ lock' = lock
    BY <1>0, <1>2, <2>1, <2>3, GotoOutside DEF Dies
  <2> QED BY <1>2, <2>2, <2>3 DEF Dies, held
<1>3. ASSUME NEW s \in Steps, SpankInit(s) PROVE PcOK'
  BY <1>0, <1>a, <1>3, CreatePc DEF SpankInit
<1>4. ASSUME NEW s \in Steps, SpankInitPostOpt(s) PROVE PcOK'
  <2>1. "create" \in HolderPC BY DEF HolderPC
  <2> QED BY <1>0, <1>a, <1>4, <2>1, GotoLock DEF SpankInitPostOpt
<1>5. ASSUME NEW s \in Steps, NEW t \in Tasks,
             ForkTask(s, t) \/ SpankTaskPostFork(s, t) \/ SpankTaskExit(s, t)
      PROVE  PcOK'
  <2>1. s \in Procs /\ t \in Procs /\ s # t /\ s \in Procs \ Tasks
    BY <1>a
  <2>2. /\ {"new", "running", "forked", "user", "exited", "reaped", "done"} \subseteq FreePC
        /\ "create" \in HolderPC
    BY DEF FreePC, HolderPC
  <2>3. CASE ForkTask(s, t)
    BY <1>0, <2>1, <2>2, <2>3, PcDisjoint DEF PcOK, ForkTask
  <2>4. CASE SpankTaskPostFork(s, t)
    BY <1>0, <2>1, <2>2, <2>4, PcDisjoint, NobodyFacts DEF PcOK, SpankTaskPostFork
  <2>5. CASE SpankTaskExit(s, t)
    BY <1>0, <2>1, <2>2, <2>5, PcDisjoint DEF PcOK, SpankTaskExit
  <2> QED BY <1>5, <2>3, <2>4, <2>5
<1>6. ASSUME NEW t \in Tasks, TaskExit(t) PROVE PcOK'
  <2>1. {"user", "forked", "exited"} \subseteq FreePC
    BY DEF FreePC
  <2> QED BY <1>0, <1>a, <1>6, <2>1, GotoOutside DEF TaskExit, Goto
<1>7. ASSUME NEW x \in Steps \cup Logins, Exit(x) PROVE PcOK'
  <2>1. {"done", "failed", "killed", "granted", "gone"} \subseteq FreePC
    BY DEF FreePC
  <2> QED BY <1>0, <1>a, <1>7, <2>1, GotoOutside DEF Exit
<1>8. ASSUME NEW l \in Logins, PamAcctMgmt(l) PROVE PcOK'
  BY <1>0, <1>a, <1>8, CreatePc DEF PamAcctMgmt
<1>9. CASE AgentStart
  BY <1>0, <1>a, <1>9, CreatePc DEF AgentStart
<1>10. ASSUME NEW j \in Jobs, JobStart(j) \/ JobEnd(j) PROVE PcOK'
  BY <1>0, <1>10, SamePc DEF JobStart, JobEnd
<1> QED
  BY <1>1, <1>2, <1>3, <1>4, <1>5, <1>6, <1>7, <1>8, <1>9, <1>10 DEF Next, Crash, GiveUp


DataOK ==
  /\ loc \in [Procs -> Path \cup {Root, Gone}]
  /\ job \in [Jobs -> {"pending", "running", "done"}]
  /\ released \subseteq Path /\ sweep \subseteq Path /\ pending \subseteq Users
  /\ target \in Path /\ alloc \subseteq CPU /\ unorphan \in BOOLEAN
  /\ snap \subseteq Jobs /\ count \in Nat

\* Release agents are spawned for paths only.
LEMMA ReleaseType ==
  ASSUME dirs \subseteq Path, released \subseteq Path, Release PROVE released' \subseteq Path
BY DEF Release

\* A rename takes the processes in the subtree to paths.
LEMMA RenameLoc ==
  ASSUME loc \in [Procs -> Path \cup {Root, Gone}], NEW u \in Users, NEW a, NEW b,
         {a, b} = {Top(u), OrphanOf(u)}, a # b, Rename(a, b)
  PROVE  loc' \in [Procs -> Path \cup {Root, Gone}]
<1>1. PICK o \in BOOLEAN : a = TopOf(u, o) /\ b = TopOf(u, ~o)
  <2>1. CASE a = Top(u) /\ b = OrphanOf(u)
    <3>1. a = TopOf(u, FALSE) /\ b = TopOf(u, ~FALSE)
      BY <2>1, TopDef
    <3> QED BY <3>1
  <2>2. CASE a = OrphanOf(u) /\ b = Top(u)
    <3>1. a = TopOf(u, TRUE) /\ b = TopOf(u, ~TRUE)
      BY <2>2, TopDef
    <3> QED BY <3>1
  <2> QED BY <2>1, <2>2
<1>2. ASSUME NEW p \in Path PROVE Renamed(p, a, b) \in Path
  BY <1>1, RenamedPath DEF RenFact
<1> QED BY <1>2 DEF Rename

\* A user cpuset and its orphan have different names.
LEMMA TopNotOrphan ==
  ASSUME NEW u \in Users PROVE Top(u) # OrphanOf(u)
<1>1. TopOf(u, FALSE)[1] # TopOf(u, TRUE)[1]
  BY TopInj
<1> QED BY <1>1, TopDef

\* user_cpuset_update leaves every process in a path, in the root or gone.
LEMMA UserUpdateLoc ==
  ASSUME loc \in [Procs -> Path \cup {Root, Gone}], NEW h, NEW u \in Users, NEW used,
         NEW n1, NEW n2, UserCpusetUpdate(h, u, used, n1, n2)
  PROVE  loc' \in [Procs -> Path \cup {Root, Gone}]
<1>1. CASE loc' = loc
  BY <1>1
<1>2. CASE Rename(Top(u), OrphanOf(u))
  BY <1>2, RenameLoc, TopNotOrphan
<1> QED BY <1>1, <1>2 DEF UserCpusetUpdate, OrphanUser, KillOrphan, UserCpusetOrphan

\* Every step keeps the types of the remaining variables.
LEMMA DataStep ==
  ASSUME IInv, Next PROVE DataOK'
<1>0. DataOK /\ dirs \subseteq Path
  BY DEF IInv, TypeOK, DataOK
<1>a. /\ Steps \subseteq Procs /\ Logins \subseteq Procs /\ Tasks \subseteq Procs
      /\ Agent \in Procs
  BY DEF Procs
<1>1. ASSUME NEW h \in Procs, Holder(h) PROVE DataOK'
  <2>1. CASE InitSlurm(h)
    BY <1>0, <2>1 DEF InitSlurm, DataOK, held
  <2>2. CASE SlurmCpusetClean(h)
    <3>1. released' \subseteq Path
      BY <1>0, <2>2, ReleaseType DEF SlurmCpusetClean, DataOK
    <3>2. sweep' \subseteq sweep
      BY <2>2 DEF SlurmCpusetClean
    <3> QED BY <1>0, <2>2, <3>1, <3>2 DEF SlurmCpusetClean, DataOK
  <2>3. CASE UpdateUserCpusets(h)
    <3>1. PICK u \in pending : /\ pending' = pending \ {u}
                              /\ UserCpusetUpdate(h, u, KidCpus(Top(u)), pc[h], pc[h])
      BY <2>3 DEF UpdateUserCpusets
    <3>2. loc' \in [Procs -> Path \cup {Root, Gone}]
      BY <1>0, <3>1, UserUpdateLoc DEF DataOK
    <3> QED BY <1>0, <2>3, <3>1, <3>2 DEF UpdateUserCpusets, DataOK
  <2>4. CASE UserCpusetDir(h)
    <3>1. PICK j \in Jobs : target = JobPath(j)
      BY <2>4, StepTarget DEF UserCpusetDir
    <3> DEFINE u == target[1].uid
    <3>2. u \in Users
      BY <3>1, JobPathFacts
    <3> HIDE DEF u
    <3>3. loc' = loc \/ Rename(OrphanOf(u), Top(u))
      BY <2>4 DEF UserCpusetDir, u
    <3>4. loc' \in [Procs -> Path \cup {Root, Gone}]
      BY <1>0, <3>2, <3>3, RenameLoc, TopNotOrphan DEF DataOK
    <3> QED BY <1>0, <2>4, <3>4 DEF UserCpusetDir, DataOK
  <2>5. CASE UserCpusetModify(h)
    <3>1. PICK j \in Jobs : target = JobPath(j)
      BY <2>5, StepTarget DEF UserCpusetModify
    <3> DEFINE u == target[1].uid
    <3>2. u \in Users
      BY <3>1, JobPathFacts
    <3>3. \E used : UserCpusetUpdate(h, u, used, "mkdir", CreateFailed(h))
      BY <2>5 DEF UserCpusetModify
    <3> HIDE DEF u
    <3>4. loc' \in [Procs -> Path \cup {Root, Gone}]
      BY <1>0, <3>2, <3>3, UserUpdateLoc DEF DataOK
    <3> QED BY <1>0, <2>5, <3>4 DEF UserCpusetModify, DataOK, held
  <2>6. CASE JobCpusetCreate(h)
    <3>1. count' \in Nat
      <4>1. CASE h \in Logins
        <5>1. LoginShape(h) /\ lock = h /\ pc[h] = "mkdir"
          BY <2>6, <4>1 DEF IInv, JobCpusetCreate
        <5>2. PICK j \in Jobs : target = JobPath(j)
          BY <5>1 DEF LoginShape
        <5>3. JobCpus[target[2]] \in Nat
          BY <5>2, JobPathFacts, CpusetAssumption
        <5> QED BY <1>0, <2>6, <5>3 DEF DataOK, JobCpusetCreate
      <4>2. CASE h \notin Logins
        BY <1>0, <2>6, <4>2 DEF DataOK, JobCpusetCreate
      <4> QED BY <4>1, <4>2
    <3> QED BY <1>0, <2>6, <3>1 DEF JobCpusetCreate, DataOK
  <2>7. CASE CleanDone(h)
    BY <1>0, <2>7 DEF CleanDone, DataOK, UsersListed
  <2>8. CASE UpdateDone(h)
    BY <1>0, <2>8 DEF UpdateDone, DataOK, UsersListed
  <2>9. CASE CreateCpuset(h)
    <3>1. alloc' \subseteq Free(h) \/ alloc' = {}
      BY <2>9 DEF CreateCpuset, NodemapAllocate
    <3>2. Free(h) \subseteq CPU
      <4>1. loc[h] = Root \/ loc[h] = Parent(target)
        BY <2>9, StepTarget DEF CreateCpuset
      <4>2. InJob(target) /\ target \in Path
        BY <1>0, <2>9, StepTarget DEF CreateCpuset, DataOK
      <4>3. Parent(target) \in Path
        BY <4>2, InJobFacts, ParentFacts
      <4>4. <<>> \in Path
        BY TuplePath
      <4>5. cpus \in [Path -> SUBSET CPU]
        BY DEF IInv, TypeOK
      <4> QED BY <4>1, <4>3, <4>4, <4>5 DEF Free
    <3> QED BY <1>0, <2>9, <3>1, <3>2 DEF CreateCpuset, DataOK
  <2>10. CASE Migrate(h)
    <3>1. released' \subseteq Path
      BY <1>0, <2>10, ReleaseType DEF Migrate, DataOK
    <3>2. loc' \in [Procs -> Path \cup {Root, Gone}]
      BY <1>0, <2>10 DEF Migrate, DataOK
    <3> QED BY <1>0, <2>10, <3>1, <3>2 DEF Migrate, DataOK, held
  <2>11. CASE Unlock(h)
    <3>1. loc' \in [Procs -> Path \cup {Root, Gone}]
      BY <1>0, <2>11 DEF Unlock, DataOK
    <3>2. <<>> \in Path
      BY TuplePath
    <3> QED BY <1>0, <2>11, <3>1, <3>2 DEF Unlock, ResetHeld, DataOK
  <2>12. CASE LoadJobs(h)
    BY <1>0, <2>12 DEF LoadJobs, DataOK
  <2>13. CASE ScanJob(h)
    <3>1. PICK j \in snap : /\ snap' = snap \ {j}
                           /\ \/ count' = count + JobCpus[j] /\ UNCHANGED target
                              \/ target' = JobPath(j) /\ UNCHANGED count
      BY <2>13 DEF ScanJob
    <3>2. j \in Jobs
      BY <1>0 DEF DataOK
    <3>3. JobCpus[j] \in Nat /\ JobPath(j) \in Path
      BY <3>2, JobPathFacts, CpusetAssumption
    <3> QED BY <1>0, <2>13, <3>1, <3>3 DEF ScanJob, DataOK
  <2>14. CASE h \in Logins /\ ScanDone(h)
    <3>1. LoginUser[h] \in Users
      BY <2>14, CpusetAssumption
    <3>2. Top(LoginUser[h]) \in Path
      BY <3>1, TopPath, TopDef
    <3>3. loc' \in [Procs -> Path \cup {Root, Gone}]
      BY <1>0, <2>14, <3>2 DEF ScanDone, DataOK
    <3> QED BY <1>0, <2>14, <3>3 DEF ScanDone, DataOK, held
  <2> QED BY <1>1, <2>1, <2>2, <2>3, <2>4, <2>5, <2>6, <2>7, <2>8, <2>9, <2>10, <2>11,
             <2>12, <2>13, <2>14 DEF Holder
<1>b. ASSUME NEW h, SlurmCpusetCreate(h)
      PROVE  /\ sweep' \subseteq Path /\ pending' \subseteq Users /\ alloc' \subseteq CPU
             /\ unorphan' \in BOOLEAN /\ snap' \subseteq Jobs /\ count' \in Nat
  BY <1>0, <1>b DEF SlurmCpusetCreate, DataOK
<1>2. ASSUME NEW h \in Procs, Dies(h) PROVE DataOK'
  <2>1. released' \subseteq Path
    BY <1>0, <1>2, ReleaseType DEF Dies, DataOK
  <2>2. loc' \in [Procs -> Path \cup {Root, Gone}]
    BY <1>0, <1>2 DEF Dies, DataOK
  <2>3. <<>> \in Path
    BY TuplePath
  <2>4. CASE ResetHeld
    BY <1>0, <1>2, <2>1, <2>2, <2>3, <2>4 DEF Dies, ResetHeld, DataOK
  <2>5. CASE UNCHANGED held
    BY <1>0, <1>2, <2>1, <2>2, <2>5 DEF Dies, DataOK, held
  <2> QED BY <1>2, <2>4, <2>5 DEF Dies
<1>3. ASSUME NEW s \in Steps, SpankInit(s) PROVE DataOK'
  <2>1. StepJob[s] \in Jobs
    BY CpusetAssumption
  <2>2. target' \in Path
    BY <1>3, <2>1, JobPathFacts DEF SpankInit
  <2>3. loc' \in [Procs -> Path \cup {Root, Gone}]
    BY <1>0, <1>3 DEF SpankInit, DataOK
  <2> QED BY <1>0, <1>b, <1>3, <2>2, <2>3 DEF SpankInit, DataOK
<1>4. ASSUME NEW s \in Steps, SpankInitPostOpt(s) PROVE DataOK'
  <2>1. IsJobOf(loc[s], s)
    BY <1>4 DEF IInv, StepShape, SpankInitPostOpt
  <2>2. target' \in Path
    BY <1>4, <2>1, ShapeFacts DEF SpankInitPostOpt
  <2> QED BY <1>0, <1>4, <2>2 DEF SpankInitPostOpt, DataOK
<1>5. ASSUME NEW s \in Steps, NEW t \in Tasks,
             ForkTask(s, t) \/ SpankTaskPostFork(s, t) \/ SpankTaskExit(s, t)
      PROVE  DataOK'
  <2>1. CASE ForkTask(s, t)
    BY <1>0, <1>a, <2>1 DEF ForkTask, DataOK, held
  <2>2. CASE SpankTaskPostFork(s, t)
    <3>1. WantsStep(s)
      BY <2>2 DEF IInv, StepShape, SpankTaskPostFork, WantsStep
    <3>2. IsStepOf(loc[s], s) /\ t \in TasksOf(s)
      BY <2>2, <3>1 DEF IInv, StepShape, SpankTaskPostFork, TasksOf
    <3>3. target' \in Path
      BY <2>2, <3>2, ShapeFacts DEF SpankTaskPostFork
    <3> QED BY <1>0, <2>2, <3>3 DEF SpankTaskPostFork, DataOK
  <2>3. CASE SpankTaskExit(s, t)
    <3>1. released' \subseteq Path
      BY <1>0, <2>3, ReleaseType DEF SpankTaskExit, DataOK
    <3>2. Owner[StepJob[s]] \in Users
      BY CpusetAssumption
    <3>3. Top(Owner[StepJob[s]]) \in Path
      BY <3>2, TopPath, TopDef
    <3>4. loc' \in [Procs -> Path \cup {Root, Gone}]
      BY <1>0, <2>3, <3>3 DEF SpankTaskExit, DataOK
    <3> QED BY <1>0, <2>3, <3>1, <3>4 DEF SpankTaskExit, DataOK, held
  <2> QED BY <1>5, <2>1, <2>2, <2>3
<1>6. ASSUME NEW t \in Tasks, TaskExit(t) PROVE DataOK'
  <2>1. released' \subseteq Path
    BY <1>0, <1>6, ReleaseType DEF TaskExit, DataOK
  <2> QED BY <1>0, <1>6, <2>1 DEF TaskExit, DataOK, held
<1>7. ASSUME NEW x \in Steps \cup Logins, Exit(x) PROVE DataOK'
  <2>1. released' \subseteq Path
    BY <1>0, <1>7, ReleaseType DEF Exit, DataOK
  <2> QED BY <1>0, <1>7, <2>1 DEF Exit, DataOK, held
<1>8. ASSUME NEW l \in Logins, PamAcctMgmt(l) PROVE DataOK'
  <2>1. loc' \in [Procs -> Path \cup {Root, Gone}]
    BY <1>0, <1>8 DEF PamAcctMgmt, DataOK
  <2> QED BY <1>0, <1>b, <1>8, <2>1 DEF PamAcctMgmt, DataOK
<1>9. CASE AgentStart
  BY <1>0, <1>b, <1>9 DEF AgentStart, DataOK
<1>10. ASSUME NEW j \in Jobs, JobStart(j) \/ JobEnd(j) PROVE DataOK'
  BY <1>0, <1>10 DEF JobStart, JobEnd, DataOK, held
<1> QED
  BY <1>1, <1>2, <1>3, <1>4, <1>5, <1>6, <1>7, <1>8, <1>9, <1>10 DEF Next, Crash, GiveUp

-----------------------------------------------------------------------------
(* The CPUs chosen for a new cpuset stay free until it is made.            *)

Mid == {"userdir", "usermod", "mkdir"}

\* AllocInv survives a step that touches neither the tree nor the allocation.
LEMMA AllocQuiet ==
  ASSUME AllocInv, UNCHANGED <<dirs, cpus, target, alloc, unorphan>>,
         \A h \in Procs : pc'[h] \in Mid => pc'[h] = pc[h]
  PROVE  AllocInv'
BY DEF AllocInv, Mid, KidCpus, Kids, Top

\* AllocInv holds when nobody is between allocation and creation.
LEMMA AllocOther ==
  ASSUME PcOK', NEW h \in Procs, lock' = Nobody \/ (lock' = h /\ pc'[h] \notin Mid)
  PROVE  AllocInv'
<1>1. Mid \subseteq HolderPC
  BY DEF Mid, HolderPC
<1>2. ASSUME NEW x \in Procs PROVE pc'[x] \notin Mid
  BY <1>1, NobodyFacts DEF PcOK
<1> QED BY <1>2 DEF AllocInv, Mid

\* AllocInv need only be shown for the holder of the lock.
LEMMA AllocOnly ==
  ASSUME PcOK', NEW h \in Procs, lock' = h,
         pc'[h] \in Mid => \A p \in dirs' : Len(p) = Len(target') => alloc' \cap cpus'[p] = {},
         pc'[h] = "usermod" /\ unorphan' => KidCpus(Top(target[1].uid))' = {}
  PROVE  AllocInv'
<1>1. Mid \subseteq HolderPC
  BY DEF Mid, HolderPC
<1>2. ASSUME NEW x \in Procs, x # h PROVE pc'[x] \notin Mid
  BY <1>1, <1>2 DEF PcOK
<1> QED BY <1>2 DEF AllocInv, Mid

\* used_cpus_bitmask_path finds every CPU a cpuset of that depth holds.
LEMMA FreeIsFree ==
  ASSUME IInv, NEW h \in Procs, lock = h, pc[h] = "create",
         NEW p \in dirs, Len(p) = Len(target)
  PROVE  Free(h) \cap cpus[p] = {}
<1>0. TreeOK /\ p \in Path /\ target \in Path
  BY IInvTree DEF TreeOK, TreeType, IInv, TypeOK
<1>1. InJob(target) /\ InJob(p) /\ p # <<>> /\ target # <<>>
  BY <1>0, StepTarget, SameDepth, InJobFacts
<1>2. Parent(p) \in dirs /\ cpus[p] \subseteq cpus[Parent(p)]
  BY <1>0, <1>1 DEF TreeOK, TreeInv
<1>3. CASE IsOrphan(p)
  BY <1>0, <1>1, <1>3 DEF TreeOK, TreeInv
<1>4. CASE /\ ~IsOrphan(p) /\ loc[h] = Root
           /\ \E j \in Jobs : target = JobPath(j)
  <2>1. Len(p) = 2
    BY <1>4, JobPathFacts
  <2>2. Len(Parent(p)) = 1 /\ Parent(p) \in Path
    BY <2>1, <1>0, <1>1, ParentFacts
  <2>3. Parent(p) # <<>> /\ Parent(Parent(p)) = <<>>
    BY <2>2, Depth, ParentFacts
  <2>4. ~IsOrphan(Parent(p))
    BY <1>4, <1>0, <1>1, ParentFacts
  <2>5. Free(h) \cap cpus[Parent(p)] = {}
    BY <1>2, <1>4, <2>3, <2>4 DEF Free, Kids
  <2> QED BY <2>5, <1>2
<1>5. CASE /\ ~IsOrphan(p) /\ loc[h] = Parent(target)
           /\ Len(target) \in {3, 4}
  <2>0. Parent(target) # Root /\ Parent(target) \in Path
    BY <1>0, <1>1, ParentFacts, LocationAssumption
  <2>1. Free(h) = cpus[Parent(target)]
                    \ UNION {cpus[q] : q \in {k \in Kids(Parent(target)) : ~IsOrphan(k)}}
    BY <1>5, <2>0 DEF Free
  <2>2. CASE Parent(p) = Parent(target)
    <3>1. p \in {k \in Kids(Parent(target)) : ~IsOrphan(k)}
      BY <2>2, <1>1, <1>5 DEF Kids
    <3> QED BY <2>1, <3>1
  <2>3. CASE Parent(p) # Parent(target)
    <3>1. InJob(Parent(target)) /\ Len(Parent(p)) = Len(Parent(target))
      <4>1. Len(target) # 2
        <5>1. \A n : n \in {3, 4} => n # 2
          OBVIOUS
        <5> QED BY ONLY <5>1, <1>5
      <4>2. InJob(Parent(target))
        BY <4>1, <1>0, <1>1, ParentFacts
      <4>3. CASE Len(target) = 3
        <5>1. Len(Parent(target)) = 2 /\ Len(Parent(p)) = 2
          BY <4>3, <1>0, <1>1, ParentFacts
        <5> QED BY <4>2, <5>1
      <4>4. CASE Len(target) = 4
        <5>1. Len(Parent(target)) = 3 /\ Len(Parent(p)) = 3
          BY <4>4, <1>0, <1>1, ParentFacts
        <5> QED BY <4>2, <5>1
      <4> QED BY <1>5, <4>3, <4>4
    <3>2. CASE Parent(target) \in dirs
      <4>1. cpus[Parent(target)] \cap cpus[Parent(p)] = {}
        BY <1>0, <1>2, <2>3, <3>1, <3>2 DEF TreeOK, Exclusive
      <4> QED BY <4>1, <2>1, <1>2
    <3>3. CASE Parent(target) \notin dirs
      <4>1. \A q \in Path : InJob(q) /\ q \notin dirs => cpus[q] = {}
        BY <1>0 DEF TreeOK, TreeInv
      <4>2. cpus[Parent(target)] = {}
        BY <4>1, <2>0, <3>1, <3>3
      <4> QED BY <4>2, <2>1
    <3> QED BY <3>2, <3>3
  <2> QED BY <2>2, <2>3
<1> QED BY <1>3, <1>4, <1>5, StepTarget

\* nodemap_allocate returns CPUs that no cpuset of the target's depth has.
LEMMA CreateAlloc ==
  ASSUME IInv, PcOK', NEW h \in Procs, CreateCpuset(h) PROVE AllocInv'
<1>1. lock = h /\ lock' = h /\ pc[h] = "create" /\ UNCHANGED <<dirs, cpus, target>>
  BY DEF CreateCpuset
<1>2. alloc' \subseteq Free(h) \/ alloc' = {}
  BY DEF CreateCpuset, NodemapAllocate
<1>3. ASSUME NEW p \in dirs', Len(p) = Len(target') PROVE alloc' \cap cpus'[p] = {}
  <2>1. Free(h) \cap cpus[p] = {}
    BY <1>1, <1>3, FreeIsFree
  <2> QED BY <1>1, <1>2, <2>1
<1>4. pc'[h] # "usermod"
  <2>1. pc' = [pc EXCEPT ![h] = CreateFailed(h)] \/
        pc' = [pc EXCEPT ![h] = IF Len(target) = 2 THEN "userdir" ELSE "mkdir"]
    BY DEF CreateCpuset, Goto
  <2>2. pc \in [Procs -> HolderPC \cup FreePC]
    BY DEF IInv, TypeOK
  <2> QED BY <2>1, <2>2 DEF CreateFailed
<1> QED BY <1>1, <1>3, <1>4, AllocOnly

\* Unorphaning gives no CPU to any job: an orphan's children have none.
LEMMA UserDirAlloc ==
  ASSUME IInv, PcOK', NEW h \in Procs, UserCpusetDir(h) PROVE AllocInv'
<1>0. /\ TreeOK /\ lock = h /\ lock' = h /\ pc[h] = "userdir"
      /\ UNCHANGED <<target, alloc>>
      /\ dirs \subseteq Path
  BY IInvTree DEF UserCpusetDir, TreeOK, TreeType
<1>1. PICK j \in Jobs : target = JobPath(j)
  BY StepTarget DEF UserCpusetDir
<1>2. target[1].uid \in Users /\ Len(target) = 2
  BY <1>1, JobPathFacts
<1>u. PICK u \in Users : u = target[1].uid
  BY <1>2
<1>3. \A p \in dirs : Len(p) = Len(target) => alloc \cap cpus[p] = {}
  BY <1>0 DEF IInv, AllocInv
<1>4. CASE /\ CanRename(OrphanOf(u), Top(u)) /\ Rename(OrphanOf(u), Top(u))
  <2> DEFINE R(p) == Renamed(p, TopOf(u, TRUE), TopOf(u, ~TRUE))
  <2>1. TopOf(u, TRUE) = OrphanOf(u) /\ TopOf(u, ~TRUE) = Top(u)
    BY TopDef
  <2>2. TopOf(u, TRUE) \in dirs /\ TopOf(u, ~TRUE) \notin dirs
    BY <1>4, <2>1 DEF CanRename
  <2>3. Rename(TopOf(u, TRUE), TopOf(u, ~TRUE))
    BY <1>4, <2>1
  <2>4. /\ \A p \in dirs : R(p) \in dirs' /\ cpus'[R(p)] = cpus[p]
        /\ \A q \in dirs' : \E p \in dirs : q = R(p)
        /\ \A p \in dirs : p = <<>> \/ p[1] # TopOf(u, ~TRUE)[1]
    BY <1>0, <1>2, <2>2, <2>3, RenameMoves
  <2>5. \A p \in Path : RenFact(p, R(p), TopOf(u, TRUE), TopOf(u, ~TRUE))
    BY <1>2, RenamedPath
  <2>6. ASSUME NEW q \in dirs', Len(q) = Len(target') PROVE alloc' \cap cpus'[q] = {}
    <3>1. PICK p \in dirs : q = R(p)
      BY <2>4
    <3>2. Len(p) = Len(target)
      BY <3>1, <2>5, <2>6, <1>0 DEF RenFact
    <3> QED BY <3>1, <3>2, <2>4, <1>0, <1>3
  <2>7. ASSUME NEW q \in dirs', q # <<>>, Parent(q) = Top(u) PROVE cpus'[q] = {}
    <3>1. PICK p \in dirs : q = R(p)
      BY <2>4
    <3>2. p \in Path /\ RenFact(p, q, TopOf(u, TRUE), TopOf(u, ~TRUE))
      BY <3>1, <2>5, <1>0
    <3>3. q \in Path /\ Len(p) = Len(q) /\ p # <<>>
      BY <3>2, <2>7, Depth DEF RenFact
    <3>4. Len(q) # 1
      <4>1. Top(u) # <<>>
        BY <1>2, TopPath, TopDef
      <4> QED BY <4>1, <2>7, <3>3, ParentFacts
    <3>5. InJob(q) /\ InJob(p)
      <4>1. Len(q) \in {1, 2, 3, 4}
        BY <2>7, <3>3, ParentFacts
      <4>2. InJob(q)
        BY <4>1, <3>3, <3>4, InJobFacts
      <4> QED BY <4>2, <3>3, SameDepth
    <3>6. q[1] = Top(u)[1]
      BY <2>7, <3>3, <3>5, ParentFacts
    <3>7. p[1] = TopOf(u, TRUE)[1]
      <4>1. p[1] # TopOf(u, TRUE)[1] => q = p
        BY <3>2 DEF RenFact
      <4>2. p[1] # TopOf(u, ~TRUE)[1]
        BY <2>4, <3>3
      <4> QED BY <4>1, <4>2, <3>6, <2>1
    <3>8. IsOrphan(p)
      <4>1. TopOf(u, TRUE)[1] = [uid |-> u, orphan |-> TRUE]
        BY <1>2, TopPath
      <4>2. p[1] = [uid |-> u, orphan |-> TRUE]
        BY <4>1, <3>7
      <4>3. p[1].orphan = TRUE
        BY <4>2
      <4> QED BY <3>3, <4>3 DEF IsOrphan
    <3>9. cpus[p] = {}
      BY <3>5, <3>8, <1>0 DEF TreeOK, TreeInv
    <3> QED BY <3>1, <3>9, <2>4
  <2>8. KidCpus(Top(target[1].uid))' = {}
    <3>1. \A q \in Kids(Top(u))' : cpus'[q] = {}
      BY <2>7 DEF Kids
    <3>2. KidCpus(Top(u))' = {}
      BY <3>1 DEF KidCpus
    <3> QED BY <3>2, <1>0, <1>u
  <2> QED BY <1>0, <2>6, <2>8, AllocOnly
<1>5. CASE /\ dirs' = dirs \cup {Top(u)} /\ cpus' = cpus /\ unorphan' = FALSE
  <2>1. Len(Top(u)) = 1
    BY <1>2, TopPath, TopDef
  <2>2. \A p \in dirs' : Len(p) = Len(target') => alloc' \cap cpus'[p] = {}
    BY <2>1, <1>0, <1>2, <1>3, <1>5
  <2> QED BY <1>0, <2>2, <1>5, AllocOnly
<1> QED BY <1>u, <1>4, <1>5 DEF UserCpusetDir

\* user_cpuset_update changes the user cpuset only, never a job's.
LEMMA UserModifyAlloc ==
  ASSUME IInv, PcOK', NEW h \in Procs, UserCpusetModify(h) PROVE AllocInv'
<1>0. /\ TreeOK /\ lock = h /\ lock' = h /\ pc[h] = "usermod"
      /\ UNCHANGED <<target, alloc, unorphan>>
      /\ cpus \in [Path -> SUBSET CPU] /\ dirs \subseteq Path
      /\ pc \in [Procs -> HolderPC \cup FreePC]
  BY IInvTree DEF UserCpusetModify, held, TreeOK, TreeType, IInv, TypeOK
<1>1. PICK j \in Jobs : target = JobPath(j)
  BY StepTarget DEF UserCpusetModify
<1> DEFINE u == target[1].uid
<1> DEFINE used == (IF unorphan THEN {} ELSE KidCpus(Top(u))) \cup alloc
<1>2. u \in Users /\ Len(target) = 2
  BY <1>1, JobPathFacts
<1>3. \A p \in dirs : Len(p) = Len(target) => alloc \cap cpus[p] = {}
  BY <1>0 DEF IInv, AllocInv
<1>4. UserCpusetUpdate(h, u, used, "mkdir", CreateFailed(h))
  BY DEF UserCpusetModify
<1>5. CASE used = {} /\ OrphanUser(h, u, "mkdir")
  <2>1. alloc' = {}
    BY <1>0, <1>5
  <2>2. pc'[h] = "mkdir"
    BY <1>0, <1>5 DEF OrphanUser, KillOrphan, UserCpusetOrphan, Goto
  <2>3. \A p \in dirs' : alloc' \cap cpus'[p] = {}
    BY <2>1
  <2> QED BY <1>0, <2>2, <2>3, AllocOnly
<1> DEFINE rc == ModifyResult(Top(u), used)
<1> HIDE DEF u, used
<1>6. CASE rc = "ok" /\ dirs' = dirs /\ Goto(h, "mkdir") /\ cpus' = [cpus EXCEPT ![Top(u)] = used]
  <2>1. Len(Top(u)) = 1
    BY <1>2, TopPath, TopDef
  <2>2. \A p \in dirs' : Len(p) = Len(target') => alloc' \cap cpus'[p] = {}
    BY <2>1, <1>0, <1>2, <1>3, <1>6
  <2>3. pc'[h] = "mkdir"
    BY <1>0, <1>6 DEF Goto
  <2> QED BY <1>0, <2>2, <2>3, AllocOnly
<1>7. CASE Goto(h, CreateFailed(h))
  <2>1. pc'[h] = CreateFailed(h)
    BY <1>0, <1>7 DEF Goto
  <2>2. pc'[h] \notin Mid
    BY <2>1 DEF CreateFailed, Mid
  <2> QED BY <1>0, <2>2, AllocOther
<1>8. CASE Goto(h, pc[h]) /\ dirs' = dirs /\ cpus' = cpus
  <2>1. pc' = pc
    BY <1>0, <1>8 DEF Goto
  <2>2. AllocInv
    BY DEF IInv
  <2> QED BY <1>0, <1>8, <2>1, <2>2, AllocQuiet
<1> QED BY <1>4, <1>5, <1>6, <1>7, <1>8 DEF UserCpusetUpdate

\* Taking the lock begins with /slurm, not in the middle of an allocation.
LEMMA CreateNotMid ==
  ASSUME PcOK, NEW h \in Procs, SlurmCpusetCreate(h)
  PROVE  lock' = h /\ pc'[h] \in {"clean", "initslurm", "failing"}
BY DEF PcOK, SlurmCpusetCreate, Goto

\* A pass of update_user_cpusets goes on until all users are visited.
LEMMA UpdateSamePc ==
  ASSUME PcOK, NEW h \in Procs, UpdateUserCpusets(h)
  PROVE  lock' = h /\ pc'[h] = pc[h] /\ pc[h] \in {"update", "update2"}
<1>1. /\ lock = h /\ lock' = h /\ pc[h] \in {"update", "update2"}
      /\ pc \in [Procs -> HolderPC \cup FreePC]
  BY DEF PcOK, UpdateUserCpusets
<1>2. PICK u, used : UserCpusetUpdate(h, u, used, pc[h], pc[h])
  BY DEF UpdateUserCpusets
<1>3. CASE OrphanUser(h, u, pc[h])
  BY <1>1, <1>3 DEF OrphanUser, KillOrphan, UserCpusetOrphan, Goto
<1>4. CASE \E rc : Goto(h, CASE rc = "ok" -> pc[h] [] rc = "EACCES" -> pc[h] [] OTHER -> pc[h])
  BY <1>1, <1>4 DEF Goto
<1> QED BY <1>1, <1>2, <1>3, <1>4 DEF UserCpusetUpdate

\* Every step keeps AllocInv.
LEMMA AllocStep ==
  ASSUME IInv, Next PROVE AllocInv'
<1>0. PcOK /\ PcOK' /\ AllocInv /\ pc \in [Procs -> HolderPC \cup FreePC]
  BY PcStep DEF IInv, TypeOK, PcOK
<1>a. /\ Steps \subseteq Procs /\ Logins \subseteq Procs /\ Tasks \subseteq Procs
      /\ Agent \in Procs
  BY DEF Procs
<1>1. ASSUME NEW h \in Procs, Holder(h) PROVE AllocInv'
  <2>1. CASE CreateCpuset(h)
    BY <1>0, <2>1, CreateAlloc
  <2>2. CASE UserCpusetDir(h)
    BY <1>0, <2>2, UserDirAlloc
  <2>3. CASE UserCpusetModify(h)
    BY <1>0, <2>3, UserModifyAlloc
  <2>4. CASE InitSlurm(h)
    <3>1. lock' = h /\ pc'[h] \notin Mid
      BY <1>0, <2>4 DEF InitSlurm, Goto, AfterClean, Mid
    <3> QED BY <1>0, <3>1, AllocOther
  <2>5. CASE SlurmCpusetClean(h) \/ CleanDone(h)
    <3>1. lock' = h /\ pc'[h] \notin Mid
      BY <1>0, <2>5 DEF SlurmCpusetClean, CleanDone, Goto, Mid
    <3> QED BY <1>0, <3>1, AllocOther
  <2>6. CASE UpdateUserCpusets(h)
    <3>1. lock' = h /\ pc'[h] \notin Mid
      BY <1>0, <2>6, UpdateSamePc DEF Mid
    <3> QED BY <1>0, <3>1, AllocOther
  <2>7. CASE UpdateDone(h)
    <3>1. lock' = h /\ pc'[h] \notin Mid
      BY <1>0, <2>7 DEF UpdateDone, AfterClean, Goto, Mid
    <3> QED BY <1>0, <3>1, AllocOther
  <2>8. CASE JobCpusetCreate(h)
    <3>1. lock' = h /\ pc'[h] \notin Mid
      BY <1>0, <2>8 DEF JobCpusetCreate, CreateFailed, Goto, Mid
    <3> QED BY <1>0, <3>1, AllocOther
  <2>9. CASE Migrate(h)
    <3>1. lock' = h /\ pc'[h] \notin Mid
      BY <1>0, <2>9 DEF Migrate, Goto, Mid
    <3> QED BY <1>0, <3>1, AllocOther
  <2>10. CASE Unlock(h)
    <3>1. lock' = Nobody
      BY <2>10 DEF Unlock
    <3> QED BY <1>0, <3>1, AllocOther
  <2>11. CASE LoadJobs(h) \/ ScanJob(h) \/ ScanDone(h)
    <3>1. lock' = h /\ pc'[h] \notin Mid
      BY <1>0, <2>11 DEF LoadJobs, ScanJob, ScanDone, Goto, Mid
    <3> QED BY <1>0, <3>1, AllocOther
  <2> QED BY <1>1, <2>1, <2>2, <2>3, <2>4, <2>5, <2>6, <2>7, <2>8, <2>9, <2>10, <2>11
          DEF Holder
<1>b. ASSUME NEW h \in Procs, SlurmCpusetCreate(h) PROVE AllocInv'
  <2>1. lock' = h /\ pc'[h] \notin Mid
    BY <1>0, <1>b, CreateNotMid DEF Mid
  <2> QED BY <1>0, <2>1, AllocOther
<1>2. ASSUME NEW h \in Procs, Dies(h) PROVE AllocInv'
  <2>1. CASE lock' = Nobody
    BY <1>0, <2>1, AllocOther
  <2>2. CASE UNCHANGED held
    <3>1. \A x \in Procs : pc'[x] \in Mid => pc'[x] = pc[x]
      BY <1>0, <1>2 DEF Dies, Goto, Mid
    <3> QED BY <1>0, <1>2, <2>2, <3>1, AllocQuiet DEF Dies, held
  <2> QED BY <1>2, <2>1, <2>2 DEF Dies
<1>3. ASSUME NEW s \in Steps, SpankInit(s) PROVE AllocInv'
  BY <1>a, <1>b, <1>3 DEF SpankInit
<1>4. ASSUME NEW s \in Steps, SpankInitPostOpt(s) PROVE AllocInv'
  <2>1. lock' = s /\ pc'[s] \notin Mid
    BY <1>0, <1>a, <1>4 DEF SpankInitPostOpt, Goto, Mid
  <2> QED BY <1>0, <1>a, <2>1, AllocOther
<1>5. ASSUME NEW s \in Steps, NEW t \in Tasks,
             ForkTask(s, t) \/ SpankTaskPostFork(s, t) \/ SpankTaskExit(s, t)
      PROVE  AllocInv'
  <2>1. CASE ForkTask(s, t)
    <3>1. \A x \in Procs : pc'[x] \in Mid => pc'[x] = pc[x]
      BY <1>0, <2>1 DEF ForkTask, Mid
    <3> QED BY <1>0, <2>1, <3>1, AllocQuiet DEF ForkTask, held
  <2>2. CASE SpankTaskPostFork(s, t)
    <3>0. s # t
      BY CpusetAssumption
    <3>1. lock' = s /\ pc'[s] \notin Mid
      BY <1>0, <1>a, <2>2, <3>0 DEF SpankTaskPostFork, Mid
    <3> QED BY <1>0, <1>a, <3>1, AllocOther
  <2>3. CASE SpankTaskExit(s, t)
    <3>1. \A x \in Procs : pc'[x] \in Mid => pc'[x] = pc[x]
      BY <1>0, <2>3 DEF SpankTaskExit, Mid
    <3> QED BY <1>0, <2>3, <3>1, AllocQuiet DEF SpankTaskExit, held
  <2> QED BY <1>5, <2>1, <2>2, <2>3
<1>6. ASSUME NEW t \in Tasks, TaskExit(t) PROVE AllocInv'
  <2>1. \A x \in Procs : pc'[x] \in Mid => pc'[x] = pc[x]
    BY <1>0, <1>6 DEF TaskExit, Mid
  <2> QED BY <1>0, <1>6, <2>1, AllocQuiet DEF TaskExit, held
<1>7. ASSUME NEW x \in Steps \cup Logins, Exit(x) PROVE AllocInv'
  <2>1. \A y \in Procs : pc'[y] \in Mid => pc'[y] = pc[y]
    BY <1>0, <1>7 DEF Exit, Goto, Mid
  <2> QED BY <1>0, <1>7, <2>1, AllocQuiet DEF Exit, held
<1>8. ASSUME NEW l \in Logins, PamAcctMgmt(l) PROVE AllocInv'
  BY <1>a, <1>b, <1>8 DEF PamAcctMgmt
<1>9. CASE AgentStart
  BY <1>a, <1>b, <1>9 DEF AgentStart
<1>10. ASSUME NEW j \in Jobs, JobStart(j) \/ JobEnd(j) PROVE AllocInv'
  BY <1>0, <1>10, AllocQuiet DEF JobStart, JobEnd, held
<1> QED
  BY <1>1, <1>2, <1>3, <1>4, <1>5, <1>6, <1>7, <1>8, <1>9, <1>10 DEF Next, Crash, GiveUp

-----------------------------------------------------------------------------
(* Where slurmstepd is while it holds the lock, and while it does not.     *)

\* StepShape survives when the daemon neither moves nor takes the lock.
LEMMA StepFrame ==
  ASSUME NEW s \in Steps, StepShape(s),
         \/ pc'[s] = pc[s] /\ loc'[s] = loc[s]
         \/ pc'[s] \notin {"inited", "running", "forked"} /\ lock' # s,
         lock' = s => lock = s /\ target' = target
  PROVE  StepShape(s)'
BY DEF StepShape, WorkingOn, StageTwo, IsJobOf, IsStepOf, IsTaskOf, TasksOf, WantsStep,
       JobPath, Top, JobTop, Parent

\* StepShape survives when a rename moves the daemon along.
LEMMA StepMoved ==
  ASSUME NEW s \in Steps, StepShape(s), lock' # s, NEW u \in Users, NEW o \in BOOLEAN,
         pc'[s] = pc[s],
         loc'[s] = loc[s] \/ loc'[s] = Renamed(loc[s], TopOf(u, o), TopOf(u, ~o))
  PROVE  StepShape(s)'
<1>1. IsJobOf(loc[s], s) => IsJobOf(loc'[s], s)
  BY RenamedShape
<1>2. IsStepOf(loc[s], s) => IsStepOf(loc'[s], s)
  BY RenamedShape
<1> QED BY <1>1, <1>2 DEF StepShape, IsJobOf, IsStepOf, WantsStep, JobTop

\* A critical-section step is the lock holder's.
LEMMA HolderLock ==
  ASSUME NEW h, Holder(h) PROVE lock = h /\ (lock' = h \/ lock' = Nobody)
BY DEF Holder, InitSlurm, SlurmCpusetClean, CleanDone, UpdateUserCpusets, UpdateDone,
       CreateCpuset, UserCpusetDir, UserCpusetModify, JobCpusetCreate, Migrate, Unlock,
       LoadJobs, ScanJob, ScanDone

\* What a user_cpuset_update does to the other processes.
LEMMA UserUpdateOthers ==
  ASSUME PcOK, DataOK, NEW h \in Procs, NEW u \in Users, NEW used, NEW n1, NEW n2,
         UserCpusetUpdate(h, u, used, n1, n2), NEW x \in Procs
  PROVE  /\ x # h => pc'[x] = pc[x] \/ (pc'[x] = "killed" /\ loc[x] = Top(u))
         /\ loc'[x] = loc[x]
            \/ loc'[x] = Renamed(loc[x], TopOf(u, FALSE), TopOf(u, ~FALSE))
         /\ loc[x] \in {Root, Gone} => loc'[x] = loc[x]
         /\ pc'[x] = "killed" /\ x # h => loc'[x] = loc[x] \/ pc'[x] = pc[x]
<1>0. pc \in [Procs -> HolderPC \cup FreePC]
  BY DEF PcOK
<1>1. CASE (\E l : Goto(h, l)) /\ loc' = loc
  BY <1>0, <1>1 DEF Goto
<1>2. CASE /\ loc' = loc
           /\ pc' = [y \in Procs |-> IF y = h THEN n1
                                     ELSE IF loc[y] = Top(u) THEN "killed" ELSE pc[y]]
  BY <1>2
<1>3. CASE Goto(h, n1) /\ Rename(Top(u), OrphanOf(u))
  <2>1. Top(u) = TopOf(u, FALSE) /\ OrphanOf(u) = TopOf(u, ~FALSE)
    BY TopDef
  <2>2. loc'[x] = IF loc[x] \in {Root, Gone} THEN loc[x]
                  ELSE Renamed(loc[x], Top(u), OrphanOf(u))
    BY <1>3 DEF Rename
  <2>3. x # h => pc'[x] = pc[x]
    BY <1>0, <1>3 DEF Goto
  <2> QED BY <2>1, <2>2, <2>3
<1>4. CASE OrphanUser(h, u, n1)
  BY <1>1, <1>2, <1>3, <1>4 DEF OrphanUser, KillOrphan, UserCpusetOrphan
<1>5. CASE (\E rc : Goto(h, CASE rc = "ok" -> n1 [] rc = "EACCES" -> n2 [] OTHER -> pc[h]))
           /\ loc' = loc
  BY <1>1, <1>5
<1> QED BY <1>4, <1>5 DEF UserCpusetUpdate

\* What the holder does keeps StepShape of every other daemon.
LEMMA HolderOthers ==
  ASSUME IInv, NEW h \in Procs, Holder(h), NEW s \in Steps, s # h
  PROVE  StepShape(s)'
<1>0. PcOK /\ DataOK /\ StepShape(s) /\ s \in Procs
  BY DEF IInv, TypeOK, PcOK, DataOK, Procs
<1>1. lock' # s /\ Nobody # s
  BY HolderLock, NobodyFacts, <1>0
<1>2. CASE pc'[s] = pc[s] /\ loc'[s] = loc[s]
  BY <1>0, <1>1, <1>2, StepFrame
<1>3. ASSUME NEW u \in Users, NEW used, NEW n1, NEW n2, UserCpusetUpdate(h, u, used, n1, n2)
      PROVE  StepShape(s)'
  <2>1. /\ pc'[s] = pc[s] \/ pc'[s] = "killed"
        /\ loc'[s] = loc[s] \/ loc'[s] = Renamed(loc[s], TopOf(u, FALSE), TopOf(u, ~FALSE))
    BY <1>0, <1>3, UserUpdateOthers
  <2>2. CASE pc'[s] = "killed"
    BY <1>0, <1>1, <2>2, StepFrame
  <2>3. CASE pc'[s] = pc[s]
    BY <1>0, <1>1, <2>1, <2>3, StepMoved
  <2> QED BY <2>1, <2>2, <2>3
<1>4. CASE UpdateUserCpusets(h)
  <2>1. \E u \in pending : UserCpusetUpdate(h, u, KidCpus(Top(u)), pc[h], pc[h])
    BY <1>4 DEF UpdateUserCpusets
  <2> QED BY <2>1, <1>0, <1>3 DEF DataOK
<1>5. CASE UserCpusetModify(h)
  <2>1. PICK j \in Jobs : target = JobPath(j)
    BY <1>5, StepTarget DEF UserCpusetModify
  <2>2. target[1].uid \in Users
    BY <2>1, JobPathFacts
  <2>3. \E used : UserCpusetUpdate(h, target[1].uid, used, "mkdir", CreateFailed(h))
    BY <1>5 DEF UserCpusetModify
  <2> QED BY <2>2, <2>3, <1>3
<1>6. CASE UserCpusetDir(h)
  <2>1. PICK j \in Jobs : target = JobPath(j)
    BY <1>6, StepTarget DEF UserCpusetDir
  <2>2. target[1].uid \in Users
    BY <2>1, JobPathFacts
  <2>3. PICK u \in Users : u = target[1].uid
    BY <2>2
  <2>4. pc'[s] = pc[s]
    BY <1>0, <1>6 DEF UserCpusetDir, Goto, PcOK
  <2>5. OrphanOf(u) = TopOf(u, TRUE) /\ Top(u) = TopOf(u, ~TRUE)
    BY TopDef
  <2>6. loc'[s] = loc[s] \/ loc'[s] = Renamed(loc[s], OrphanOf(u), Top(u))
    BY <1>0, <1>6, <2>3 DEF UserCpusetDir, Rename
  <2>7. loc'[s] = loc[s] \/ loc'[s] = Renamed(loc[s], TopOf(u, TRUE), TopOf(u, ~TRUE))
    BY <2>5, <2>6
  <2> QED BY <1>0, <1>1, <2>4, <2>7, StepMoved
<1>7. CASE Migrate(h)
  <2>1. h \in Steps /\ lock = h
    BY <1>7 DEF Migrate
  <2>2. StepShape(h) /\ WorkingOn(h)
    BY <2>1 DEF IInv, StepShape
  <2>3. Len(target) = 4 => target[4] # s
    <3>1. StepJob[h] \in Jobs
      BY <2>1, CpusetAssumption
    <3>2. Len(JobPath(StepJob[h])) = 2
      BY <3>1, JobPathFacts
    <3>3. CASE IsTaskOf(target, h)
      <4>1. target[4] \in Tasks
        BY <2>1, <3>3, ShapeFacts DEF TasksOf
      <4> QED BY <4>1, CpusetAssumption
    <3>4. CASE IsStepOf(target, h)
      <4>1. Len(target) = 3
        BY <2>1, <3>4, ShapeFacts
      <4> QED BY <4>1
    <3>5. CASE target = JobPath(StepJob[h])
      BY <3>2, <3>5
    <3> QED BY <2>2, <3>3, <3>4, <3>5 DEF WorkingOn
  <2>4. pc'[s] = pc[s] /\ loc'[s] = loc[s]
    BY <1>0, <1>7, <2>3 DEF Migrate, Goto, PcOK, DataOK
  <2> QED BY <2>4, <1>2
<1>8. CASE \/ InitSlurm(h) \/ SlurmCpusetClean(h) \/ CleanDone(h) \/ UpdateDone(h)
           \/ CreateCpuset(h) \/ JobCpusetCreate(h)
  <2>1. pc'[s] = pc[s] /\ loc'[s] = loc[s]
    BY <1>0, <1>8 DEF InitSlurm, SlurmCpusetClean, CleanDone, UpdateDone, CreateCpuset,
       JobCpusetCreate, Goto, PcOK
  <2> QED BY <2>1, <1>2
<1>9. CASE Unlock(h) \/ LoadJobs(h) \/ ScanJob(h) \/ ScanDone(h)
  <2>1. pc'[s] = pc[s] /\ loc'[s] = loc[s]
    BY <1>0, <1>9 DEF Unlock, LoadJobs, ScanJob, ScanDone, Goto, PcOK, DataOK
  <2> QED BY <2>1, <1>2
<1> QED BY <1>4, <1>5, <1>6, <1>7, <1>8, <1>9 DEF Holder

\* Inside the critical section StepShape is WorkingOn.
LEMMA HeldShape ==
  ASSUME NEW s \in Steps, PcOK', lock' = s, WorkingOn(s)' PROVE StepShape(s)'
<1>1. {"inited", "running", "forked"} \subseteq FreePC
  BY DEF FreePC
<1>2. s \in Procs
  BY DEF Procs
<1>3. pc'[s] \notin {"inited", "running", "forked"}
  BY <1>1, <1>2, PcDisjoint DEF PcOK
<1> QED BY <1>3 DEF StepShape

\* The first stage: slurmstepd is in the root cpuset and works on the job's.
LEMMA StageOne ==
  ASSUME NEW s \in Steps, PcOK', lock' = s, target' = JobPath(StepJob[s]),
         pc'[s] \notin {"load", "scan", "update2", "unlock_ok"}, loc'[s] = Root
  PROVE  StepShape(s)'
<1>1. WorkingOn(s)'
  BY DEF WorkingOn, JobPath, Top
<1> QED BY <1>1, HeldShape

\* What the holder does keeps its own StepShape.
LEMMA HolderOwn ==
  ASSUME IInv, PcOK', NEW s \in Steps, Holder(s)
  PROVE  StepShape(s)'
<1>0. /\ PcOK /\ DataOK /\ s \in Procs /\ lock = s /\ WorkingOn(s) /\ StepShape(s)
      /\ s \notin Logins /\ s \notin Tasks /\ s # Nobody
  BY HolderLock, CpusetAssumption DEF IInv, TypeOK, PcOK, DataOK, Procs, StepShape
<1>1. pc \in [Procs -> HolderPC \cup FreePC] /\ loc \in [Procs -> Path \cup {Root, Gone}]
  BY <1>0 DEF PcOK, DataOK
<1>a. pc[s] \notin StageTwo => target = JobPath(StepJob[s]) /\ loc[s] = Root
  BY <1>0 DEF WorkingOn, StageTwo
<1>2. CASE InitSlurm(s)
  <2>1. pc[s] \notin StageTwo /\ pc'[s] \in {"migrate", "failing"} /\ lock' = s /\ UNCHANGED <<loc, target>>
    BY <1>0, <1>1, <1>2 DEF InitSlurm, Goto, AfterClean, StageTwo, held
  <2> QED BY <1>0, <1>a, <2>1, StageOne
<1>3. CASE SlurmCpusetClean(s)
  BY <1>0, <1>3, StepFrame DEF SlurmCpusetClean
<1>4. CASE CleanDone(s)
  <2>1. pc[s] \notin StageTwo /\ pc'[s] = "update" /\ lock' = s /\ UNCHANGED <<loc, target>>
    BY <1>0, <1>1, <1>4 DEF CleanDone, Goto, StageTwo
  <2> QED BY <1>0, <1>a, <2>1, StageOne
<1>5. CASE UpdateUserCpusets(s)
  <2>1. /\ lock' = s /\ pc'[s] = pc[s] /\ pc[s] \in {"update", "update2"}
        /\ target' = target
    BY <1>0, <1>5, UpdateSamePc DEF UpdateUserCpusets
  <2>2. loc[s] = Root
    BY <2>1, <1>a DEF StageTwo
  <2>3. PICK u \in Users : \E used : UserCpusetUpdate(s, u, used, pc[s], pc[s])
    BY <1>0, <1>5 DEF UpdateUserCpusets, DataOK
  <2>4. loc'[s] = loc[s]
    BY <1>0, <2>2, <2>3, UserUpdateOthers
  <2> QED BY <1>0, <2>1, <2>4, StepFrame
<1>6. CASE UpdateDone(s)
  <2>1. /\ pc[s] \notin StageTwo /\ pc[s] # "update2" /\ lock' = s
        /\ UNCHANGED <<loc, target>>
    BY <1>0, <1>6 DEF UpdateDone, StageTwo, WorkingOn
  <2>2. pc'[s] = "migrate"
    BY <1>0, <1>1, <1>6, <2>1 DEF UpdateDone, Goto, AfterClean
  <2> QED BY <1>0, <1>a, <2>1, <2>2, StageOne
<1>7. CASE CreateCpuset(s)
  <2>1. /\ lock' = s /\ UNCHANGED <<loc, target>> /\ pc[s] = "create"
        /\ pc'[s] \in {"userdir", "mkdir", "unlock_fail"}
        /\ pc'[s] = "userdir" => Len(target) = 2
    BY <1>0, <1>1, <1>7 DEF CreateCpuset, CreateFailed, Goto
  <2>2. IsStepOf(target, s) \/ IsTaskOf(target, s) => Len(target) # 2
    BY ShapeFacts
  <2>3. WorkingOn(s)'
    BY <1>0, <2>1, <2>2 DEF WorkingOn, StageTwo, IsStepOf, IsTaskOf, TasksOf, WantsStep, JobPath,
                            Top, JobTop, Parent
  <2> QED BY <1>0, <2>1, <2>3, HeldShape
<1>8. CASE UserCpusetDir(s)
  <2>1. pc[s] \notin StageTwo /\ pc'[s] = "usermod" /\ lock' = s /\ UNCHANGED target
    BY <1>0, <1>1, <1>8 DEF UserCpusetDir, Goto, StageTwo
  <2>2. loc'[s] = Root
    BY <1>0, <1>8, <1>a, <2>1 DEF UserCpusetDir, Rename
  <2> QED BY <1>0, <1>a, <2>1, <2>2, StageOne
<1>9. CASE UserCpusetModify(s)
  <2>1. pc[s] = "usermod" /\ pc[s] \notin StageTwo /\ lock' = s /\ UNCHANGED target
    BY <1>0, <1>9 DEF UserCpusetModify, StageTwo, held
  <2>2. PICK j \in Jobs : target = JobPath(j)
    BY <1>0, <2>1, StepTarget
  <2>3. target[1].uid \in Users
    BY <2>2, JobPathFacts
  <2>4. PICK u \in Users : \E used : UserCpusetUpdate(s, u, used, "mkdir", CreateFailed(s))
    BY <1>9, <2>3 DEF UserCpusetModify
  <2>5. loc'[s] = Root
    BY <1>0, <1>a, <2>1, <2>4, UserUpdateOthers
  <2>6. pc'[s] \in {"mkdir", "unlock_fail", "usermod"}
    <3>1. CASE OrphanUser(s, u, "mkdir")
      BY <1>0, <1>1, <3>1 DEF OrphanUser, KillOrphan, UserCpusetOrphan, Goto
    <3>2. CASE \E rc : Goto(s, CASE rc = "ok" -> "mkdir" [] rc = "EACCES" -> CreateFailed(s)
                                [] OTHER -> pc[s])
      BY <1>0, <1>1, <2>1, <3>2 DEF Goto, CreateFailed
    <3> QED BY <2>4, <3>1, <3>2 DEF UserCpusetUpdate
  <2> QED BY <1>0, <1>a, <2>1, <2>5, <2>6, StageOne
<1>10. CASE JobCpusetCreate(s)
  <2>1. /\ lock' = s /\ UNCHANGED <<loc, target>> /\ pc[s] = "mkdir"
        /\ pc'[s] \in {"migrate2", "unlock_fail"}
    BY <1>0, <1>1, <1>10 DEF JobCpusetCreate, CreateFailed, Goto
  <2>3. WorkingOn(s)'
    BY <1>0, <2>1 DEF WorkingOn, StageTwo, IsStepOf, IsTaskOf, TasksOf, WantsStep, JobPath, Top,
                      JobTop, Parent
  <2> QED BY <1>0, <2>1, <2>3, HeldShape
<1>11. CASE Migrate(s)
  <2>1. /\ lock' = s /\ UNCHANGED target /\ pc[s] \in {"migrate", "migrate2"}
        /\ pc'[s] \in {"unlock_ok", "create", "unlock_fail"}
        /\ pc'[s] # "unlock_ok" => loc' = loc
        /\ pc'[s] = "unlock_ok" =>
              loc' = [loc EXCEPT ![IF Len(target) = 4 THEN target[4] ELSE s] = target]
    BY <1>0, <1>1, <1>11 DEF Migrate, Goto, held
  <2>2. CASE target = JobPath(StepJob[s])
    <3>0. StepJob[s] \in Jobs
      BY CpusetAssumption
    <3>1. Len(target) = 2
      BY <2>2, <3>0, JobPathFacts
    <3>2. loc[s] = Root
      <4>1. ~IsStepOf(target, s) /\ ~IsTaskOf(target, s)
        BY <3>1, ShapeFacts
      <4> QED BY <4>1, <1>0, <2>1 DEF WorkingOn
    <3>3. loc'[s] = IF pc'[s] = "unlock_ok" THEN target ELSE Root
      BY <1>0, <1>1, <2>1, <3>1, <3>2
    <3>4. WorkingOn(s)'
      BY <2>1, <2>2, <3>3 DEF WorkingOn, JobPath, Top
    <3> QED BY <1>0, <2>1, <3>4, HeldShape
  <2>3. CASE /\ IsStepOf(target, s) /\ WantsStep(s) /\ pc[s] \in StageTwo
             /\ loc[s] = IF pc[s] = "unlock_ok" THEN target ELSE Parent(target)
    <3>1. Len(target) = 3 /\ loc[s] = Parent(target)
      BY <2>1, <2>3, ShapeFacts
    <3>2. loc'[s] = IF pc'[s] = "unlock_ok" THEN target ELSE Parent(target)
      BY <1>0, <1>1, <2>1, <3>1
    <3>3. WorkingOn(s)'
      BY <2>1, <2>3, <3>2 DEF WorkingOn, StageTwo, IsStepOf, WantsStep, JobTop, Parent
    <3> QED BY <1>0, <2>1, <3>3, HeldShape
  <2>4. CASE /\ IsTaskOf(target, s) /\ WantsStep(s) /\ pc[s] \in StageTwo
             /\ loc[s] = Parent(target)
    <3>1. Len(target) = 4 /\ target[4] \in Tasks
      BY <2>4, ShapeFacts DEF TasksOf
    <3>2. loc'[s] = Parent(target)
      BY <1>0, <1>1, <2>1, <2>4, <3>1
    <3>3. WorkingOn(s)'
      BY <2>1, <2>4, <3>2 DEF WorkingOn, StageTwo, IsTaskOf, TasksOf, WantsStep, JobTop, Parent
    <3> QED BY <1>0, <2>1, <3>3, HeldShape
  <2> QED BY <1>0, <2>2, <2>3, <2>4 DEF WorkingOn
<1>12. CASE Unlock(s)
  <2>1. /\ lock' = Nobody /\ pc'[s] = AfterUnlock(s) /\ pc[s] \in {"unlock_ok", "unlock_fail"}
    BY <1>0, <1>1, <1>12 DEF Unlock, Goto
  <2>2. AfterUnlock(s) = IF pc[s] = "unlock_fail" /\ Len(target) # 4 THEN "failed"
                         ELSE IF Len(target) = 2 /\ WantsStep(s) THEN "inited" ELSE "running"
    BY <1>0 DEF AfterUnlock
  <2>3. loc'[s] = loc[s]
    BY <1>0, <1>12, <2>2 DEF Unlock
  <2>4. CASE AfterUnlock(s) = "failed"
    BY <1>0, <2>1, <2>4, StepFrame
  <2>5. CASE /\ AfterUnlock(s) = "inited" /\ Len(target) = 2 /\ pc[s] = "unlock_ok"
             /\ WantsStep(s)
    <3>1. ~IsStepOf(target, s) /\ ~IsTaskOf(target, s)
      BY <2>5, ShapeFacts
    <3>2. target = JobPath(StepJob[s]) /\ loc[s] = target
      BY <1>0, <2>5, <3>1 DEF WorkingOn
    <3>3. StepJob[s] \in Jobs
      BY CpusetAssumption
    <3>4. loc[s] = <<JobTop(StepJob[s], FALSE), StepJob[s]>>
      BY <3>2, <3>3, JobPathFacts DEF PathOfJob
    <3>5. IsJobOf(loc'[s], s)
      BY <3>4, <2>3 DEF IsJobOf
    <3> QED BY <1>0, <2>1, <2>5, <3>5 DEF StepShape, IsJobOf, JobTop, WantsStep
  <2>6. CASE /\ AfterUnlock(s) = "running" /\ (Len(target) = 2 => ~WantsStep(s))
             /\ pc[s] = "unlock_ok" \/ Len(target) = 4
    <3>1. WantsStep(s) => IsStepOf(loc[s], s)
      <4>0. StepJob[s] \in Jobs
        BY CpusetAssumption
      <4>1. target = JobPath(StepJob[s]) => Len(target) = 2
        BY <4>0, JobPathFacts
      <4>2. IsStepOf(target, s) => Len(target) = 3
        BY ShapeFacts
      <4>3. IsTaskOf(target, s) => IsStepOf(Parent(target), s)
        BY ShapeFacts
      <4>4. CASE target = JobPath(StepJob[s])
        BY <4>1, <4>4, <2>6
      <4>5. CASE IsStepOf(target, s) /\ loc[s] = IF pc[s] = "unlock_ok" THEN target ELSE Parent(target)
        <5>1. pc[s] = "unlock_ok"
          BY <4>2, <4>5, <2>6
        <5> QED BY <5>1, <4>5
      <4>6. CASE IsTaskOf(target, s) /\ loc[s] = Parent(target)
        BY <4>3, <4>6
      <4> QED BY <1>0, <4>4, <4>5, <4>6 DEF WorkingOn
    <3> QED BY <1>0, <2>1, <2>3, <2>6, <3>1 DEF StepShape, IsStepOf, WantsStep, JobTop
  <2> QED BY <2>1, <2>2, <2>4, <2>5, <2>6
<1> QED BY <1>0, <1>2, <1>3, <1>4, <1>5, <1>6, <1>7, <1>8, <1>9, <1>10, <1>11, <1>12 DEF Holder

\* A process other than s takes the lock, or nobody does.
LEMMA NotMine ==
  ASSUME IInv, NEW s \in Steps, pc'[s] = pc[s], loc'[s] = loc[s],
         lock' # s \/ (lock' = lock /\ target' = target)
  PROVE  StepShape(s)'
<1>1. StepShape(s)
  BY DEF IInv
<1> QED BY <1>1, StepFrame

\* Every step keeps StepShape of every slurmstepd.
LEMMA StepShapeStep ==
  ASSUME IInv, Next, NEW s \in Steps PROVE StepShape(s)'
<1>0. /\ PcOK /\ PcOK' /\ DataOK /\ StepShape(s) /\ s \in Procs
      /\ s \notin Logins /\ s \notin Tasks /\ s # Nobody /\ s # Agent
  BY PcStep, CpusetAssumption DEF IInv, TypeOK, PcOK, DataOK, Procs
<1>1. pc \in [Procs -> HolderPC \cup FreePC] /\ loc \in [Procs -> Path \cup {Root, Gone}]
  BY <1>0 DEF PcOK, DataOK
<1>2. ASSUME NEW h \in Procs, Holder(h) PROVE StepShape(s)'
  BY <1>0, <1>2, HolderOwn, HolderOthers
<1>3. ASSUME NEW h \in Procs, Dies(h) PROVE StepShape(s)'
  <2>1. CASE h = s
    <3>1. pc'[s] = "gone" /\ lock' # s
      <4>1. pc'[s] = "gone"
        BY <1>0, <1>1, <1>3, <2>1 DEF Dies, Goto
      <4>2. "gone" \in FreePC
        BY DEF FreePC
      <4> QED BY <1>0, <4>1, <4>2, PcDisjoint DEF PcOK
    <3> QED BY <1>0, <3>1, StepFrame
  <2>2. CASE h # s
    <3>1. pc'[s] = pc[s] /\ loc'[s] = loc[s]
      BY <1>0, <1>1, <1>3, <2>2 DEF Dies, Goto
    <3>2. lock' # s \/ (lock' = lock /\ target' = target)
      BY <1>0, <1>3 DEF Dies, held
    <3> QED BY <3>1, <3>2, NotMine
  <2> QED BY <2>1, <2>2
<1>4. ASSUME NEW x \in Steps, SpankInit(x) PROVE StepShape(s)'
  <2>1. CASE x = s
    <3>1. lock' = s /\ pc'[s] \in {"clean", "initslurm", "failing"}
      BY <1>0, <1>4, <2>1, CreateNotMid DEF SpankInit
    <3>2. target' = JobPath(StepJob[s]) /\ loc'[s] = Root
      BY <1>0, <1>1, <1>4, <2>1 DEF SpankInit
    <3> QED BY <1>0, <3>1, <3>2, StageOne
  <2>2. CASE x # s
    <3>1. pc'[s] = pc[s] /\ loc'[s] = loc[s] /\ lock' = x
      BY <1>0, <1>1, <1>4, <2>2 DEF SpankInit, SlurmCpusetCreate, Goto
    <3> QED BY <2>2, <3>1, NotMine
  <2> QED BY <2>1, <2>2
<1>5. ASSUME NEW x \in Steps, SpankInitPostOpt(x) PROVE StepShape(s)'
  <2>1. CASE x = s
    <3>1. IsJobOf(loc[s], s)
      BY <1>0, <1>5, <2>1 DEF StepShape, SpankInitPostOpt
    <3>2. IsStepOf(Append(loc[s], s), s) /\ Parent(Append(loc[s], s)) = loc[s]
      BY <3>1, ShapeFacts
    <3>3. lock' = s /\ pc'[s] = "create" /\ loc' = loc /\ target' = Append(loc[s], s)
      BY <1>0, <1>1, <1>5, <2>1 DEF SpankInitPostOpt, Goto
    <3>4. WantsStep(s)
      BY <1>0, <1>5, <2>1 DEF StepShape, SpankInitPostOpt
    <3>5. WorkingOn(s)'
      BY <3>2, <3>3, <3>4 DEF WorkingOn, StageTwo, IsStepOf, WantsStep, JobTop
    <3> QED BY <1>0, <3>3, <3>5, HeldShape
  <2>2. CASE x # s
    <3>1. pc'[s] = pc[s] /\ loc'[s] = loc[s] /\ lock' = x
      BY <1>0, <1>1, <1>5, <2>2 DEF SpankInitPostOpt, Goto
    <3> QED BY <2>2, <3>1, NotMine
  <2> QED BY <2>1, <2>2
<1>6. ASSUME NEW x \in Steps, NEW t \in Tasks,
             ForkTask(x, t) \/ SpankTaskPostFork(x, t) \/ SpankTaskExit(x, t)
      PROVE  StepShape(s)'
  <2>0. t # s
    BY <1>0
  <2>1. CASE x # s
    <3>1. pc'[s] = pc[s] /\ loc'[s] = loc[s]
      BY <1>0, <1>1, <1>6, <2>0, <2>1 DEF ForkTask, SpankTaskPostFork, SpankTaskExit
    <3>2. lock' # s \/ (lock' = lock /\ target' = target)
      BY <1>6, <2>1 DEF ForkTask, SpankTaskPostFork, SpankTaskExit, held
    <3> QED BY <3>1, <3>2, NotMine
  <2>2. CASE x = s /\ ForkTask(s, t)
    <3>1. /\ loc'[s] = loc[s] /\ pc[s] = "running" /\ lock' = lock
          /\ pc'[s] = "running" \/ (pc'[s] = "forked" /\ StepOpt[s] = "tasks")
      BY <1>0, <1>1, <2>0, <2>2 DEF ForkTask
    <3>2. lock # s
      <4>1. "running" \in FreePC
        BY DEF FreePC
      <4> QED BY <1>0, <3>1, <4>1, PcDisjoint DEF PcOK
    <3> QED BY <1>0, <3>1, <3>2 DEF StepShape, IsStepOf, WantsStep, JobTop
  <2>3. CASE x = s /\ SpankTaskPostFork(s, t)
    <3>1. /\ pc[s] = "forked" /\ lock' = s /\ pc'[s] = "create" /\ loc' = loc
          /\ target' = Append(loc[s], t) /\ t \in TasksOf(s)
      BY <1>0, <1>1, <2>0, <2>3 DEF SpankTaskPostFork, TasksOf
    <3>2. WantsStep(s)
      BY <1>0, <3>1 DEF StepShape, WantsStep
    <3>3. IsStepOf(loc[s], s)
      BY <1>0, <3>1, <3>2 DEF StepShape
    <3>4. IsTaskOf(Append(loc[s], t), s) /\ Parent(Append(loc[s], t)) = loc[s]
      BY <3>1, <3>3, ShapeFacts
    <3>5. WorkingOn(s)'
      BY <3>1, <3>2, <3>4 DEF WorkingOn, StageTwo, IsTaskOf, TasksOf, WantsStep, JobTop
    <3> QED BY <1>0, <3>1, <3>5, HeldShape
  <2>4. CASE x = s /\ SpankTaskExit(s, t)
    <3>1. /\ pc[s] = "running" /\ lock' = lock
          /\ \/ pc'[s] = "done"
             \/ pc'[s] = "running" /\ loc'[s] = loc[s]
      BY <1>0, <1>1, <2>0, <2>4 DEF SpankTaskExit
    <3>2. lock # s
      <4>1. "running" \in FreePC
        BY DEF FreePC
      <4> QED BY <1>0, <3>1, <4>1, PcDisjoint DEF PcOK
    <3> QED BY <1>0, <3>1, <3>2, StepFrame
  <2> QED BY <1>6, <2>1, <2>2, <2>3, <2>4
<1>7. ASSUME NEW t \in Tasks, TaskExit(t) PROVE StepShape(s)'
  <2>1. pc'[s] = pc[s] /\ loc'[s] = loc[s] /\ lock' = lock /\ target' = target
    BY <1>0, <1>1, <1>7 DEF TaskExit, held
  <2> QED BY <2>1, NotMine
<1>8. ASSUME NEW x \in Steps \cup Logins, Exit(x) PROVE StepShape(s)'
  <2>1. CASE x # s
    <3>1. pc'[s] = pc[s] /\ loc'[s] = loc[s] /\ lock' = lock /\ target' = target
      BY <1>0, <1>1, <1>8, <2>1 DEF Exit, Goto, held
    <3> QED BY <3>1, NotMine
  <2>2. CASE x = s
    <3>1. pc'[s] = "gone"
      BY <1>0, <1>1, <1>8, <2>2 DEF Exit, Goto
    <3>2. lock' # s
      <4>1. "gone" \in FreePC
        BY DEF FreePC
      <4> QED BY <1>0, <3>1, <4>1, PcDisjoint DEF PcOK
    <3> QED BY <1>0, <3>1, <3>2, StepFrame
  <2> QED BY <2>1, <2>2
<1>9. ASSUME NEW l \in Logins, PamAcctMgmt(l) PROVE StepShape(s)'
  <2>1. pc'[s] = pc[s] /\ loc'[s] = loc[s] /\ lock' = l /\ l # s
    BY <1>0, <1>1, <1>9 DEF PamAcctMgmt, SlurmCpusetCreate, Goto
  <2> QED BY <2>1, NotMine
<1>10. CASE AgentStart
  <2>1. pc'[s] = pc[s] /\ loc'[s] = loc[s] /\ lock' = Agent /\ Agent # s
    BY <1>0, <1>1, <1>10 DEF AgentStart, SlurmCpusetCreate, Goto
  <2> QED BY <2>1, NotMine
<1>11. ASSUME NEW j \in Jobs, JobStart(j) \/ JobEnd(j) PROVE StepShape(s)'
  <2>1. pc'[s] = pc[s] /\ loc'[s] = loc[s] /\ lock' = lock /\ target' = target
    BY <1>11 DEF JobStart, JobEnd, held
  <2> QED BY <2>1, NotMine
<1> QED
  BY <1>2, <1>3, <1>4, <1>5, <1>6, <1>7, <1>8, <1>9, <1>10, <1>11 DEF Next, Crash, GiveUp

\* LoginShape survives when the login neither moves nor takes the lock.
LEMMA LoginFrame ==
  ASSUME NEW l, LoginShape(l), lock' = l => lock = l,
         UNCHANGED target, pc'[l] = pc[l], loc'[l] = loc[l]
  PROVE  LoginShape(l)'
BY DEF LoginShape, JobPath, Top

\* LoginShape says nothing about a login that does not hold the lock.
LEMMA LoginFree ==
  ASSUME NEW l, lock' # l PROVE LoginShape(l)'
BY DEF LoginShape

\* Every step keeps LoginShape of every login.
LEMMA LoginShapeStep ==
  ASSUME IInv, Next, NEW l \in Logins PROVE LoginShape(l)'
<1>0. /\ PcOK /\ PcOK' /\ DataOK /\ LoginShape(l) /\ l \in Procs
      /\ l \notin Steps /\ l \notin Tasks /\ l # Nobody /\ l # Agent
  BY PcStep, CpusetAssumption DEF IInv, TypeOK, PcOK, DataOK, Procs
<1>1. pc \in [Procs -> HolderPC \cup FreePC] /\ loc \in [Procs -> Path \cup {Root, Gone}]
  BY <1>0 DEF PcOK, DataOK
<1>2. ASSUME NEW h \in Procs, Holder(h), h # l PROVE LoginShape(l)'
  <2>1. lock' # l
    BY <1>0, <1>2, HolderLock
  <2> QED BY <2>1, LoginFree
<1>3. CASE Holder(l)
  <2>0. lock = l /\ loc[l] \in Path \cup {Root, Gone}
    BY <1>0, <1>1, <1>3, HolderLock
  <2>1. CASE InitSlurm(l) \/ CleanDone(l) \/ UpdateDone(l) \/ LoadJobs(l)
    <3>1. /\ loc' = loc /\ pc[l] # "unlock_ok"
          /\ pc'[l] \in {"update", "load", "scan", "unlock_fail", "failing"} \/ pc[l] = "update2"
      BY <1>0, <1>1, <2>1 DEF InitSlurm, CleanDone, UpdateDone, LoadJobs, Goto, AfterClean
    <3> QED BY <1>0, <2>0, <3>1 DEF LoginShape
  <2>2. CASE SlurmCpusetClean(l)
    BY <1>0, <2>2, LoginFrame DEF SlurmCpusetClean
  <2>3. CASE UpdateUserCpusets(l)
    <3>1. /\ lock' = l /\ pc'[l] = pc[l] /\ pc[l] \in {"update", "update2"} /\ target' = target
      BY <1>0, <2>3, UpdateSamePc DEF UpdateUserCpusets
    <3>2. loc[l] = Root
      BY <1>0, <2>0, <3>1 DEF LoginShape
    <3>3. PICK u \in Users : \E used : UserCpusetUpdate(l, u, used, pc[l], pc[l])
      BY <1>0, <2>3 DEF UpdateUserCpusets, DataOK
    <3>4. loc'[l] = loc[l]
      BY <1>0, <3>2, <3>3, UserUpdateOthers
    <3> QED BY <1>0, <2>0, <3>1, <3>4, LoginFrame
  <2>4. CASE CreateCpuset(l) \/ JobCpusetCreate(l)
    <3>1. /\ loc' = loc /\ target' = target /\ pc[l] \in {"create", "mkdir"}
          /\ pc'[l] \in {"userdir", "mkdir", "scan"}
      BY <1>0, <1>1, <2>4 DEF CreateCpuset, JobCpusetCreate, CreateFailed, Goto
    <3> QED BY <1>0, <2>0, <3>1 DEF LoginShape, JobPath, Top
  <2>5. CASE UserCpusetDir(l)
    <3>1. target' = target /\ pc[l] = "userdir" /\ pc'[l] = "usermod"
      BY <1>0, <1>1, <2>5 DEF UserCpusetDir, Goto
    <3>2. loc[l] = Root
      BY <1>0, <2>0, <3>1 DEF LoginShape
    <3>3. loc'[l] = Root
      BY <1>0, <2>5, <3>2 DEF UserCpusetDir, Rename
    <3> QED BY <1>0, <2>0, <3>1, <3>3 DEF LoginShape, JobPath, Top
  <2>6. CASE UserCpusetModify(l)
    <3>1. pc[l] = "usermod" /\ UNCHANGED target
      BY <2>6 DEF UserCpusetModify, held
    <3>2. PICK j \in Jobs : target = JobPath(j)
      BY <1>0, <2>0, <3>1 DEF LoginShape
    <3>3. target[1].uid \in Users
      BY <3>2, JobPathFacts
    <3>4. PICK u \in Users : \E used : UserCpusetUpdate(l, u, used, "mkdir", CreateFailed(l))
      BY <2>6, <3>3 DEF UserCpusetModify
    <3>5. loc[l] = Root
      BY <1>0, <2>0, <3>1 DEF LoginShape
    <3>6. loc'[l] = Root
      BY <1>0, <3>4, <3>5, UserUpdateOthers
    <3>7. pc'[l] \in {"mkdir", "scan", "usermod"}
      <4>1. CASE OrphanUser(l, u, "mkdir")
        BY <1>0, <1>1, <4>1 DEF OrphanUser, KillOrphan, UserCpusetOrphan, Goto
      <4>2. CASE \E rc : Goto(l, CASE rc = "ok" -> "mkdir" [] rc = "EACCES" -> CreateFailed(l)
                                  [] OTHER -> pc[l])
        BY <1>0, <1>1, <3>1, <4>2 DEF Goto, CreateFailed
      <4> QED BY <3>4, <4>1, <4>2 DEF UserCpusetUpdate
    <3>8. \E i \in Jobs : target' = JobPath(i)
      BY <3>1, <3>2
    <3> QED BY <3>6, <3>7, <3>8 DEF LoginShape, JobPath, Top
  <2>7. CASE Migrate(l)
    BY <1>0, <2>7 DEF Migrate
  <2>8. CASE Unlock(l)
    <3>1. lock' # l
      BY <1>0, <2>8 DEF Unlock
    <3> QED BY <3>1, LoginFree
  <2>9. CASE ScanJob(l)
    <3>1. PICK j \in Jobs : /\ loc' = loc /\ pc[l] = "scan"
                           /\ \/ pc'[l] = "scan"
                              \/ pc'[l] = "create" /\ target' = JobPath(j)
      BY <1>0, <1>1, <2>9 DEF ScanJob, Goto, DataOK
    <3>2. loc'[l] = Root
      BY <1>0, <2>0, <3>1 DEF LoginShape
    <3>3. pc'[l] = "create" => \E i \in Jobs : target' = JobPath(i)
      BY <3>1
    <3> QED BY <3>1, <3>2, <3>3 DEF LoginShape, JobPath, Top
  <2>10. CASE ScanDone(l)
    <3>1. /\ pc[l] = "scan" /\ pc'[l] \in {"unlock_ok", "unlock_fail"}
          /\ pc'[l] = "unlock_fail" => loc'[l] = loc[l]
      BY <1>0, <1>1, <2>10 DEF ScanDone, Goto
    <3> QED BY <1>0, <2>0, <3>1 DEF LoginShape
  <2> QED BY <1>0, <1>3, <2>1, <2>2, <2>3, <2>4, <2>5, <2>6, <2>7, <2>8, <2>9, <2>10 DEF Holder
<1>4. ASSUME NEW h \in Procs, Dies(h) PROVE LoginShape(l)'
  <2>1. CASE lock' = Nobody
    BY <1>0, <2>1, LoginFree
  <2>2. CASE h \in Steps /\ UNCHANGED <<lock, held>>
    <3>1. pc'[l] = pc[l] /\ loc'[l] = loc[l] /\ target' = target
      BY <1>0, <1>1, <1>4, <2>2 DEF Dies, Goto, held
    <3> QED BY <1>0, <2>2, <3>1, LoginFrame
  <2> QED BY <1>4, <2>1, <2>2 DEF Dies
<1>5. ASSUME NEW x \in Steps, SpankInit(x) \/ SpankInitPostOpt(x) PROVE LoginShape(l)'
  <2>1. lock' # l
    BY <1>0, <1>5 DEF SpankInit, SpankInitPostOpt, SlurmCpusetCreate
  <2> QED BY <2>1, LoginFree
<1>6. ASSUME NEW x \in Steps, NEW t \in Tasks,
             ForkTask(x, t) \/ SpankTaskPostFork(x, t) \/ SpankTaskExit(x, t)
      PROVE  LoginShape(l)'
  <2>1. CASE SpankTaskPostFork(x, t)
    <3>1. lock' # l
      BY <1>0, <2>1 DEF SpankTaskPostFork
    <3> QED BY <3>1, LoginFree
  <2>2. CASE ForkTask(x, t) \/ SpankTaskExit(x, t)
    <3>1. pc'[l] = pc[l] /\ loc'[l] = loc[l] /\ target' = target /\ lock' = lock
      BY <1>0, <1>1, <2>2 DEF ForkTask, SpankTaskExit, held
    <3> QED BY <1>0, <3>1, LoginFrame
  <2> QED BY <1>6, <2>1, <2>2
<1>7. ASSUME NEW t \in Tasks, TaskExit(t) PROVE LoginShape(l)'
  <2>1. pc'[l] = pc[l] /\ loc'[l] = loc[l] /\ target' = target /\ lock' = lock
    BY <1>0, <1>1, <1>7 DEF TaskExit, held
  <2> QED BY <1>0, <2>1, LoginFrame
<1>8. ASSUME NEW x \in Steps \cup Logins, Exit(x) PROVE LoginShape(l)'
  <2>1. CASE x # l
    <3>1. pc'[l] = pc[l] /\ loc'[l] = loc[l] /\ target' = target /\ lock' = lock
      BY <1>0, <1>1, <1>8, <2>1 DEF Exit, Goto, held
    <3> QED BY <1>0, <3>1, LoginFrame
  <2>2. CASE x = l
    <3>1. pc'[l] = "gone" /\ "gone" \in FreePC
      BY <1>0, <1>1, <1>8, <2>2 DEF Exit, Goto, FreePC
    <3>2. lock' # l
      BY <1>0, <3>1, PcDisjoint DEF PcOK
    <3> QED BY <3>2, LoginFree
  <2> QED BY <2>1, <2>2
<1>9. ASSUME NEW x \in Logins, PamAcctMgmt(x) PROVE LoginShape(l)'
  <2>1. CASE x # l
    <3>1. lock' # l
      BY <1>9, <2>1 DEF PamAcctMgmt, SlurmCpusetCreate
    <3> QED BY <3>1, LoginFree
  <2>2. CASE x = l
    <3>1. pc'[l] \in {"clean", "initslurm", "failing"}
      BY <1>0, <1>9, <2>2, CreateNotMid DEF PamAcctMgmt
    <3>2. loc'[l] = Root
      BY <1>0, <1>1, <1>9, <2>2 DEF PamAcctMgmt
    <3> QED BY <3>1, <3>2 DEF LoginShape
  <2> QED BY <2>1, <2>2
<1>10. CASE AgentStart
  <2>1. lock' # l
    BY <1>0, <1>10 DEF AgentStart, SlurmCpusetCreate
  <2> QED BY <2>1, LoginFree
<1>11. ASSUME NEW j \in Jobs, JobStart(j) \/ JobEnd(j) PROVE LoginShape(l)'
  <2>1. pc'[l] = pc[l] /\ loc'[l] = loc[l] /\ target' = target /\ lock' = lock
    BY <1>11 DEF JobStart, JobEnd, held
  <2> QED BY <1>0, <2>1, LoginFrame
<1> QED
  BY <1>2, <1>3, <1>4, <1>5, <1>6, <1>7, <1>8, <1>9, <1>10, <1>11 DEF Next, Crash, GiveUp

\* The release agent never gets to create a cpuset.
LEMMA AgentShapeStep ==
  ASSUME IInv, Next PROVE AgentShape'
<1>0. /\ PcOK /\ PcOK' /\ AgentShape /\ Agent \in Procs /\ Agent # Nobody
      /\ Agent \notin Steps /\ Agent \notin Logins /\ Agent \notin Tasks
      /\ pc \in [Procs -> HolderPC \cup FreePC]
  BY PcStep, CpusetAssumption DEF IInv, TypeOK, PcOK, Procs
<1>1. SUFFICES ASSUME lock' = Agent
               PROVE  pc'[Agent] \in {"initslurm", "clean", "update", "update2", "unlock_ok", "failing"}
  BY DEF AgentShape
<1>2. CASE AgentStart
  BY <1>0, <1>2, CreateNotMid DEF AgentStart
<1>3. CASE Holder(Agent)
  <2>0. pc[Agent] \in {"initslurm", "clean", "update", "update2", "unlock_ok", "failing"}
    BY <1>0, <1>3, HolderLock DEF AgentShape
  <2>1. CASE InitSlurm(Agent) \/ CleanDone(Agent) \/ UpdateDone(Agent) \/ SlurmCpusetClean(Agent)
    BY <1>0, <2>0, <2>1 DEF InitSlurm, CleanDone, UpdateDone, SlurmCpusetClean, Goto, AfterClean
  <2>2. CASE UpdateUserCpusets(Agent)
    BY <1>0, <2>0, <2>2, UpdateSamePc
  <2>3. ~(\/ CreateCpuset(Agent) \/ UserCpusetDir(Agent) \/ UserCpusetModify(Agent)
          \/ JobCpusetCreate(Agent) \/ Migrate(Agent))
    BY <1>0, <2>0 DEF CreateCpuset, UserCpusetDir, UserCpusetModify, JobCpusetCreate, Migrate
  <2>4. ~Unlock(Agent)
    BY <1>0, <1>1 DEF Unlock
  <2> QED BY <1>0, <1>3, <2>1, <2>2, <2>3, <2>4 DEF Holder
<1>4. ASSUME lock = Agent, pc'[Agent] = pc[Agent]
      PROVE  pc'[Agent] \in {"initslurm", "clean", "update", "update2", "unlock_ok", "failing"}
  BY <1>0, <1>4 DEF AgentShape
<1>5. ASSUME NEW h \in Procs, Holder(h), h # Agent PROVE FALSE
  BY <1>0, <1>1, <1>5, HolderLock
<1>6. ASSUME NEW h \in Procs, Dies(h) PROVE lock = Agent /\ pc'[Agent] = pc[Agent]
  BY <1>0, <1>1, <1>6 DEF Dies, Goto, held
<1>7. ASSUME NEW x \in Steps, SpankInit(x) \/ SpankInitPostOpt(x) PROVE FALSE
  BY <1>0, <1>1, <1>7 DEF SpankInit, SpankInitPostOpt, SlurmCpusetCreate
<1>8. ASSUME NEW x \in Steps, NEW t \in Tasks,
             ForkTask(x, t) \/ SpankTaskPostFork(x, t) \/ SpankTaskExit(x, t)
      PROVE  lock = Agent /\ pc'[Agent] = pc[Agent]
  BY <1>0, <1>1, <1>8 DEF ForkTask, SpankTaskPostFork, SpankTaskExit
<1>9. ASSUME NEW t \in Tasks, TaskExit(t) PROVE lock = Agent /\ pc'[Agent] = pc[Agent]
  BY <1>0, <1>1, <1>9 DEF TaskExit
<1>10. ASSUME NEW x \in Steps \cup Logins, Exit(x) PROVE lock = Agent /\ pc'[Agent] = pc[Agent]
  BY <1>0, <1>1, <1>10 DEF Exit, Goto
<1>11. ASSUME NEW x \in Logins, PamAcctMgmt(x) PROVE FALSE
  BY <1>0, <1>1, <1>11 DEF PamAcctMgmt, SlurmCpusetCreate
<1>12. ASSUME NEW j \in Jobs, JobStart(j) \/ JobEnd(j) PROVE lock = Agent /\ pc'[Agent] = pc[Agent]
  BY <1>1, <1>12 DEF JobStart, JobEnd
<1> QED
  BY <1>2, <1>3, <1>4, <1>5, <1>6, <1>7, <1>8, <1>9, <1>10, <1>11, <1>12 DEF Next, Crash, GiveUp

-----------------------------------------------------------------------------
(* The theorems.                                                           *)

\* A node that boots, with or without /slurm set up, satisfies the invariant.
LEMMA InitInv ==
  ASSUME Init PROVE IInv
<1>1. TreeOK
  <2>1. TreeType
    BY TuplePath DEF Init, TreeType
  <2>2. TreeInv
    <3>1. \A p \in dirs : p = <<>>
      BY DEF Init
    <3>2. ~InJob(<<>>)
      BY TupleLen DEF InJob
    <3>3. \A p \in Path : InJob(p) => cpus[p] = {}
      BY <3>2 DEF Init
    <3> QED BY <3>1, <3>2, <3>3 DEF TreeInv
  <2>3. Exclusive
    BY DEF Init, Exclusive
  <2>4. NoOrphanTwin
    BY DEF Init, NoOrphanTwin, Top, OrphanOf
  <2> QED BY <2>1, <2>2, <2>3, <2>4 DEF TreeOK
<1>2. pc \in [Procs -> {"idle", "new"}] /\ lock = Nobody
  BY DEF Init
<1>3. PcOK
  BY <1>2, NobodyFacts DEF PcOK, HolderPC, FreePC
<1>4. DataOK
  BY TuplePath DEF Init, DataOK
<1>5. TypeOK
  BY <1>1, <1>3, <1>4 DEF TypeOK, TreeOK, TreeType, PcOK, DataOK
<1>6. ASSUME NEW s \in Steps PROVE StepShape(s)
  BY <1>2, NobodyFacts DEF StepShape, Procs
<1>7. ASSUME NEW l \in Logins PROVE LoginShape(l)
  BY <1>2, NobodyFacts DEF LoginShape, Procs
<1>8. AgentShape
  BY <1>2, NobodyFacts DEF AgentShape, Procs
<1>9. AllocInv
  BY <1>2 DEF AllocInv
<1> QED
  BY <1>1, <1>5, <1>6, <1>7, <1>8, <1>9 DEF IInv, TreeOK

\* Every step of every process preserves the invariant.
LEMMA NextInv ==
  ASSUME IInv, Next PROVE IInv'
<1>1. TreeOK' /\ PcOK' /\ DataOK'
  BY TreeStep, PcStep, DataStep
<1>2. TypeOK'
  BY <1>1 DEF TypeOK, TreeOK, TreeType, PcOK, DataOK
<1>3. (\A s \in Steps : StepShape(s)')  /\ (\A l \in Logins : LoginShape(l)')
  BY StepShapeStep, LoginShapeStep
<1>4. AgentShape' /\ AllocInv'
  BY AgentShapeStep, AllocStep
<1> QED
  BY <1>1, <1>2, <1>3, <1>4 DEF IInv, TreeOK

\* The invariant survives a step that changes nothing.
LEMMA StutterInv ==
  ASSUME IInv, UNCHANGED vars PROVE IInv'
<1>0. UNCHANGED <<dirs, cpus, loc, job, pc, lock, released>> /\ UNCHANGED held
  BY DEF vars
<1>1. UNCHANGED <<sweep, pending, target, alloc, unorphan, snap, count>>
  BY <1>0 DEF held
<1>2. TreeOK'
  BY <1>0, IInvTree, SameTree
<1>3. TypeOK'
  BY <1>0, <1>1 DEF IInv, TypeOK
<1>4. ASSUME NEW s \in Steps PROVE StepShape(s)'
  BY <1>0, <1>1 DEF IInv, StepShape, WorkingOn
<1>5. ASSUME NEW l \in Logins PROVE LoginShape(l)'
  BY <1>0, <1>1 DEF IInv, LoginShape
<1>6. AgentShape'
  BY <1>0 DEF IInv, AgentShape
<1>7. AllocInv'
  BY <1>0, <1>1, AllocQuiet DEF IInv
<1> QED
  BY <1>2, <1>3, <1>4, <1>5, <1>6, <1>7 DEF IInv, TreeOK

\* The inductive invariant holds in every reachable state, for any number of
\* CPUs, users, jobs, steps, tasks and logins, with crashes and with failing
\* controller queries: the critical section of cpuset.c, pam_slurm_cpuset.c
\* and release-agent.c keeps the tree in order at each of its system calls.
THEOREM Invariance == Spec => []IInv
<1>1. Init => IInv
  BY InitInv
<1>2. IInv /\ [Next]_vars => IInv'
  BY NextInv, StutterInv
<1> QED BY <1>1, <1>2, PTL DEF Spec

\* Type correctness, and mutual exclusion: exactly the process that holds the
\* lock file is between slurm_cpuset_lock and slurm_cpuset_unlock.
THEOREM TypeCorrect == Spec => []TypeOK
<1>1. IInv => TypeOK
  BY DEF IInv
<1> QED BY <1>1, Invariance, PTL

\* The plugin's promise: used_cpus_bitmask_path, nodemap_allocate and
\* job_cpuset_create never put one CPU into two cpusets of the same depth
\* within jobs, so jobs, steps and tasks do not share CPUs.
THEOREM ExclusiveCpus == Spec => []Exclusive
<1>1. IInv => Exclusive
  BY DEF IInv
<1> QED BY <1>1, Invariance, PTL

\* user_cpuset_update and user_cpuset_unorphan never leave a user with both a
\* cpuset and an orphan cpuset, so the rename of the one to the other succeeds.
THEOREM OneUserCpuset == Spec => []NoOrphanTwin
<1>1. IInv => NoOrphanTwin
  BY DEF IInv
<1> QED BY <1>1, Invariance, PTL

=============================================================================
