-------------------------- MODULE CpusetCountProofs --------------------------
(***************************************************************************)
(* How many CPUs there are for a login and for a job, for any number of    *)
(* CPUs, users, jobs, steps, tasks and logins.                             *)
(*                                                                         *)
(* LoginHasItsCpus: as long as the controller answers, the user cpuset     *)
(* that a login enters has at least the CPUs that create_all_job_cpusets   *)
(* counted ("Access granted ... with %d CPUs"). A job cpuset has all of    *)
(* the job's CPUs (FullJobs), jobs do not share CPUs (Exclusive), and the  *)
(* login, which holds the lock from the first to the last job it looks at, *)
(* finds for each job it counts CPUs below the user cpuset that it did not *)
(* count before (CountInv).                                                *)
(*                                                                         *)
(* GrantsFit: a job that the controller placed on the node finds its CPUs  *)
(* free. The cleaning leaves the cpusets of running jobs only (HoldInv),   *)
(* update_user_cpusets leaves a user cpuset no CPUs but those of its jobs  *)
(* (RefreshInv), and the running jobs were given CPUs of their own.        *)
(***************************************************************************)
EXTENDS CpusetTaskProofs, FiniteSetTheorems


-----------------------------------------------------------------------------
(* Job cpusets.                                                            *)

\* Sets of CPUs are finite.
LEMMA CpusFinite ==
  ASSUME NEW S \in SUBSET CPU
  PROVE  /\ IsFiniteSet(S) /\ Cardinality(S) \in Nat
         /\ Cardinality(S) = 0 <=> S = {}
<1>1. IsFiniteSet(S)
  BY FS_Subset, CpusetAssumption
<1> QED BY <1>1, FS_CardinalityType, FS_EmptySet

\* A job cpuset has CPUs, so there is none under an orphan.
LEMMA JobHasCpus ==
  ASSUME TreeOK, FullJobs, NEW p \in dirs, Len(p) = 2
  PROVE  cpus[p] # {} /\ ~IsOrphan(p) /\ p[2] \in Jobs
<1>0. p \in Path /\ cpus[p] \in SUBSET CPU /\ TreeInv
  BY DEF TreeOK, TreeType
<1>1. p[2] \in Jobs /\ InJob(p)
  BY <1>0, PathLen, InJobFacts DEF PathFact
<1>2. JobCpus[p[2]] \in Nat \ {0}
  BY <1>1, CpusetAssumption
<1>3. Cardinality(cpus[p]) # 0
  BY <1>2 DEF FullJobs
<1>4. cpus[p] # {}
  BY <1>0, <1>3, CpusFinite
<1> QED BY <1>0, <1>1, <1>4 DEF TreeInv

\* What FullJobs says of the tree.
JobDirs == \A p \in dirs : Len(p) = 2 => Cardinality(cpus[p]) = JobCpus[p[2]]

\* rename(2) of a user cpuset never moves a job cpuset.
LEMMA RenameJobs ==
  ASSUME TreeOK, FullJobs, NEW u \in Users, NEW o \in BOOLEAN,
         TopOf(u, o) \in dirs, TopOf(u, ~o) \notin dirs,
         \A p \in dirs : InJob(p) /\ p[1] = TopOf(u, o)[1] => cpus[p] = {},
         Rename(TopOf(u, o), TopOf(u, ~o))
  PROVE  \A q \in dirs' : Len(q) = 2 => q \in dirs /\ cpus'[q] = cpus[q] /\ q[1] # TopOf(u, ~o)[1]
<1> SUFFICES ASSUME NEW q \in dirs', Len(q) = 2
             PROVE  q \in dirs /\ cpus'[q] = cpus[q] /\ q[1] # TopOf(u, ~o)[1]
  OBVIOUS
<1> DEFINE R(p) == Renamed(p, TopOf(u, o), TopOf(u, ~o))
<1>1. PICK p \in dirs : q = R(p)
  BY RenameMoves
<1>2. cpus'[q] = cpus[p] /\ (p = <<>> \/ p[1] # TopOf(u, ~o)[1])
  BY <1>1, RenameMoves
<1>3. p \in Path
  BY DEF TreeOK, TreeType
<1>4. RenFact(p, q, TopOf(u, o), TopOf(u, ~o))
  BY <1>1, <1>3, RenamedPath
<1>5. Len(p) = 2
  BY <1>4 DEF RenFact
<1>6. p # <<>> /\ InJob(p)
  BY <1>3, <1>5, InJobFacts
<1>7. p[1] # TopOf(u, o)[1]
  BY <1>5, <1>6, JobHasCpus
<1>8. q = p
  BY <1>4, <1>7 DEF RenFact
<1> QED BY <1>2, <1>6, <1>8

\* A step leaves the job cpusets that exist after it as they were.
JobsKept == \A q \in dirs' : Len(q) = 2 => q \in dirs /\ cpus'[q] = cpus[q]

LEMMA KeptJobDirs ==
  ASSUME FullJobs, JobsKept PROVE JobDirs'
BY DEF FullJobs, JobsKept, JobDirs

\* user_cpuset_update changes at most the CPUs of the user cpuset itself.
LEMMA UserUpdateJobs ==
  ASSUME TreeOK, FullJobs, NEW h, NEW u \in Users, NEW used, NEW n1, NEW n2,
         used = {} => KidCpus(Top(u)) = {}, UserCpusetUpdate(h, u, used, n1, n2)
  PROVE  JobsKept
<1>0. dirs \subseteq Path /\ cpus \in [Path -> SUBSET CPU] /\ Top(u) \in Path /\ Len(Top(u)) = 1
  BY TopPath, TopDef DEF TreeOK, TreeType
<1>1. CASE UNCHANGED <<dirs, cpus>>
  BY <1>1 DEF JobsKept
<1>2. CASE dirs' = dirs /\ cpus' = [cpus EXCEPT ![Top(u)] = used]
  BY <1>0, <1>2 DEF JobsKept
<1>3. CASE used = {} /\ CanRename(Top(u), OrphanOf(u)) /\ Rename(Top(u), OrphanOf(u))
  <2>1. Top(u) = TopOf(u, FALSE) /\ OrphanOf(u) = TopOf(u, ~FALSE)
    BY TopDef
  <2>2. \A p \in dirs : InJob(p) /\ p[1] = Top(u)[1] => cpus[p] = {}
    BY <1>3, NoCpusBelow
  <2> QED BY <1>3, <2>1, <2>2, RenameJobs DEF CanRename, JobsKept
<1> QED
  BY <1>1, <1>2, <1>3 DEF UserCpusetUpdate, OrphanUser, KillOrphan, UserCpusetOrphan

\* Nor does user_cpuset_unorphan move a job cpuset.
LEMMA UserDirJobs ==
  ASSUME IInv, FullJobs, NEW h \in Procs, UserCpusetDir(h)
  PROVE  JobsKept /\ \E u \in Users :
                       /\ u = target[1].uid /\ Top(u) \in dirs'
                       /\ (dirs \subseteq dirs' /\ cpus' = cpus) \/ KidCpus(Top(u)) = {}
<1>0. TreeOK /\ dirs \subseteq Path /\ lock = h /\ pc[h] = "userdir" /\ TreeInv
  BY IInvTree DEF TreeOK, TreeType, UserCpusetDir
<1>1. PICK j \in Jobs : target = JobPath(j)
  BY <1>0, StepTarget
<1> DEFINE u == target[1].uid
<1>2. u \in Users /\ Top(u) = TopOf(u, ~TRUE) /\ OrphanOf(u) = TopOf(u, TRUE)
  BY <1>1, JobPathFacts, TopDef
<1>3. CASE CanRename(OrphanOf(u), Top(u)) /\ Rename(OrphanOf(u), Top(u))
  <2>1. \A p \in dirs : InJob(p) /\ p[1] = OrphanOf(u)[1] => cpus[p] = {}
    <3>1. ASSUME NEW p \in dirs, InJob(p), p[1] = OrphanOf(u)[1] PROVE IsOrphan(p)
      <4>1. p[1].orphan
        BY <3>1 DEF OrphanOf
      <4>2. p # <<>>
        BY <1>0, <3>1, InJobFacts
      <4> QED BY <4>1, <4>2 DEF IsOrphan
    <3> QED BY <1>0, <3>1 DEF TreeInv
  <2>2. JobsKept
    BY <1>0, <1>2, <1>3, <2>1, RenameJobs DEF CanRename, JobsKept
  <2>3. Top(u) \in dirs'
    <3>1. Renamed(OrphanOf(u), OrphanOf(u), Top(u)) = Top(u)
      <4>1. OrphanOf(u) # <<>> /\ OrphanOf(u) = <<OrphanOf(u)[1]>> /\ Top(u) = <<Top(u)[1]>>
        BY DEF OrphanOf, Top
      <4> QED BY <4>1, TupleExcept DEF Renamed
    <3> QED BY <1>3, <3>1 DEF Rename, CanRename
  <2>4. KidCpus(Top(u)) = {}
    <3>1. ASSUME NEW q \in dirs, q # <<>>, Parent(q) = Top(u) PROVE FALSE
      <4>1. q \in Path /\ Parent(q) # <<>>
        BY <1>0, <1>2, <3>1, TopPath
      <4>2. InJob(q)
        BY <3>1, <4>1, ParentFacts, InJobFacts
      <4>3. Top(u) \in dirs
        BY <1>0, <3>1, <4>2 DEF TreeInv
      <4> QED BY <1>3, <4>3 DEF CanRename
    <3> QED BY <3>1 DEF KidCpus, Kids
  <2> QED BY <1>2, <2>2, <2>3, <2>4
<1>4. CASE dirs' = dirs \cup {Top(u)} /\ UNCHANGED <<cpus, loc>>
  <2>1. Len(Top(u)) = 1 /\ Top(u) \in Path
    BY <1>2, TopPath
  <2>2. JobsKept
    BY <1>4, <2>1 DEF JobsKept
  <2> QED BY <1>2, <1>4, <2>2
<1> QED BY <1>3, <1>4 DEF UserCpusetDir

\* The holder makes a job cpuset, or leaves those it does not remove alone.
LEMMA HolderJobs ==
  ASSUME IInv, FullJobs, NEW h \in Procs, Holder(h)
  PROVE  \/ JobsKept
         \/ /\ JobCpusetCreate(h) /\ target \notin dirs
            /\ dirs' = dirs \cup {target} /\ cpus' = [cpus EXCEPT ![target] = alloc]
<1>0. TreeOK /\ dirs \subseteq Path /\ cpus \in [Path -> SUBSET CPU]
  BY IInvTree DEF TreeOK, TreeType
<1>1. CASE UNCHANGED <<dirs, cpus>>
  BY <1>1 DEF JobsKept
<1>2. CASE InitSlurm(h)
  <2>1. ASSUME NEW p \in Path, Len(p) = 2 PROVE p # <<>>
    BY <2>1, TupleLen
  <2> QED BY <1>0, <1>2, <2>1 DEF InitSlurm, JobsKept
<1>3. CASE SlurmCpusetClean(h)
  <2>1. PICK p \in sweep : \E valid : CleanPath(p, valid)
    BY <1>3 DEF SlurmCpusetClean
  <2>2. CASE dirs' = dirs \ {p} /\ cpus' = [cpus EXCEPT ![p] = {}]
    BY <1>0, <2>2 DEF JobsKept
  <2> QED BY <1>1, <2>1, <2>2 DEF CleanPath
<1>4. CASE UpdateUserCpusets(h)
  <2>1. PICK u \in pending : UserCpusetUpdate(h, u, KidCpus(Top(u)), pc[h], pc[h])
    BY <1>4 DEF UpdateUserCpusets
  <2>2. u \in Users
    BY DEF IInv, TypeOK
  <2> QED BY <1>0, <2>1, <2>2, UserUpdateJobs
<1>5. CASE UserCpusetDir(h)
  BY <1>5, UserDirJobs
<1>6. CASE UserCpusetModify(h)
  <2> DEFINE u == target[1].uid
             used == (IF unorphan THEN {} ELSE KidCpus(Top(u))) \cup alloc
  <2>1. UserCpusetUpdate(h, u, used, "mkdir", CreateFailed(h)) /\ lock = h /\ pc[h] = "usermod"
    BY <1>6 DEF UserCpusetModify
  <2>2. PICK j \in Jobs : target = JobPath(j)
    BY <2>1, StepTarget
  <2>3. u \in Users
    BY <2>2, JobPathFacts
  <2>4. used = {} => KidCpus(Top(u)) = {}
    BY <2>1 DEF IInv, AllocInv
  <2> HIDE DEF used, u
  <2> QED BY <1>0, <2>1, <2>3, <2>4, UserUpdateJobs
<1>7. CASE JobCpusetCreate(h)
  BY <1>1, <1>7 DEF JobCpusetCreate
<1>8. CASE CleanDone(h) \/ UpdateDone(h) \/ CreateCpuset(h) \/ Migrate(h) \/ Unlock(h)
           \/ LoadJobs(h) \/ ScanJob(h) \/ ScanDone(h)
  BY <1>1, <1>8 DEF CleanDone, UpdateDone, CreateCpuset, Migrate, Unlock, LoadJobs, ScanJob, ScanDone
<1> QED BY <1>2, <1>3, <1>4, <1>5, <1>6, <1>7, <1>8 DEF Holder

-----------------------------------------------------------------------------
(* What happens around the holder of the lock.                             *)

\* Nothing changes for the holder: the tree, what it works on, its place.
Undisturbed(h) ==
  lock = h /\ UNCHANGED <<dirs, cpus, sweep, pending, target, alloc, snap, count>> /\ pc'[h] = pc[h]

\* A process that has just taken the lock.
Begun(h) == pc'[h] \in {"clean", "initslurm", "failing"} \/ (h \in Steps /\ pc'[h] = "create")

\* Nobody else disturbs the holder of the lock.
LEMMA HolderAlone ==
  ASSUME IInv, Next, \A x \in Procs : ~Holder(x), NEW h \in Procs, lock' = h
  PROVE  Undisturbed(h) \/ (lock = Nobody /\ count' = count /\ Begun(h))
<1>0. /\ PcOK /\ PcOK' /\ h # Nobody /\ pc \in [Procs -> HolderPC \cup FreePC]
      /\ Steps \subseteq Procs \ Tasks /\ Logins \subseteq Procs \ Tasks
      /\ Agent \in Procs \ Tasks /\ Tasks \subseteq Procs
  BY PcStep, CpusetAssumption DEF IInv, TypeOK, PcOK, Procs
<1>1. ASSUME lock = h PROVE pc[h] \in HolderPC /\ h \notin Tasks
  BY <1>0, <1>1 DEF IInv, TypeOK
<1>2. ASSUME NEW x \in Procs, Dies(x) PROVE Undisturbed(h)
  <2>1. lock = h /\ UNCHANGED <<dirs, cpus, sweep, pending, target, alloc, snap, count>>
        /\ x \in Steps /\ pc[x] \in {"inited", "running", "forked"}
    BY <1>0, <1>2 DEF Dies, held
  <2>2. h # x
    BY <1>1, <2>1 DEF HolderPC
  <2>3. pc'[h] = pc[h]
    BY <1>0, <1>2, <2>2 DEF Dies, Goto
  <2> QED BY <2>1, <2>3 DEF Undisturbed
<1>3. ASSUME NEW x \in Procs, SlurmCpusetCreate(x)
      PROVE  lock = Nobody /\ count' = count /\ Begun(h)
  BY <1>0, <1>3, CreateNotMid DEF SlurmCpusetCreate, Begun
<1>4. ASSUME NEW s \in Steps, SpankInitPostOpt(s)
      PROVE  lock = Nobody /\ count' = count /\ Begun(h)
  BY <1>0, <1>4 DEF SpankInitPostOpt, Goto, Begun
<1>5. ASSUME NEW s \in Steps, NEW t \in Tasks, SpankTaskPostFork(s, t)
      PROVE  lock = Nobody /\ count' = count /\ Begun(h)
  BY <1>0, <1>5 DEF SpankTaskPostFork, Begun
<1>6. ASSUME NEW s \in Steps, NEW t \in Tasks, ForkTask(s, t) \/ SpankTaskExit(s, t)
      PROVE  Undisturbed(h)
  <2>1. lock = h /\ UNCHANGED <<dirs, cpus, sweep, pending, target, alloc, snap, count>>
    BY <1>6 DEF ForkTask, SpankTaskExit, held
  <2>2. h # s /\ h # t
    BY <1>0, <1>1, <1>6, <2>1 DEF ForkTask, SpankTaskExit, HolderPC
  <2>3. pc'[h] = pc[h]
    BY <1>0, <1>6, <2>2 DEF ForkTask, SpankTaskExit
  <2> QED BY <2>1, <2>3 DEF Undisturbed
<1>7. ASSUME NEW t \in Tasks, TaskExit(t) PROVE Undisturbed(h)
  BY <1>0, <1>1, <1>7 DEF TaskExit, held, Undisturbed
<1>8. ASSUME NEW x \in Steps \cup Logins, Exit(x) PROVE Undisturbed(h)
  <2>1. lock = h /\ UNCHANGED <<dirs, cpus, sweep, pending, target, alloc, snap, count>>
    BY <1>8 DEF Exit, held
  <2>2. h # x
    BY <1>0, <1>1, <1>8, <2>1 DEF Exit, HolderPC
  <2>3. pc'[h] = pc[h]
    BY <1>0, <1>8, <2>2 DEF Exit, Goto
  <2> QED BY <2>1, <2>3 DEF Undisturbed
<1>9. ASSUME NEW j \in Jobs, JobStart(j) \/ JobEnd(j) PROVE Undisturbed(h)
  BY <1>9 DEF JobStart, JobEnd, held, Undisturbed
<1>10. ASSUME NEW x, SpankInit(x) PROVE SlurmCpusetCreate(x)
  BY <1>10 DEF SpankInit
<1>11. ASSUME NEW x, PamAcctMgmt(x) PROVE SlurmCpusetCreate(x)
  BY <1>11 DEF PamAcctMgmt
<1>12. AgentStart => SlurmCpusetCreate(Agent)
  BY DEF AgentStart
<1> QED
  BY <1>0, <1>2, <1>3, <1>4, <1>5, <1>6, <1>7, <1>8, <1>9, <1>10, <1>11, <1>12 DEF Next, Crash, GiveUp

\* ... and what a login has counted is forgotten when it dies.
LEMMA OthersCount ==
  ASSUME IInv, Next, \A x \in Procs : ~Holder(x)
  PROVE  JobsKept /\ (count' = 0 \/ (count' = count /\ (lock' = lock \/ lock = Nobody)))
<1>0. dirs \subseteq Path
  BY DEF IInv, TypeOK
<1>1. ASSUME NEW x, SlurmCpusetCreate(x) PROVE JobsKept /\ count' = count /\ lock = Nobody
  <2>1. Len(<<>>) # 2
    BY TupleLen
  <2> QED BY <1>1, <2>1 DEF SlurmCpusetCreate, JobsKept
<1>2. ASSUME NEW x \in Procs, Dies(x)
      PROVE JobsKept /\ (count' = 0 \/ (count' = count /\ lock' = lock))
  BY <1>2 DEF Dies, ResetHeld, held, JobsKept
<1>3. ASSUME NEW s, SpankInitPostOpt(s) PROVE JobsKept /\ count' = count /\ lock = Nobody
  BY <1>3 DEF SpankInitPostOpt, JobsKept
<1>4. ASSUME NEW s, NEW t, SpankTaskPostFork(s, t) PROVE JobsKept /\ count' = count /\ lock = Nobody
  BY <1>4 DEF SpankTaskPostFork, JobsKept
<1>5. ASSUME NEW s, NEW t, ForkTask(s, t) \/ SpankTaskExit(s, t)
      PROVE  JobsKept /\ count' = count /\ lock' = lock
  BY <1>5 DEF ForkTask, SpankTaskExit, held, JobsKept
<1>6. ASSUME NEW x, TaskExit(x) \/ Exit(x) \/ JobStart(x) \/ JobEnd(x)
      PROVE  JobsKept /\ count' = count /\ lock' = lock
  BY <1>6 DEF TaskExit, Exit, JobStart, JobEnd, held, JobsKept
<1>10. ASSUME NEW x, SpankInit(x) PROVE SlurmCpusetCreate(x)
  BY <1>10 DEF SpankInit
<1>11. ASSUME NEW x, PamAcctMgmt(x) PROVE SlurmCpusetCreate(x)
  BY <1>11 DEF PamAcctMgmt
<1>12. AgentStart => SlurmCpusetCreate(Agent)
  BY DEF AgentStart
<1> QED
  BY <1>1, <1>2, <1>3, <1>4, <1>5, <1>6, <1>10, <1>11, <1>12 DEF Next, Crash, GiveUp

-----------------------------------------------------------------------------
(* A job cpuset has the CPUs of its job.                                   *)

\* How the holder gets between nodemap_allocate and cpuset_create.
LEMMA HolderMid ==
  ASSUME IInv, NEW h \in Procs, Holder(h), pc'[h] \in Mid
  PROVE  \/ CreateCpuset(h)
         \/ pc[h] \in Mid /\ UNCHANGED <<target, alloc>>
<1>0. pc \in [Procs -> HolderPC \cup FreePC] /\ PcOK /\ h # Nobody
  BY NobodyFacts DEF IInv, TypeOK, PcOK
<1>1. CASE InitSlurm(h) \/ CleanDone(h) \/ UpdateDone(h)
  BY <1>0, <1>1 DEF InitSlurm, CleanDone, UpdateDone, Goto, AfterClean, Mid
<1>2. CASE SlurmCpusetClean(h)
  BY <1>2 DEF SlurmCpusetClean, Mid
<1>3. CASE UpdateUserCpusets(h)
  BY <1>0, <1>3, UpdateSamePc DEF Mid
<1>4. CASE UserCpusetDir(h) \/ UserCpusetModify(h)
  BY <1>4 DEF UserCpusetDir, UserCpusetModify, Mid, held
<1>5. CASE JobCpusetCreate(h)
  BY <1>0, <1>5 DEF JobCpusetCreate, Goto, CreateFailed, Mid
<1>6. CASE Migrate(h)
  BY <1>0, <1>6 DEF Migrate, Goto, Mid
<1>7. CASE Unlock(h)
  BY <1>0, <1>7 DEF Unlock, Goto, AfterUnlock, Mid
<1>8. CASE LoadJobs(h) \/ ScanJob(h) \/ ScanDone(h)
  BY <1>0, <1>8 DEF LoadJobs, ScanJob, ScanDone, Goto, Mid
<1> QED BY <1>1, <1>2, <1>3, <1>4, <1>5, <1>6, <1>7, <1>8 DEF Holder

\* Every step preserves FullJobs.
LEMMA FullStep ==
  ASSUME IInv, FullJobs, ~CtldFails, Next PROVE FullJobs'
<1>0. TreeOK /\ PcOK' /\ dirs \subseteq Path /\ cpus \in [Path -> SUBSET CPU] /\ target \in Path
  BY IInvTree, PcStep DEF TreeOK, TreeType, IInv, TypeOK
<1>1. JobDirs'
  <2>1. CASE \E h \in Procs : Holder(h)
    <3>1. PICK h \in Procs : Holder(h)
      BY <2>1
    <3>2. CASE JobsKept
      BY <3>2, KeptJobDirs
    <3>3. CASE /\ JobCpusetCreate(h) /\ target \notin dirs
               /\ dirs' = dirs \cup {target} /\ cpus' = [cpus EXCEPT ![target] = alloc]
      <4>1. pc[h] \in Mid
        BY <3>3 DEF JobCpusetCreate, Mid
      <4>2. Len(target) = 2 => Cardinality(alloc) = JobCpus[target[2]]
        BY <4>1 DEF FullJobs, Mid
      <4> QED BY <1>0, <3>3, <4>2 DEF JobDirs, FullJobs
    <3> QED BY <3>1, <3>2, <3>3, HolderJobs
  <2>2. CASE \A h \in Procs : ~Holder(h)
    BY <2>2, OthersCount, KeptJobDirs
  <2> QED BY <2>1, <2>2
<1>2. ASSUME NEW x \in Procs, pc'[x] \in Mid, Len(target') = 2
      PROVE  Cardinality(alloc') = JobCpus[target'[2]]
  <2>0. lock' = x
    BY <1>0, <1>2 DEF PcOK, Mid, HolderPC
  <2>a. ASSUME pc[x] \in Mid, UNCHANGED <<target, alloc>> PROVE Cardinality(alloc') = JobCpus[target'[2]]
    BY <1>2, <2>a DEF FullJobs, Mid
  <2>1. CASE \E h \in Procs : Holder(h)
    <3>1. Holder(x)
      BY <2>0, <2>1, HolderLock, NobodyFacts
    <3>2. CASE CreateCpuset(x)
      <4>1. target' = target /\ Len(target) = 2
        BY <1>2, <3>2 DEF CreateCpuset
      <4>2. target[2] \in Jobs
        BY <1>0, <4>1, PathLen DEF PathFact
      <4>3. Requested(x) = {JobCpus[target[2]]}
        BY <4>1 DEF Requested, QueryNcpusPerNode
      <4>4. JobCpus[target[2]] \in Nat \ {0}
        BY <4>2, CpusetAssumption
      <4>5. pc'[x] # CreateFailed(x)
        BY <1>2 DEF CreateFailed, Mid
      <4>6. alloc' \in NodemapAllocate(Free(x), JobCpus[target[2]])
        BY <3>2, <4>3, <4>5 DEF CreateCpuset, Goto, IInv, TypeOK
      <4> QED BY <4>1, <4>4, <4>6 DEF NodemapAllocate
    <3>3. CASE pc[x] \in Mid /\ UNCHANGED <<target, alloc>>
      BY <2>a, <3>3
    <3> QED BY <1>2, <3>1, <3>2, <3>3, HolderMid
  <2>2. CASE \A h \in Procs : ~Holder(h)
    <3>1. Undisturbed(x) \/ Begun(x)
      BY <2>0, <2>2, HolderAlone
    <3> QED BY <1>2, <2>a, <3>1 DEF Undisturbed, Begun, Mid
  <2> QED BY <2>1, <2>2
<1> QED BY <1>1, <1>2 DEF FullJobs, JobDirs, Mid

-----------------------------------------------------------------------------
(* What a login counts.                                                    *)

\* The CPUs below a user cpuset are those of the user's job cpusets.
LEMMA KidIsJob ==
  ASSUME TreeOK, NEW u \in Users, NEW p \in dirs
  PROVE  p \in Kids(Top(u)) <=> Len(p) = 2 /\ p[1] = Top(u)[1]
<1>0. p \in Path /\ Top(u) \in Path /\ Len(Top(u)) = 1 /\ Top(u) # <<>>
  BY TopPath, TopDef DEF TreeOK, TreeType
<1>1. ASSUME p # <<>>, Parent(p) = Top(u) PROVE Len(p) = 2 /\ p[1] = Top(u)[1]
  <2>1. PathFact(p)
    BY <1>0, PathLen
  <2>2. /\ Len(p) \in {1, 2, 3, 4} /\ Len(p) # 1
        /\ Len(p) = 3 => Len(Parent(p)) = 2
        /\ Len(p) = 4 => Len(Parent(p)) = 3
    BY <1>0, <1>1, ParentFacts
  <2>3. Len(p) = 2
    BY <1>0, <1>1, <2>2
  <2> QED BY <1>1, <2>1, <2>3 DEF PathFact
<1>2. ASSUME Len(p) = 2, p[1] = Top(u)[1] PROVE p # <<>> /\ Parent(p) = Top(u)
  <2>1. p # <<>>
    BY <1>2, TupleLen
  <2>2. Parent(p) \in Path /\ Len(Parent(p)) = 1 /\ Parent(p)[1] = p[1]
    <3>1. Len(p) > 1
      BY <1>2
    <3>2. Parent(p)[1] = p[1]
      BY <1>0, <3>1, PathLen DEF PathFact
    <3> QED BY <1>0, <1>2, <2>1, <3>2, ParentFacts
  <2>3. Parent(p) = <<Parent(p)[1]>> /\ Top(u) = <<Top(u)[1]>>
    BY <1>0, <2>2, PathLen DEF PathFact
  <2> QED BY <1>2, <2>1, <2>2, <2>3
<1> QED BY <1>1, <1>2 DEF Kids

\* Counting is not disturbed by what leaves the job cpusets alone.
LEMMA CountedKept ==
  ASSUME NEW l \in Logins, TreeOK, Counted(l), dirs \subseteq dirs', UNCHANGED <<snap, count>>,
         \A p \in Path : Len(p) = 2 => cpus'[p] = cpus[p], snap \subseteq Jobs
  PROVE  Counted(l)'
<1> DEFINE u == LoginUser[l]
<1>0. u \in Users
  BY CpusetAssumption
<1>1. ASSUME NEW p \in Kids(Top(u)) PROVE p \in Kids(Top(u))' /\ cpus'[p] = cpus[p]
  <2>1. p \in dirs /\ p \in Path
    BY DEF Kids, TreeOK, TreeType
  <2>2. Len(p) = 2
    BY <1>0, <2>1, KidIsJob
  <2> QED BY <2>1, <2>2 DEF Kids, Top, Parent
<1>2. KidCpus(Top(u)) \subseteq KidCpus(Top(u))'
  BY <1>1 DEF KidCpus
<1>3. ASSUME NEW j \in snap PROVE cpus'[JobPath(j)] = cpus[JobPath(j)]
  BY JobPathFacts
<1>4. PICK S \in SUBSET KidCpus(Top(u)) :
             Cardinality(S) = count /\ \A j \in snap : S \cap cpus[JobPath(j)] = {}
  BY DEF Counted
<1>5. S \in SUBSET KidCpus(Top(u))'
  BY <1>2
<1>6. \A j \in snap' : S \cap cpus'[JobPath(j)] = {}
  BY <1>3, <1>4
<1>7. \A j \in snap' : Owner[j] = LoginUser[l]
  BY DEF Counted
<1>8. Cardinality(S) = count'
  BY <1>4
<1> HIDE DEF u
<1>9. \E T \in SUBSET KidCpus(Top(u))' :
         Cardinality(T) = count' /\ \A j \in snap' : T \cap cpus'[JobPath(j)] = {}
  BY <1>5, <1>6, <1>8
<1> QED BY <1>7, <1>9 DEF Counted, u, JobPath, Top

\* What is to hold of a login, at each point of its program.
Told(l) == pc[l] = "unlock_ok" => count <= Cardinality(cpus[Top(LoginUser[l])])
LoginOK(l) ==
  /\ RoomFor(l)
  /\ pc[l] \in Creating \cup {"scan"} => Counted(l)
  /\ Told(l)

\* A login outside create_all_job_cpusets has nothing to show.
LEMMA LoginIdle ==
  ASSUME NEW l, pc'[l] \notin Creating \cup {"scan", "unlock_ok"} PROVE LoginOK(l)'
BY DEF LoginOK, RoomFor, Told, Creating

\* ... load the list of jobs.
LEMMA LoadCounts ==
  ASSUME IInv, GrantInv, NEW l \in Logins, LoadJobs(l), ~CtldFails PROVE LoginOK(l)'
<1>0. pc \in [Procs -> HolderPC \cup FreePC] /\ l \in Procs /\ lock = l /\ pc[l] = "load"
  BY DEF IInv, TypeOK, Procs, LoadJobs
<1>1. /\ snap' = {j \in Jobs : Owner[j] = LoginUser[l] /\ job[j] = "running"}
      /\ pc'[l] = "scan" /\ count' = count
  BY <1>0 DEF LoadJobs, Goto
<1>2. count = 0
  BY <1>0 DEF GrantInv
<1>3. Counted(l)'
  <2>1. {} \in SUBSET KidCpus(Top(LoginUser[l]))' /\ Cardinality({}) = count'
    BY <1>1, <1>2, FS_EmptySet
  <2> QED BY <1>1, <2>1 DEF Counted
<1> QED BY <1>1, <1>3 DEF LoginOK, RoomFor, Told, Creating

\* Jobs have different cpusets.
LEMMA JobPathInj ==
  ASSUME NEW i \in Jobs, NEW j \in Jobs, JobPath(i) = JobPath(j) PROVE i = j
BY JobPathFacts

\* ... look at a job, which has a cpuset and is counted, or has none.
LEMMA ScanCounts ==
  ASSUME IInv, FullJobs, CountInv, NEW l \in Logins, ScanJob(l) PROVE LoginOK(l)'
<1> DEFINE u == LoginUser[l]
<1>0. /\ pc \in [Procs -> HolderPC \cup FreePC] /\ l \in Procs /\ lock = l /\ pc[l] = "scan"
      /\ u \in Users /\ snap \subseteq Jobs /\ TreeOK /\ cpus \in [Path -> SUBSET CPU]
      /\ UNCHANGED <<dirs, cpus>> /\ count \in Nat /\ TreeInv /\ Exclusive
  BY CpusetAssumption, IInvTree DEF IInv, TypeOK, Procs, ScanJob, TreeOK
<1>1. PICK j \in snap :
        /\ snap' = snap \ {j}
        /\ \/ JobPath(j) \in dirs /\ count' = count + JobCpus[j] /\ UNCHANGED <<pc, target>>
           \/ JobPath(j) \notin dirs /\ target' = JobPath(j) /\ Goto(l, "create") /\ UNCHANGED count
  BY DEF ScanJob
<1>2. Counted(l)
  BY <1>0 DEF CountInv
<1>3. PICK S \in SUBSET KidCpus(Top(u)) :
             Cardinality(S) = count /\ \A i \in snap : S \cap cpus[JobPath(i)] = {}
  BY <1>2 DEF Counted
<1>4. /\ j \in Jobs /\ Owner[j] = u /\ \A i \in snap' : Owner[i] = u
      /\ JobPath(j) \in Path /\ Len(JobPath(j)) = 2 /\ JobPath(j)[1] = Top(u)[1]
      /\ JobPath(j)[2] = j /\ InJob(JobPath(j))
  <2>1. j \in Jobs /\ Owner[j] = u /\ \A i \in snap' : Owner[i] = u
    BY <1>0, <1>1, <1>2 DEF Counted
  <2>2. /\ JobPath(j) \in Path /\ Len(JobPath(j)) = 2 /\ JobPath(j)[1] = Top(Owner[j])[1]
        /\ JobPath(j)[2] = j /\ InJob(JobPath(j))
    BY <2>1, JobPathFacts
  <2> QED BY <2>1, <2>2
<1>5. \A i \in snap' : i \in Jobs /\ i # j /\ JobPath(i) # JobPath(j)
  <2>1. ASSUME NEW i \in snap' PROVE i \in Jobs /\ i # j /\ JobPath(i) # JobPath(j)
    <3>1. i \in Jobs /\ i # j
      BY <1>0, <1>1, <2>1
    <3> QED BY <1>4, <3>1, JobPathInj
  <2> QED BY <2>1
<1>6. KidCpus(Top(u))' = KidCpus(Top(u))
  BY <1>0 DEF KidCpus, Kids, Top, Parent
<1> HIDE DEF u
<1>7. CASE JobPath(j) \in dirs /\ count' = count + JobCpus[j] /\ UNCHANGED <<pc, target>>
  <2> DEFINE T == S \cup cpus[JobPath(j)]
  <2>1. cpus[JobPath(j)] \subseteq KidCpus(Top(u))
    <3>1. JobPath(j) \in Kids(Top(u))
      BY <1>0, <1>4, <1>7, KidIsJob
    <3> QED BY <3>1 DEF KidCpus
  <2>2. T \in SUBSET KidCpus(Top(u))'
    BY <1>6, <2>1
  <2>3. Cardinality(T) = count'
    <3>1. S \in SUBSET CPU /\ cpus[JobPath(j)] \in SUBSET CPU
      BY <1>0, <1>4, KidCpusType
    <3>2. IsFiniteSet(S) /\ IsFiniteSet(cpus[JobPath(j)])
      BY <3>1, CpusFinite
    <3>3. Cardinality(T) = Cardinality(S) + Cardinality(cpus[JobPath(j)]) - Cardinality(S \cap cpus[JobPath(j)])
      BY <3>2, FS_Union
    <3>4. Cardinality(S \cap cpus[JobPath(j)]) = 0
      BY <1>1, <1>3, FS_EmptySet
    <3>5. Cardinality(cpus[JobPath(j)]) = JobCpus[j] /\ JobCpus[j] \in Nat
      BY <1>4, <1>7, CpusetAssumption DEF FullJobs
    <3> QED BY <1>0, <1>3, <1>7, <3>3, <3>4, <3>5
  <2>4. ASSUME NEW i \in snap' PROVE T \cap cpus'[JobPath(i)] = {}
    <3>1. i \in snap /\ i \in Jobs /\ JobPath(i) # JobPath(j)
      BY <1>1, <1>5
    <3>2. JobPath(i) \in Path /\ InJob(JobPath(i)) /\ Len(JobPath(i)) = 2
      BY <3>1, JobPathFacts
    <3>3. cpus[JobPath(i)] \cap cpus[JobPath(j)] = {}
      <4>1. CASE JobPath(i) \in dirs
        BY <1>0, <1>4, <1>7, <3>1, <3>2, <4>1 DEF Exclusive
      <4>2. CASE JobPath(i) \notin dirs
        BY <1>0, <3>2, <4>2 DEF TreeInv
      <4> QED BY <4>1, <4>2
    <3> QED BY <1>0, <1>3, <3>1, <3>3
  <2> HIDE DEF T
  <2>5. Counted(l)'
    BY <1>4, <2>2, <2>3, <2>4 DEF Counted, u, JobPath, Top
  <2> QED BY <1>0, <1>7, <2>5 DEF LoginOK, RoomFor, Told, Creating
<1>8. CASE JobPath(j) \notin dirs /\ target' = JobPath(j) /\ Goto(l, "create") /\ UNCHANGED count
  <2>1. pc'[l] = "create"
    BY <1>0, <1>8 DEF Goto
  <2>2. Counted(l)'
    <3>1. S \in SUBSET KidCpus(Top(u))' /\ Cardinality(S) = count'
      BY <1>3, <1>6, <1>8
    <3>2. \A i \in snap' : S \cap cpus'[JobPath(i)] = {}
      BY <1>0, <1>1, <1>3
    <3> QED BY <1>4, <3>1, <3>2 DEF Counted, u, JobPath, Top
  <2>3. RoomFor(l)'
    <3>1. target' \notin dirs' /\ target'[1] = Top(u)[1] /\ \A i \in snap' : target' # JobPath(i)
      BY <1>0, <1>4, <1>5, <1>8
    <3> QED BY <2>1, <3>1 DEF RoomFor, u, Top, JobPath
  <2> QED BY <2>1, <2>2, <2>3 DEF LoginOK, Told
<1> QED BY <1>1, <1>7, <1>8

\* ... allocate CPUs for a job that has no cpuset.
LEMMA CreateCounts ==
  ASSUME IInv, CountInv, RoomInv, NEW l \in Logins, CreateCpuset(l) PROVE LoginOK(l)'
<1>0. /\ pc \in [Procs -> HolderPC \cup FreePC] /\ l \in Procs /\ lock = l /\ pc[l] = "create"
      /\ UNCHANGED <<dirs, cpus, target, snap, count>> /\ TreeOK /\ snap \subseteq Jobs
  BY IInvTree DEF IInv, TypeOK, Procs, CreateCpuset
<1>1. Counted(l) /\ RoomFor(l)
  BY <1>0 DEF CountInv, RoomInv, Creating
<1>2. Counted(l)'
  BY <1>0, <1>1, CountedKept
<1>3. Len(target) = 2
  BY <1>0, JobPathFacts DEF IInv, LoginShape
<1>4. pc'[l] \in {"scan", "userdir"}
  BY <1>0, <1>3 DEF CreateCpuset, Goto, CreateFailed
<1>5. RoomFor(l)'
  BY <1>0, <1>1, <1>4 DEF RoomFor, Creating, Top, JobPath
<1> QED BY <1>2, <1>4, <1>5 DEF LoginOK, Told

\* What a login is creating is the cpuset of a job of its user.
LEMMA LoginTarget ==
  ASSUME IInv, RoomInv, NEW l \in Logins, lock = l, pc[l] \in Creating
  PROVE  /\ target[1].uid = LoginUser[l] /\ Len(target) = 2 /\ InJob(target)
         /\ target[2] \in Jobs /\ Parent(target) = Top(LoginUser[l]) /\ LoginUser[l] \in Users
<1>1. PICK j \in Jobs : target = JobPath(j)
  BY DEF IInv, LoginShape, Creating
<1>2. target[1] = Top(LoginUser[l])[1]
  BY DEF RoomInv, RoomFor
<1>3. LoginUser[l] \in Users /\ Top(LoginUser[l])[1].uid = LoginUser[l]
  BY CpusetAssumption DEF Top
<1>4. /\ target \in Path /\ Len(target) = 2 /\ InJob(target) /\ target[2] = j
      /\ target = PathOfJob(j, FALSE)
  BY <1>1, JobPathFacts
<1>5. Parent(target) = <<target[1]>>
  <2>1. target = <<JobTop(j, FALSE), j>>
    BY <1>4 DEF PathOfJob
  <2>2. Parent(target) = <<JobTop(j, FALSE)>>
    BY <2>1, TupleParent
  <2>3. target[1] = JobTop(j, FALSE)
    BY <2>1, TupleLen
  <2> QED BY <2>2, <2>3
<1>6. Top(LoginUser[l]) = <<Top(LoginUser[l])[1]>>
  BY DEF Top
<1> QED BY <1>2, <1>3, <1>4, <1>5, <1>6

\* ... make the user cpuset, or take back the orphan.
LEMMA UserDirCounts ==
  ASSUME IInv, FullJobs, CountInv, RoomInv, NEW l \in Logins, UserCpusetDir(l) PROVE LoginOK(l)'
<1> DEFINE u == LoginUser[l]
<1>0. /\ pc \in [Procs -> HolderPC \cup FreePC] /\ l \in Procs /\ lock = l /\ pc[l] = "userdir"
      /\ UNCHANGED <<target, snap, count>> /\ TreeOK /\ snap \subseteq Jobs /\ pc'[l] = "usermod"
      /\ cpus \in [Path -> SUBSET CPU]
  BY IInvTree DEF IInv, TypeOK, Procs, UserCpusetDir, Goto, TreeOK, TreeType
<1>1. Counted(l) /\ RoomFor(l)
  BY <1>0 DEF CountInv, RoomInv, Creating
<1>2. target[1].uid = u /\ Len(target) = 2 /\ u \in Users
  BY <1>0, LoginTarget DEF Creating
<1>3. JobsKept /\ Top(u) \in dirs' /\ ((dirs \subseteq dirs' /\ cpus' = cpus) \/ KidCpus(Top(u)) = {})
  BY <1>0, <1>2, UserDirJobs
<1>4. Counted(l)'
  <2>1. CASE dirs \subseteq dirs' /\ cpus' = cpus
    BY <1>0, <1>1, <2>1, CountedKept
  <2>2. CASE KidCpus(Top(u)) = {}
    <3>1. PICK S \in SUBSET KidCpus(Top(u)) : Cardinality(S) = count
      BY <1>1 DEF Counted
    <3>2. S = {}
      BY <2>2
    <3>3. {} \in SUBSET KidCpus(Top(u))' /\ Cardinality({}) = count'
      BY <1>0, <3>1, <3>2
    <3>4. \A j \in snap' : Owner[j] = LoginUser[l]
      BY <1>0, <1>1 DEF Counted
    <3> QED BY <3>3, <3>4 DEF Counted
  <2> QED BY <1>3, <2>1, <2>2
<1>5. RoomFor(l)'
  <2>1. target' \notin dirs'
    <3>1. target \notin dirs
      BY <1>0, <1>1 DEF RoomFor, Creating
    <3> QED BY <1>0, <1>2, <1>3, <3>1 DEF JobsKept
  <2>2. target'[1] = Top(u)[1] /\ \A j \in snap' : target' # JobPath(j)
    BY <1>0, <1>1 DEF RoomFor, Creating
  <2> QED BY <1>0, <1>3, <2>1, <2>2 DEF RoomFor, Top, JobPath
<1> QED BY <1>0, <1>4, <1>5 DEF LoginOK, Told

\* ... give the user cpuset the CPUs of the new job.
LEMMA UserModifyCounts ==
  ASSUME IInv, FullJobs, CountInv, RoomInv, NEW l \in Logins, UserCpusetModify(l) PROVE LoginOK(l)'
<1> DEFINE u == LoginUser[l]
           used == (IF unorphan THEN {} ELSE KidCpus(Top(u))) \cup alloc
<1>0. /\ pc \in [Procs -> HolderPC \cup FreePC] /\ l \in Procs /\ lock = l /\ pc[l] = "usermod"
      /\ UNCHANGED <<target, snap, count, alloc>> /\ TreeOK /\ snap \subseteq Jobs
      /\ cpus \in [Path -> SUBSET CPU] /\ alloc \in SUBSET CPU
  BY IInvTree DEF IInv, TypeOK, Procs, UserCpusetModify, held, TreeOK, TreeType
<1>1. Counted(l) /\ RoomFor(l)
  BY <1>0 DEF CountInv, RoomInv, Creating
<1>2. target[1].uid = u /\ Len(target) = 2 /\ u \in Users /\ target[2] \in Jobs
  BY <1>0, LoginTarget DEF Creating
<1>3. UserCpusetUpdate(l, u, used, "mkdir", CreateFailed(l))
  BY <1>2 DEF UserCpusetModify
<1>4. alloc # {}
  <2>1. Cardinality(alloc) = JobCpus[target[2]]
    BY <1>0, <1>2 DEF FullJobs
  <2>2. JobCpus[target[2]] \in Nat \ {0}
    BY <1>2, CpusetAssumption
  <2> QED BY <1>0, <2>1, <2>2, CpusFinite
<1>5. used # {} /\ alloc \subseteq used
  BY <1>4
<1> HIDE DEF used
<1>6. /\ dirs' = dirs
      /\ \/ pc'[l] = "mkdir" /\ cpus' = [cpus EXCEPT ![Top(u)] = used]
         \/ pc'[l] \in {"scan", "usermod"} /\ cpus' = cpus
  <2>1. /\ dirs' = dirs
        /\ LET rc == ModifyResult(Top(u), used) IN
           /\ Goto(l, CASE rc = "ok" -> "mkdir" [] rc = "EACCES" -> CreateFailed(l)
                     [] OTHER -> pc[l])
           /\ cpus' = IF rc = "ok" THEN [cpus EXCEPT ![Top(u)] = used] ELSE cpus
    BY <1>3, <1>5 DEF UserCpusetUpdate
  <2>2. ModifyResult(Top(u), used) \in {"ok", "EACCES", "EBUSY"}
    BY DEF ModifyResult
  <2> HIDE DEF u
  <2> QED BY <1>0, <2>1, <2>2 DEF Goto, CreateFailed
<1>7. Top(u) \in Path /\ Len(Top(u)) = 1
  BY <1>2, TopPath, TopDef
<1>8. Counted(l)'
  <2>1. \A p \in Path : Len(p) = 2 => cpus'[p] = cpus[p]
    BY <1>0, <1>6, <1>7
  <2> QED BY <1>0, <1>1, <1>6, <2>1, CountedKept
<1>9. RoomFor(l)'
  <2>1. target' \notin dirs' /\ target'[1] = Top(u)[1] /\ \A j \in snap' : target' # JobPath(j)
    BY <1>0, <1>1, <1>6 DEF RoomFor, Creating
  <2>2. Top(u) \in dirs'
    BY <1>0, <1>1, <1>6 DEF RoomFor
  <2>3. pc'[l] = "mkdir" => alloc' \subseteq cpus'[Top(u)]
    BY <1>0, <1>5, <1>6, <1>7
  <2> QED BY <2>1, <2>2, <2>3 DEF RoomFor, Top, JobPath
<1> QED BY <1>6, <1>8, <1>9 DEF LoginOK, Told

\* ... make the job's cpuset and count it.
LEMMA MkdirCounts ==
  ASSUME IInv, FullJobs, CountInv, RoomInv, NEW l \in Logins, JobCpusetCreate(l) PROVE LoginOK(l)'
<1> DEFINE u == LoginUser[l]
<1>0. /\ pc \in [Procs -> HolderPC \cup FreePC] /\ l \in Procs /\ lock = l /\ pc[l] = "mkdir"
      /\ UNCHANGED <<target, snap>> /\ TreeOK /\ snap \subseteq Jobs /\ count \in Nat
      /\ cpus \in [Path -> SUBSET CPU] /\ alloc \in SUBSET CPU /\ target \in Path /\ AllocInv
      /\ TreeInv
  BY IInvTree DEF IInv, TypeOK, Procs, JobCpusetCreate, TreeOK, TreeType
<1>1. Counted(l) /\ RoomFor(l)
  BY <1>0 DEF CountInv, RoomInv, Creating
<1>2. /\ Len(target) = 2 /\ u \in Users /\ target[2] \in Jobs /\ Parent(target) = Top(u)
      /\ InJob(target)
  BY <1>0, LoginTarget DEF Creating
<1>3. /\ target \notin dirs /\ target[1] = Top(u)[1] /\ Top(u) \in dirs /\ alloc \subseteq cpus[Top(u)]
      /\ \A j \in snap : target # JobPath(j)
  BY <1>0, <1>1 DEF RoomFor, Creating
<1>4. /\ dirs' = dirs \cup {target} /\ cpus' = [cpus EXCEPT ![target] = alloc]
      /\ count' = count + JobCpus[target[2]] /\ pc'[l] = "scan"
  BY <1>0, <1>2, <1>3 DEF JobCpusetCreate, Goto
<1>5. Cardinality(alloc) = JobCpus[target[2]] /\ JobCpus[target[2]] \in Nat
  BY <1>0, <1>2, CpusetAssumption DEF FullJobs
<1>6. \A p \in dirs : Len(p) = 2 => alloc \cap cpus[p] = {}
  BY <1>0, <1>2 DEF AllocInv
<1>7. PICK S \in SUBSET KidCpus(Top(u)) :
             Cardinality(S) = count /\ \A i \in snap : S \cap cpus[JobPath(i)] = {}
  BY <1>1 DEF Counted
<1> DEFINE T == S \cup alloc
<1> HIDE DEF u
<1>8. S \cap alloc = {}
  <2>1. ASSUME NEW p \in Kids(Top(u)) PROVE alloc \cap cpus[p] = {}
    <3>1. p \in dirs
      BY DEF Kids
    <3>2. Len(p) = 2
      BY <1>0, <1>2, <3>1, KidIsJob
    <3> QED BY <1>6, <3>1, <3>2
  <2> QED BY <2>1 DEF KidCpus
<1>9. T \in SUBSET KidCpus(Top(u))'
  <2>1. ASSUME NEW p \in Kids(Top(u)) PROVE p \in Kids(Top(u))' /\ cpus'[p] = cpus[p]
    <3>1. p \in dirs /\ p # target /\ p \in Path
      BY <1>0, <1>3 DEF Kids, TreeOK, TreeType
    <3> QED BY <1>0, <1>4, <3>1 DEF Kids, Top, Parent
  <2>2. target \in Kids(Top(u))' /\ cpus'[target] = alloc
    <3>1. target # <<>>
      BY <1>0, <1>2, InJobFacts
    <3> QED BY <1>0, <1>2, <1>4, <3>1 DEF Kids, Top, Parent
  <2> QED BY <2>1, <2>2 DEF KidCpus
<1>10. Cardinality(T) = count'
  <2>1. S \in SUBSET CPU
    BY <1>0, KidCpusType
  <2>2. IsFiniteSet(S) /\ IsFiniteSet(alloc)
    BY <1>0, <2>1, CpusFinite
  <2>3. Cardinality(T) = Cardinality(S) + Cardinality(alloc) - Cardinality(S \cap alloc)
    BY <2>2, FS_Union
  <2>4. Cardinality(S \cap alloc) = 0
    BY <1>8, FS_EmptySet
  <2> QED BY <1>0, <1>4, <1>5, <1>7, <2>3, <2>4
<1>11. ASSUME NEW i \in snap' PROVE T \cap cpus'[JobPath(i)] = {} /\ Owner[i] = u
  <2>1. i \in snap /\ i \in Jobs /\ JobPath(i) # target
    BY <1>0, <1>3
  <2>2. JobPath(i) \in Path /\ InJob(JobPath(i)) /\ Len(JobPath(i)) = 2
    BY <2>1, JobPathFacts
  <2>3. cpus'[JobPath(i)] = cpus[JobPath(i)]
    BY <1>0, <1>4, <2>1, <2>2
  <2>4. alloc \cap cpus[JobPath(i)] = {}
    <3>1. CASE JobPath(i) \in dirs
      BY <1>6, <2>2, <3>1
    <3>2. CASE JobPath(i) \notin dirs
      BY <1>0, <2>2, <3>2 DEF TreeInv
    <3> QED BY <3>1, <3>2
  <2> QED BY <1>1, <1>7, <2>1, <2>3, <2>4 DEF Counted, u
<1> HIDE DEF T
<1>12. Counted(l)'
  BY <1>9, <1>10, <1>11 DEF Counted, u, JobPath, Top
<1> QED BY <1>4, <1>12 DEF LoginOK, RoomFor, Told, Creating

\* ... and enter the user cpuset, which has all the CPUs counted.
LEMMA ScanDoneTold ==
  ASSUME IInv, CountInv, NEW l \in Logins, ScanDone(l) PROVE LoginOK(l)'
<1> DEFINE u == LoginUser[l]
<1>0. /\ pc \in [Procs -> HolderPC \cup FreePC] /\ l \in Procs /\ lock = l /\ pc[l] = "scan"
      /\ UNCHANGED <<dirs, cpus, count>> /\ TreeOK /\ TreeInv /\ u \in Users
      /\ cpus \in [Path -> SUBSET CPU] /\ pc'[l] \in {"unlock_ok", "unlock_fail"}
  BY IInvTree, CpusetAssumption DEF IInv, TypeOK, Procs, ScanDone, Goto, held, TreeOK, TreeType
<1>1. PICK S \in SUBSET KidCpus(Top(u)) : Cardinality(S) = count
  BY <1>0 DEF CountInv, Counted
<1>2. KidCpus(Top(u)) \subseteq cpus[Top(u)]
  <2>1. ASSUME NEW p \in Kids(Top(u)) PROVE cpus[p] \subseteq cpus[Top(u)]
    <3>1. p \in dirs /\ p \in Path /\ p # <<>> /\ Parent(p) = Top(u)
      BY <1>0 DEF Kids, TreeOK, TreeType
    <3>2. InJob(p)
      BY <1>0, <3>1, KidIsJob, InJobFacts
    <3> QED BY <1>0, <3>1, <3>2 DEF TreeInv
  <2> QED BY <2>1 DEF KidCpus
<1>3. Top(u) \in Path
  BY <1>0, TopPath, TopDef
<1>4. cpus[Top(u)] \in SUBSET CPU
  BY <1>0, <1>3
<1>5. IsFiniteSet(cpus[Top(u)])
  BY <1>4, CpusFinite
<1>6. Cardinality(S) <= Cardinality(cpus[Top(u)])
  BY <1>1, <1>2, <1>5, FS_Subset
<1>7. Told(l)'
  BY <1>0, <1>1, <1>6 DEF Told, Top
<1> QED BY <1>0, <1>7 DEF LoginOK, RoomFor, Creating

-----------------------------------------------------------------------------
(* The theorem.                                                            *)

Early == {"initslurm", "failing", "clean", "update", "load"}

\* Every step of the holder preserves GrantInv, and a login that holds the
\* lock comes to no harm by what it does itself.
LEMMA HolderLogin ==
  ASSUME IInv, FullJobs, RoomInv, CountInv, GrantInv, ~CtldFails, NEW h \in Procs, Holder(h)
  PROVE  /\ count' # 0 => h \in Logins /\ lock' = h /\ pc'[h] \notin Early
         /\ h \in Logins => LoginOK(h)'
<1>0. /\ pc \in [Procs -> HolderPC \cup FreePC] /\ lock = h /\ PcOK /\ h # Nobody
      /\ count \in Nat
      /\ count # 0 => h \in Logins /\ pc[h] \notin Early
  BY HolderLock, NobodyFacts DEF IInv, TypeOK, PcOK, GrantInv, Early
<1>1. CASE InitSlurm(h) \/ CleanDone(h) \/ UpdateDone(h)
  <2>1. count' = count
    BY <1>1 DEF InitSlurm, CleanDone, UpdateDone, held
  <2>2. h \in Logins => pc[h] \in Early /\ pc'[h] \in {"update", "load", "failing"}
    <3>1. h \in Logins => pc[h] # "update2" /\ h \notin Steps
      BY <1>0, CpusetAssumption DEF IInv, LoginShape
    <3> QED BY <1>0, <1>1, <3>1 DEF InitSlurm, CleanDone, UpdateDone, Goto, AfterClean, Early
  <2>3. h \in Logins => LoginOK(h)'
    BY <2>2, LoginIdle DEF Creating
  <2> QED BY <1>0, <2>1, <2>2, <2>3
<1>2. CASE SlurmCpusetClean(h)
  <2>1. count' = count /\ pc' = pc /\ pc[h] = "clean"
    BY <1>2 DEF SlurmCpusetClean
  <2>2. LoginOK(h)'
    BY <2>1, LoginIdle DEF Creating
  <2> QED BY <1>0, <2>1, <2>2 DEF Early
<1>3. CASE UpdateUserCpusets(h)
  <2>1. count' = count
    BY <1>3 DEF UpdateUserCpusets
  <2>2. pc'[h] = pc[h] /\ pc[h] \in {"update", "update2"}
    BY <1>0, <1>3, UpdateSamePc
  <2>3. LoginOK(h)'
    BY <2>2, LoginIdle DEF Creating
  <2>4. h \in Logins => pc[h] # "update2"
    BY <1>0 DEF IInv, LoginShape
  <2> QED BY <1>0, <2>1, <2>2, <2>3, <2>4 DEF Early
<1>4. CASE CreateCpuset(h)
  <2>1. count' = count /\ lock' = h /\ pc'[h] \notin Early
    BY <1>0, <1>4 DEF CreateCpuset, Goto, CreateFailed, Early
  <2> QED BY <1>0, <1>4, <2>1, CreateCounts
<1>5. CASE UserCpusetDir(h)
  <2>1. count' = count /\ lock' = h /\ pc'[h] \notin Early
    BY <1>0, <1>5 DEF UserCpusetDir, Goto, Early
  <2> QED BY <1>0, <1>5, <2>1, UserDirCounts
<1>6. CASE UserCpusetModify(h)
  <2>1. count' = count /\ lock' = h /\ pc[h] = "usermod"
    BY <1>0, <1>6 DEF UserCpusetModify, held
  <2>2. \E u, used : UserCpusetUpdate(h, u, used, "mkdir", CreateFailed(h))
    BY <1>6 DEF UserCpusetModify
  <2>3. pc'[h] \in {"mkdir", CreateFailed(h), pc[h]}
    BY <1>0, <2>2 DEF UserCpusetUpdate, OrphanUser, KillOrphan, Goto
  <2>4. pc'[h] \notin Early
    BY <2>1, <2>3 DEF CreateFailed, Early
  <2> QED BY <1>0, <1>6, <2>1, <2>4, UserModifyCounts
<1>7. CASE JobCpusetCreate(h)
  <2>1. lock' = h /\ pc'[h] \notin Early
    BY <1>0, <1>7 DEF JobCpusetCreate, Goto, CreateFailed, Early
  <2>2. h \notin Logins => count' = count
    BY <1>7 DEF JobCpusetCreate
  <2> QED BY <1>0, <1>7, <2>1, <2>2, MkdirCounts
<1>8. CASE Migrate(h)
  <2>1. h \notin Logins /\ count' = count
    BY <1>8, CpusetAssumption DEF Migrate, held
  <2> QED BY <1>0, <2>1
<1>9. CASE Unlock(h)
  <2>1. count' = 0
    BY <1>9 DEF Unlock, ResetHeld
  <2>2. pc'[h] \notin Creating \cup {"scan", "unlock_ok"}
    BY <1>0, <1>9 DEF Unlock, Goto, AfterUnlock, Creating
  <2> QED BY <2>1, <2>2, LoginIdle
<1>10. CASE h \in Logins /\ LoadJobs(h)
  <2>1. lock' = h /\ pc'[h] \notin Early
    BY <1>0, <1>10 DEF LoadJobs, Goto, Early
  <2> QED BY <1>10, <2>1, LoadCounts
<1>11. CASE h \in Logins /\ ScanJob(h)
  <2>1. lock' = h /\ pc'[h] \notin Early
    BY <1>0, <1>11 DEF ScanJob, Goto, Early
  <2> QED BY <1>11, <2>1, ScanCounts
<1>12. CASE h \in Logins /\ ScanDone(h)
  <2>1. lock' = h /\ pc'[h] \notin Early
    BY <1>0, <1>12 DEF ScanDone, Goto, Early
  <2> QED BY <1>12, <2>1, ScanDoneTold
<1> QED
  BY <1>1, <1>2, <1>3, <1>4, <1>5, <1>6, <1>7, <1>8, <1>9, <1>10, <1>11, <1>12 DEF Holder

\* The inductive invariant, under a controller that answers.
LoginInv == IInv /\ (LInv /\ (~CtldFails => LoginCpus))

LEMMA LoginParts ==
  ASSUME ~CtldFails, IInv
  PROVE  LoginInv <=> FullJobs /\ GrantInv /\ \A l \in Logins : LoginOK(l)
BY DEF LoginInv, LInv, RoomInv, CountInv, LoginCpus, LoginOK, Told

\* It survives every step.
LEMMA LoginStep ==
  ASSUME LoginInv, Next, ~CtldFails PROVE LoginInv'
<1>0. /\ IInv /\ IInv' /\ PcOK' /\ FullJobs /\ RoomInv /\ CountInv /\ GrantInv
      /\ \A l \in Logins : LoginOK(l)
  BY NextInv, PcStep, LoginParts DEF LoginInv, LInv
<1>1. FullJobs'
  BY <1>0, FullStep
<1>2. ASSUME NEW l \in Logins, lock' # l PROVE LoginOK(l)'
  <2>1. pc'[l] \notin HolderPC
    BY <1>0, <1>2 DEF PcOK, Procs
  <2> QED BY <2>1, LoginIdle DEF Creating, HolderPC
<1>3. CASE \E h \in Procs : Holder(h)
  <2>1. PICK h \in Procs : Holder(h)
    BY <1>3
  <2>2. /\ count' # 0 => h \in Logins /\ lock' = h /\ pc'[h] \notin Early
        /\ h \in Logins => LoginOK(h)'
    BY <1>0, <2>1, HolderLogin
  <2>3. GrantInv'
    BY <2>2 DEF GrantInv, Early
  <2>4. ASSUME NEW l \in Logins PROVE LoginOK(l)'
    <3>1. CASE l = h
      BY <2>2, <3>1
    <3>2. CASE l # h
      <4>1. l # Nobody
        BY NobodyFacts DEF Procs
      <4>2. lock' # l
        BY <2>1, <3>2, <4>1, HolderLock
      <4> QED BY <1>2, <4>2
    <3> QED BY <3>1, <3>2
  <2> QED BY <1>0, <1>1, <2>3, <2>4 DEF LoginInv, LInv, RoomInv, CountInv, LoginCpus, LoginOK, Told
<1>4. CASE \A h \in Procs : ~Holder(h)
  <2>1. GrantInv'
    <3>1. SUFFICES ASSUME count' # 0
                   PROVE  \E l \in Logins : lock' = l /\ pc'[l] \notin Early
      BY DEF GrantInv, Early
    <3>2. count' = count /\ (lock' = lock \/ lock = Nobody)
      BY <1>0, <1>4, <3>1, OthersCount
    <3>3. PICK l \in Logins : lock = l /\ pc[l] \notin Early
      BY <1>0, <3>1, <3>2 DEF GrantInv, Early
    <3>4. l \in Procs /\ l # Nobody
      BY NobodyFacts DEF Procs
    <3>5. Undisturbed(l)
      BY <1>0, <1>4, <3>2, <3>3, <3>4, HolderAlone
    <3> QED BY <3>2, <3>3, <3>4, <3>5 DEF Undisturbed
  <2>2. ASSUME NEW l \in Logins, lock' = l PROVE LoginOK(l)'
    <3>0. l \in Procs /\ l \notin Steps
      BY CpusetAssumption DEF Procs
    <3>1. CASE Undisturbed(l)
      <4>1. RoomFor(l)'
        BY <1>0, <3>1 DEF Undisturbed, LoginOK, RoomFor, Top, JobPath
      <4>2. ASSUME pc'[l] \in Creating \cup {"scan"} PROVE Counted(l)'
        <5>1. Counted(l) /\ TreeOK /\ snap \subseteq Jobs
          BY <1>0, <3>1, <4>2, IInvTree DEF Undisturbed, LoginOK, IInv, TypeOK
        <5> QED BY <3>1, <5>1, CountedKept DEF Undisturbed
      <4>3. Told(l)'
        BY <1>0, <3>1 DEF Undisturbed, LoginOK, Told, Top
      <4> QED BY <4>1, <4>2, <4>3 DEF LoginOK
    <3>2. CASE Begun(l)
      BY <3>0, <3>2, LoginIdle DEF Begun, Creating
    <3> QED BY <1>0, <1>4, <2>2, <3>0, <3>1, <3>2, HolderAlone
  <2> QED BY <1>0, <1>1, <1>2, <2>1, <2>2 DEF LoginInv, LInv, RoomInv, CountInv, LoginCpus, LoginOK, Told
<1> QED BY <1>3, <1>4

\* Nobody has logged in at first.
LEMMA LoginInit ==
  ASSUME Init PROVE LoginInv
<1>0. IInv
  BY InitInv
<1>1. /\ \A p \in dirs : p = <<>>
      /\ \A x \in Procs : pc[x] \in {"idle", "new"}
      /\ count = 0
  BY DEF Init
<1>2. FullJobs
  <2>1. Len(<<>>) # 2
    BY TupleLen
  <2> QED BY <1>1, <2>1 DEF FullJobs
<1>3. RoomInv /\ CountInv /\ LoginCpus /\ GrantInv
  <2>1. \A l \in Logins : pc[l] \in {"idle", "new"}
    BY <1>1 DEF Procs
  <2> QED BY <1>1, <2>1 DEF RoomInv, RoomFor, CountInv, LoginCpus, GrantInv, Creating
<1> QED BY <1>0, <1>2, <1>3 DEF LoginInv, LInv

\* The invariant survives a step that changes nothing.
LEMMA LoginStutter ==
  ASSUME LoginInv, UNCHANGED vars PROVE LoginInv'
<1>0. UNCHANGED <<dirs, cpus, pc, lock, target, alloc, snap, count>>
  BY DEF vars, held
<1>1. IInv'
  BY StutterInv DEF LoginInv
<1>2. FullJobs' = FullJobs /\ GrantInv' = GrantInv
  BY <1>0 DEF FullJobs, GrantInv
<1>3. RoomInv' = RoomInv
  BY <1>0 DEF RoomInv, RoomFor, Top, JobPath
<1>4. CountInv' = CountInv
  BY <1>0 DEF CountInv, Counted, KidCpus, Kids, Top, JobPath, Parent
<1>5. LoginCpus' = LoginCpus
  BY <1>0 DEF LoginCpus, EmptyJob, JobPath, Top
<1> QED BY <1>1, <1>2, <1>3, <1>4, <1>5 DEF LoginInv, LInv

\* In every reachable state, job cpusets have their CPUs and logins their count.
THEOREM LoginInvariance == Spec => []LoginInv
<1>1. Init => LoginInv
  BY LoginInit
<1>2. LoginInv /\ [Next]_vars => LoginInv'
  <2>1. ASSUME LoginInv, Next PROVE LoginInv'
    <3>1. CASE ~CtldFails
      BY <2>1, <3>1, LoginStep
    <3>2. CASE CtldFails
      BY <2>1, <3>2, NextInv DEF LoginInv, LInv
    <3> QED BY <3>1, <3>2
  <2> QED BY <2>1, LoginStutter
<1> QED BY <1>1, <1>2, PTL DEF Spec

\* The count of pam_slurm_cpuset is honest, while the controller answers: when
\* create_all_job_cpusets returns successfully, the user cpuset that the login
\* enters has at least as many CPUs as the user is told, whatever steps, other
\* logins and the release agent did before, and whoever crashed on the way.
THEOREM LoginHasItsCpus == Spec => [](~CtldFails => LoginCpus)
<1>1. LoginInv => (~CtldFails => LoginCpus)
  BY DEF LoginInv
<1> QED BY <1>1, LoginInvariance, PTL

-----------------------------------------------------------------------------
(* What the controller gives to a set of jobs.                             *)

\* The grant of one job has as many elements as the job has CPUs.
LEMMA GrantsOne ==
  ASSUME NEW j \in Jobs
  PROVE  IsFiniteSet(Grants({j})) /\ Cardinality(Grants({j})) = JobCpus[j]
<1> DEFINE n == JobCpus[j]
           f == [i \in 1 .. n |-> <<j, i>>]
<1>1. n \in Nat
  BY CpusetAssumption
<1>2. Grants({j}) = {j} \X (1 .. n)
  BY DEF Grants
<1>3. f \in Bijection(1 .. n, Grants({j}))
  <2>1. f \in [1 .. n -> Grants({j})]
    BY <1>2
  <2>2. \A i, k \in 1 .. n : f[i] = f[k] => i = k
    OBVIOUS
  <2>3. \A g \in Grants({j}) : \E i \in 1 .. n : f[i] = g
    BY <1>2
  <2> QED BY <2>1, <2>2, <2>3 DEF Bijection, Injection, Surjection, IsInjective
<1>4. ExistsBijection(1 .. n, Grants({j}))
  BY <1>3 DEF ExistsBijection
<1> QED BY <1>1, <1>4, FS_NatBijection, FS_CountingElements

\* Fewer jobs have fewer CPUs.
LEMMA GrantsMono ==
  ASSUME NEW T, IsFiniteSet(Grants(T)), NEW S \in SUBSET T
  PROVE  IsFiniteSet(Grants(S)) /\ Cardinality(Grants(S)) <= Cardinality(Grants(T))
<1>1. Grants(S) \in SUBSET Grants(T)
  BY DEF Grants
<1> QED BY <1>1, FS_Subset

LEMMA FitSub ==
  ASSUME NEW T, Fit(T), NEW S \in SUBSET T PROVE Fit(S)
<1>1. /\ IsFiniteSet(Grants(T)) /\ IsFiniteSet(Grants(S))
      /\ Cardinality(Grants(S)) <= Cardinality(Grants(T))
  BY GrantsMono DEF Fit
<1>2. Cardinality(Grants(S)) \in Nat /\ Cardinality(Grants(T)) \in Nat /\ Cardinality(CPU) \in Nat
  BY <1>1, FS_CardinalityType, CpusetAssumption
<1> QED BY <1>1, <1>2 DEF Fit

\* One more job has its CPUs in addition.
LEMMA GrantsAdd ==
  ASSUME NEW S, IsFiniteSet(Grants(S)), NEW j \in Jobs
  PROVE  /\ IsFiniteSet(Grants(S \cup {j}))
         /\ j \notin S =>
              Cardinality(Grants(S \cup {j})) = Cardinality(Grants(S)) + JobCpus[j]
<1>1. Grants(S \cup {j}) = Grants(S) \cup Grants({j})
  BY DEF Grants
<1>2. j \notin S => Grants(S) \cap Grants({j}) = {}
  BY DEF Grants
<1>3. IsFiniteSet(Grants({j})) /\ Cardinality(Grants({j})) = JobCpus[j]
  BY GrantsOne
<1>4. /\ IsFiniteSet(Grants(S \cup {j}))
      /\ Cardinality(Grants(S \cup {j})) =
           Cardinality(Grants(S)) + Cardinality(Grants({j})) - Cardinality(Grants(S) \cap Grants({j}))
  BY <1>1, <1>3, FS_Union
<1>5. Cardinality({}) = 0 /\ Cardinality(Grants(S)) \in Nat /\ JobCpus[j] \in Nat
  BY FS_EmptySet, FS_CardinalityType, CpusetAssumption
<1>6. j \notin S => Cardinality(Grants(S) \cap Grants({j})) = 0
  BY <1>2, <1>5
<1> QED BY <1>3, <1>4, <1>5, <1>6

\* The CPUs of jobs that have what they were given are no more than that.
LEMMA UnionFits ==
  ASSUME NEW S \in SUBSET Jobs, IsFiniteSet(Grants(S)), NEW C \in [S -> SUBSET CPU],
         \A j \in S : Cardinality(C[j]) = JobCpus[j],
         NEW W, \A c \in W : \E j \in S : c \in C[j]
  PROVE  Cardinality(W) <= Cardinality(Grants(S))
<1> DEFINE beta == [j \in S |-> CHOOSE b : b \in Bijection(1 .. JobCpus[j], C[j])]
           job1(c) == CHOOSE j \in S : c \in C[j]
           num(c) == CHOOSE n \in 1 .. JobCpus[job1(c)] : beta[job1(c)][n] = c
           g == [c \in W |-> <<job1(c), num(c)>>]
<1>1. ASSUME NEW j \in S PROVE beta[j] \in Bijection(1 .. JobCpus[j], C[j])
  <2>1. IsFiniteSet(C[j])
    BY CpusFinite
  <2>2. ExistsBijection(1 .. JobCpus[j], C[j])
    BY <2>1, FS_CardinalityType
  <2>3. \E b : b \in Bijection(1 .. JobCpus[j], C[j])
    BY <2>2 DEF ExistsBijection
  <2> QED BY <2>3
<1>2. ASSUME NEW c \in W PROVE job1(c) \in S /\ c \in C[job1(c)]
  OBVIOUS
<1>3. ASSUME NEW c \in W
      PROVE  num(c) \in 1 .. JobCpus[job1(c)] /\ beta[job1(c)][num(c)] = c
  <2>1. job1(c) \in S /\ c \in C[job1(c)]
    BY <1>2
  <2>2. beta[job1(c)] \in Bijection(1 .. JobCpus[job1(c)], C[job1(c)])
    BY <1>1, <2>1
  <2>3. \E n \in 1 .. JobCpus[job1(c)] : beta[job1(c)][n] = c
    BY <2>1, <2>2 DEF Bijection, Surjection
  <2> HIDE DEF beta, job1
  <2> QED BY <2>3
<1> HIDE DEF beta, job1, num
<1>4. g \in [W -> Grants(S)]
  <2>1. ASSUME NEW c \in W PROVE <<job1(c), num(c)>> \in Grants(S)
    BY <1>2, <1>3 DEF Grants
  <2> QED BY <2>1
<1>5. ASSUME NEW c \in W, NEW d \in W, g[c] = g[d] PROVE c = d
  <2>1. job1(c) = job1(d) /\ num(c) = num(d)
    BY <1>5
  <2> QED BY <1>3, <2>1
<1>6. g \in Injection(W, Grants(S))
  BY <1>4, <1>5 DEF Injection, IsInjective
<1> QED BY <1>6, FS_Injection

-----------------------------------------------------------------------------
(* The job that a path is about, and where a step's cpusets and processes  *)
(* come from.                                                              *)

\* The second part of a path within a job is the job.
LEMMA SecondOf ==
  ASSUME NEW p \in Path, InJob(p)
  PROVE  /\ p[2] \in Jobs
         /\ Len(p) # 2 => Parent(p)[2] = p[2]
<1>1. CASE \E j \in Jobs, o \in BOOLEAN : p = PathOfJob(j, o)
  BY <1>1, TupleLen DEF PathOfJob
<1>2. CASE \E s \in Steps, o \in BOOLEAN : p = StepPath(s, o)
  <2>1. PICK s \in Steps, o \in BOOLEAN : p = StepPath(s, o)
    BY <1>2
  <2>2. Parent(p) = PathOfJob(StepJob[s], o)
    BY <2>1, TupleParent DEF PathOfJob, StepPath
  <2> QED BY <2>1, <2>2, TupleLen, CpusetAssumption DEF PathOfJob, StepPath
<1>3. CASE \E t \in Tasks, o \in BOOLEAN : p = TaskPath(t, o)
  <2>1. PICK t \in Tasks, o \in BOOLEAN : p = TaskPath(t, o)
    BY <1>3
  <2>2. Parent(p) = StepPath(TaskStep[t], o)
    BY <2>1, TupleParent DEF TaskPath, StepPath
  <2>3. p[2] = StepJob[TaskStep[t]]
    BY <2>1 DEF TaskPath
  <2> QED BY <2>2, <2>3, TupleLen, CpusetAssumption DEF StepPath
<1>4. CASE p = <<>> \/ \E n \in TopName : p = <<n>>
  BY <1>4, TupleLen DEF InJob
<1> QED BY <1>1, <1>2, <1>3, <1>4, PathCases

\* A cpuset is below its parent.
LEMMA ParentBelow ==
  ASSUME NEW p \in Path, p # <<>> PROVE Below(p, Parent(p))
<1>1. Len(p) \in 1 .. 4 /\ Len(Parent(p)) = Len(p) - 1
  BY PathLen DEF PathFact
<1>2. \A i \in 1 .. Len(Parent(p)) : p[i] = Parent(p)[i]
  BY <1>1 DEF Parent
<1> QED BY <1>1, <1>2 DEF Below

\* rename(2) of a user cpuset leaves the rest of a path as it is.
LEMMA RenamedSecond ==
  ASSUME NEW p \in Path, InJob(p), NEW a, NEW b PROVE Renamed(p, a, b)[2] = p[2]
<1> DEFINE e(x) == [p EXCEPT ![1] = x]
<1>1. CASE \E j \in Jobs, o \in BOOLEAN : p = PathOfJob(j, o)
  <2>1. PICK j \in Jobs, o \in BOOLEAN : p = PathOfJob(j, o)
    BY <1>1
  <2>2. e(b[1]) = <<b[1], j>>
    BY <2>1, TupleExcept DEF PathOfJob
  <2> QED BY <2>1, <2>2, TupleLen DEF Renamed, PathOfJob
<1>2. CASE \E s \in Steps, o \in BOOLEAN : p = StepPath(s, o)
  <2>1. PICK s \in Steps, o \in BOOLEAN : p = StepPath(s, o)
    BY <1>2
  <2>2. e(b[1]) = <<b[1], StepJob[s], s>>
    BY <2>1, TupleExcept DEF StepPath
  <2> QED BY <2>1, <2>2, TupleLen DEF Renamed, StepPath
<1>3. CASE \E t \in Tasks, o \in BOOLEAN : p = TaskPath(t, o)
  <2>1. PICK t \in Tasks, o \in BOOLEAN : p = TaskPath(t, o)
    BY <1>3
  <2>2. e(b[1]) = <<b[1], StepJob[TaskStep[t]], TaskStep[t], t>>
    BY <2>1, TupleExcept DEF TaskPath
  <2> QED BY <2>1, <2>2 DEF Renamed, TaskPath
<1>4. CASE p = <<>> \/ \E n \in TopName : p = <<n>>
  BY <1>4, TupleLen DEF InJob
<1> QED BY <1>1, <1>2, <1>3, <1>4, PathCases

\* A cpuset in which a step may run its tasks is one of its job.
LEMMA ConfinedJob ==
  ASSUME NEW s \in Steps, NEW p, IsJobOf(p, s) \/ IsStepOf(p, s) \/ IsTaskOf(p, s)
  PROVE  p \in Path /\ InJob(p) /\ p[2] = StepJob[s]
<1>1. p \in Path /\ InJob(p)
  BY ShapeFacts, InJobFacts
<1>2. p[2] = StepJob[s]
  <2>1. CASE IsJobOf(p, s)
    BY <2>1, TupleLen DEF IsJobOf
  <2>2. CASE IsStepOf(p, s)
    BY <2>2, TupleLen DEF IsStepOf
  <2>3. CASE IsTaskOf(p, s)
    BY <2>3 DEF IsTaskOf
  <2> QED BY <2>1, <2>2, <2>3
<1> QED BY <1>1, <1>2

\* A cpuset of a job that a rename leaves was a cpuset of that job before.
LEMMA RenameSecond ==
  ASSUME TreeOK, NEW u \in Users, NEW o \in BOOLEAN, TopOf(u, o) \in dirs,
         TopOf(u, ~o) \notin dirs, Rename(TopOf(u, o), TopOf(u, ~o)), NEW q \in dirs', InJob(q)
  PROVE  \E p \in dirs : InJob(p) /\ p[2] = q[2]
<1> DEFINE R(p) == Renamed(p, TopOf(u, o), TopOf(u, ~o))
<1>1. PICK p \in dirs : q = R(p)
  BY RenameMoves
<1>2. p \in Path
  BY DEF TreeOK, TreeType
<1>3. Len(p) = Len(q)
  BY <1>1, <1>2, RenamedPath DEF RenFact
<1>4. InJob(p)
  BY <1>3 DEF InJob
<1> QED BY <1>1, <1>2, <1>4, RenamedSecond

\* user_cpuset_update makes no cpuset of a job.
LEMMA UserUpdateDirs ==
  ASSUME TreeOK, NEW h, NEW u \in Users, NEW used, NEW n1, NEW n2,
         UserCpusetUpdate(h, u, used, n1, n2), NEW q \in dirs', InJob(q)
  PROVE  \E p \in dirs : InJob(p) /\ p[2] = q[2]
<1>1. Top(u) = TopOf(u, FALSE) /\ OrphanOf(u) = TopOf(u, ~FALSE)
  BY TopDef
<1>2. CASE dirs' = dirs
  BY <1>2
<1>3. CASE CanRename(Top(u), OrphanOf(u)) /\ Rename(Top(u), OrphanOf(u))
  BY <1>1, <1>3, RenameSecond DEF CanRename
<1> QED BY <1>2, <1>3 DEF UserCpusetUpdate, OrphanUser, KillOrphan, UserCpusetOrphan

\* Only job_cpuset_create makes a cpuset of a job.
LEMMA HolderDirs ==
  ASSUME IInv, NEW h \in Procs, Holder(h), NEW q \in dirs', InJob(q)
  PROVE  \/ \E p \in dirs : InJob(p) /\ p[2] = q[2]
         \/ q = target /\ JobCpusetCreate(h)
<1>0. TreeOK /\ dirs \subseteq Path
  BY IInvTree DEF TreeOK, TreeType
<1>1. CASE dirs' \subseteq dirs
  BY <1>1
<1>2. CASE UpdateUserCpusets(h)
  <2>1. PICK u \in pending : UserCpusetUpdate(h, u, KidCpus(Top(u)), pc[h], pc[h])
    BY <1>2 DEF UpdateUserCpusets
  <2>2. u \in Users
    BY DEF IInv, TypeOK
  <2> QED BY <1>0, <2>1, <2>2, UserUpdateDirs
<1>3. CASE UserCpusetDir(h) \/ UserCpusetModify(h)
  <2> DEFINE u == target[1].uid
  <2>1. lock = h /\ pc[h] \in {"userdir", "usermod"}
    BY <1>3 DEF UserCpusetDir, UserCpusetModify
  <2>2. PICK j \in Jobs : target = JobPath(j)
    BY <2>1, StepTarget
  <2>3. u \in Users
    BY <2>2, JobPathFacts
  <2>4. CASE UserCpusetModify(h)
    <3>1. \E used : UserCpusetUpdate(h, u, used, "mkdir", CreateFailed(h))
      BY <2>4 DEF UserCpusetModify
    <3> QED BY <1>0, <2>3, <3>1, UserUpdateDirs
  <2>5. CASE UserCpusetDir(h)
    <3>1. Top(u) = TopOf(u, ~TRUE) /\ OrphanOf(u) = TopOf(u, TRUE) /\ Len(Top(u)) = 1
      BY <2>3, TopDef, TopPath
    <3>2. CASE CanRename(OrphanOf(u), Top(u)) /\ Rename(OrphanOf(u), Top(u))
      BY <1>0, <2>3, <3>1, <3>2, RenameSecond DEF CanRename
    <3>3. CASE dirs' = dirs \cup {Top(u)}
      BY <3>1, <3>3 DEF InJob
    <3> QED BY <2>5, <3>2, <3>3 DEF UserCpusetDir
  <2> QED BY <1>3, <2>4, <2>5
<1>4. CASE JobCpusetCreate(h)
  BY <1>4 DEF JobCpusetCreate
<1>5. CASE SlurmCpusetClean(h)
  BY <1>1, <1>5 DEF SlurmCpusetClean, CleanPath
<1>6. CASE InitSlurm(h) \/ CleanDone(h) \/ UpdateDone(h) \/ CreateCpuset(h) \/ Migrate(h)
           \/ Unlock(h) \/ LoadJobs(h) \/ ScanJob(h) \/ ScanDone(h)
  BY <1>1, <1>6 DEF InitSlurm, CleanDone, UpdateDone, CreateCpuset, Migrate, Unlock, LoadJobs,
                    ScanJob, ScanDone
<1> QED BY <1>2, <1>3, <1>4, <1>5, <1>6 DEF Holder

\* Whoever does not hold the lock makes no cpuset but /slurm.
LEMMA OthersDirs ==
  ASSUME Next, \A x \in Procs : ~Holder(x) PROVE dirs' = dirs \/ dirs' = dirs \cup {<<>>}
<1>1. ASSUME NEW x, SlurmCpusetCreate(x) PROVE dirs' = dirs \/ dirs' = dirs \cup {<<>>}
  BY <1>1 DEF SlurmCpusetCreate
<1>2. ASSUME NEW x, NEW t, \/ Dies(x) \/ SpankInitPostOpt(x) \/ ForkTask(x, t)
                           \/ SpankTaskPostFork(x, t) \/ SpankTaskExit(x, t)
                           \/ TaskExit(t) \/ Exit(x) \/ JobStart(x) \/ JobEnd(x)
      PROVE  dirs' = dirs
  BY <1>2 DEF Dies, SpankInitPostOpt, ForkTask, SpankTaskPostFork, SpankTaskExit,
              TaskExit, Exit, JobStart, JobEnd
<1>3. ASSUME NEW x, SpankInit(x) PROVE SlurmCpusetCreate(x)
  BY <1>3 DEF SpankInit
<1>4. ASSUME NEW x, PamAcctMgmt(x) PROVE SlurmCpusetCreate(x)
  BY <1>4 DEF PamAcctMgmt
<1>5. AgentStart => SlurmCpusetCreate(Agent)
  BY DEF AgentStart
<1> QED BY <1>1, <1>2, <1>3, <1>4, <1>5 DEF Next, Crash, GiveUp

\* The holder of the lock brings a process into a job's cpuset only by
\* migrate_job_to_cpuset; a rename takes along who is there.
LEMMA HolderPlace ==
  ASSUME IInv, NEW h \in Procs, Holder(h), NEW x \in Procs, loc'[x] \in Path, InJob(loc'[x])
  PROVE  \/ loc[x] \in Path /\ InJob(loc[x]) /\ loc'[x][2] = loc[x][2]
         \/ /\ Migrate(h) /\ loc'[x] = target /\ pc'[h] = "unlock_ok"
            /\ x = IF Len(target) = 4 THEN target[4] ELSE h
<1>0. /\ loc \in [Procs -> Path \cup {Root, Gone}] /\ PcOK /\ DataOK
      /\ Root \notin Path /\ Gone \notin Path /\ pc \in [Procs -> HolderPC \cup FreePC]
  BY LocationAssumption DEF IInv, TypeOK, PcOK, DataOK
<1>1. CASE loc'[x] = loc[x]
  BY <1>0, <1>1
<1>a. ASSUME NEW a, NEW b, NEW u \in Users, NEW o \in BOOLEAN, a = TopOf(u, o), b = TopOf(u, ~o),
             loc'[x] = Renamed(loc[x], a, b), loc[x] \in Path
      PROVE  InJob(loc[x]) /\ loc'[x][2] = loc[x][2]
  <2>1. Len(loc'[x]) = Len(loc[x])
    BY <1>a, RenamedPath DEF RenFact
  <2>2. InJob(loc[x])
    BY <2>1 DEF InJob
  <2> QED BY <1>a, <2>2, RenamedSecond
<1>b. ASSUME NEW u \in Users, NEW used, NEW n1, NEW n2, UserCpusetUpdate(h, u, used, n1, n2)
      PROVE  loc'[x] = loc[x] \/ (loc[x] \in Path /\ InJob(loc[x]) /\ loc'[x][2] = loc[x][2])
  <2>1. /\ loc'[x] = loc[x] \/ loc'[x] = Renamed(loc[x], TopOf(u, FALSE), TopOf(u, ~FALSE))
        /\ loc[x] \in {Root, Gone} => loc'[x] = loc[x]
    BY <1>0, <1>b, UserUpdateOthers
  <2> QED BY <1>0, <1>a, <2>1
<1>2. CASE UpdateUserCpusets(h)
  <2>1. PICK u \in pending : UserCpusetUpdate(h, u, KidCpus(Top(u)), pc[h], pc[h])
    BY <1>2 DEF UpdateUserCpusets
  <2>2. u \in Users
    BY DEF IInv, TypeOK
  <2> QED BY <1>1, <1>b, <2>1, <2>2
<1>3. CASE UserCpusetDir(h) \/ UserCpusetModify(h)
  <2> DEFINE u == target[1].uid
  <2>1. lock = h /\ pc[h] \in {"userdir", "usermod"}
    BY <1>3 DEF UserCpusetDir, UserCpusetModify
  <2>2. PICK j \in Jobs : target = JobPath(j)
    BY <2>1, StepTarget
  <2>3. u \in Users
    BY <2>2, JobPathFacts
  <2>4. CASE UserCpusetModify(h)
    <3>1. \E used : UserCpusetUpdate(h, u, used, "mkdir", CreateFailed(h))
      BY <2>4 DEF UserCpusetModify
    <3> QED BY <1>1, <1>b, <2>3, <3>1
  <2>5. CASE UserCpusetDir(h)
    <3>1. Top(u) = TopOf(u, ~TRUE) /\ OrphanOf(u) = TopOf(u, TRUE)
      BY <2>3, TopDef
    <3>2. CASE Rename(OrphanOf(u), Top(u))
      <4>1. loc'[x] = IF loc[x] \in {Root, Gone} THEN loc[x]
                      ELSE Renamed(loc[x], OrphanOf(u), Top(u))
        BY <3>2 DEF Rename
      <4>2. CASE loc[x] \in {Root, Gone}
        BY <1>1, <4>1, <4>2
      <4>3. CASE loc[x] \notin {Root, Gone}
        <5>1. loc'[x] = Renamed(loc[x], OrphanOf(u), Top(u)) /\ loc[x] \in Path
          BY <1>0, <4>1, <4>3
        <5> QED BY <1>a, <2>3, <3>1, <5>1
      <4> QED BY <4>2, <4>3
    <3> QED BY <1>1, <2>5, <3>2 DEF UserCpusetDir
  <2> QED BY <1>3, <2>4, <2>5
<1>4. CASE Migrate(h)
  BY <1>0, <1>1, <1>4 DEF Migrate, Goto
<1>5. CASE Unlock(h)
  BY <1>0, <1>1, <1>5 DEF Unlock
<1>6. CASE ScanDone(h)
  <2>1. CASE x = h /\ h \in Logins
    <3>1. LoginUser[h] \in Users
      BY <2>1, CpusetAssumption
    <3>2. loc'[x] = loc[x] \/ loc'[x] = Top(LoginUser[h])
      BY <1>0, <1>6, <2>1 DEF ScanDone
    <3>3. ~InJob(Top(LoginUser[h]))
      <4>1. Top(LoginUser[h]) = TopOf(LoginUser[h], FALSE)
        BY TopDef
      <4>2. Len(Top(LoginUser[h])) = 1
        BY <3>1, <4>1, TopPath
      <4> QED BY <4>2 DEF InJob
    <3> QED BY <1>1, <3>2, <3>3
  <2>2. CASE x # h
    BY <1>0, <1>1, <1>6, <2>2 DEF ScanDone
  <2>3. h \in Logins
    <3>1. lock = h /\ pc[h] = "scan"
      BY <1>6 DEF ScanDone
    <3>2. h \in Steps \/ h \in Logins \/ h = Agent
      BY <3>1, HolderProcs, NobodyFacts DEF IInv
    <3>3. h \notin Steps
      BY <3>1, TargetShape DEF WorkingOn, StageTwo
    <3>4. h # Agent
      BY <3>1 DEF IInv, AgentShape
    <3> QED BY <3>2, <3>3, <3>4
  <2> QED BY <2>1, <2>2, <2>3
<1>7. CASE InitSlurm(h) \/ SlurmCpusetClean(h) \/ CleanDone(h) \/ UpdateDone(h)
           \/ CreateCpuset(h) \/ JobCpusetCreate(h) \/ LoadJobs(h) \/ ScanJob(h)
  BY <1>1, <1>7 DEF InitSlurm, SlurmCpusetClean, CleanDone, UpdateDone, CreateCpuset,
                    JobCpusetCreate, LoadJobs, ScanJob
<1> QED BY <1>2, <1>3, <1>4, <1>5, <1>6, <1>7 DEF Holder

\* Where the others go: a process starts in the root cpuset, a task where its
\* slurmstepd is, and slurmstepd leaves for the user cpuset.
LEMMA OthersPlace ==
  ASSUME IInv, Next, \A h \in Procs : ~Holder(h), NEW x \in Procs
  PROVE  \/ loc'[x] = loc[x] \/ loc'[x] \in {Root, Gone}
         \/ \E s \in Steps, t \in Tasks : ForkTask(s, t) /\ x = t
         \/ /\ x \in Steps /\ pc'[x] = "done" /\ loc'[x] = Top(Owner[StepJob[x]])
<1>0. loc \in [Procs -> Path \cup {Root, Gone}] /\ pc \in [Procs -> HolderPC \cup FreePC]
      /\ Steps \subseteq Procs /\ Tasks \subseteq Procs /\ Logins \subseteq Procs /\ Agent \in Procs
      /\ Steps \cap Tasks = {}
  BY CpusetAssumption DEF IInv, TypeOK, Procs
<1>1. ASSUME NEW s \in Steps, NEW t \in Tasks, SpankTaskExit(s, t)
      PROVE  loc'[x] = loc[x] \/ (x = s /\ pc'[x] = "done" /\ loc'[x] = Top(Owner[StepJob[x]]))
  BY <1>0, <1>1 DEF SpankTaskExit
<1>3. ASSUME NEW s \in Steps, SpankInit(s) PROVE loc'[x] = loc[x] \/ loc'[x] \in {Root, Gone}
  BY <1>0, <1>3 DEF SpankInit
<1>4. ASSUME NEW l \in Logins, PamAcctMgmt(l) PROVE loc'[x] = loc[x] \/ loc'[x] \in {Root, Gone}
  BY <1>0, <1>4 DEF PamAcctMgmt
<1>5. AgentStart => loc'[x] = loc[x]
  BY DEF AgentStart
<1>6. ASSUME NEW s \in Steps, NEW t \in Tasks, ForkTask(s, t) PROVE loc'[x] = loc[x] \/ x = t
  BY <1>0, <1>6 DEF ForkTask
<1>7. ASSUME NEW y, Dies(y) \/ TaskExit(y) \/ Exit(y)
      PROVE  loc'[x] = loc[x] \/ loc'[x] \in {Root, Gone}
  BY <1>0, <1>7 DEF Dies, TaskExit, Exit
<1>8. ASSUME NEW y, NEW t, SpankInitPostOpt(y) \/ SpankTaskPostFork(y, t) \/ JobStart(y) \/ JobEnd(y)
      PROVE  loc'[x] = loc[x]
  BY <1>8 DEF SpankInitPostOpt, SpankTaskPostFork, JobStart, JobEnd
<1> QED BY <1>1, <1>3, <1>4, <1>5, <1>6, <1>7, <1>8 DEF Next, Crash, GiveUp

-----------------------------------------------------------------------------
(* PlaceInv: who is in a job's cpuset.                                     *)

\* Without kill-orphs nobody is killed.
LEMMA NobodyKilled ==
  ASSUME IInv, Next, ~KillOrphans, \A x \in Procs : pc[x] # "killed", NEW x \in Procs
  PROVE  pc'[x] # "killed"
<1>0. pc \in [Procs -> HolderPC \cup FreePC]
  BY DEF IInv, TypeOK
<1>1. ASSUME NEW h \in Procs, NEW u, NEW used, NEW n1, NEW n2, n1 # "killed", n2 # "killed",
             UserCpusetUpdate(h, u, used, n1, n2)
      PROVE  pc'[x] # "killed"
  BY <1>0, <1>1 DEF UserCpusetUpdate, OrphanUser, Goto
<1>2. ASSUME NEW h \in Procs, Holder(h) PROVE pc'[x] # "killed"
  <2>1. CASE UpdateUserCpusets(h)
    <3>1. PICK u \in pending : UserCpusetUpdate(h, u, KidCpus(Top(u)), pc[h], pc[h])
      BY <2>1 DEF UpdateUserCpusets
    <3> QED BY <1>1, <3>1
  <2>2. CASE UserCpusetModify(h)
    <3>1. \E u, used : UserCpusetUpdate(h, u, used, "mkdir", CreateFailed(h))
      BY <2>2 DEF UserCpusetModify
    <3>2. "mkdir" # "killed" /\ CreateFailed(h) # "killed"
      BY DEF CreateFailed
    <3> QED BY <1>1, <3>1, <3>2
  <2>3. CASE InitSlurm(h) \/ CleanDone(h) \/ UpdateDone(h)
    BY <1>0, <2>3 DEF InitSlurm, CleanDone, UpdateDone, Goto, AfterClean
  <2>4. CASE SlurmCpusetClean(h)
    BY <2>4 DEF SlurmCpusetClean
  <2>5. CASE CreateCpuset(h) \/ UserCpusetDir(h)
    BY <1>0, <2>5 DEF CreateCpuset, UserCpusetDir, Goto, CreateFailed
  <2>6. CASE JobCpusetCreate(h)
    BY <1>0, <2>6 DEF JobCpusetCreate, Goto, CreateFailed
  <2>7. CASE Migrate(h)
    BY <1>0, <2>7 DEF Migrate, Goto
  <2>8. CASE Unlock(h)
    BY <1>0, <2>8 DEF Unlock, Goto, AfterUnlock
  <2>9. CASE LoadJobs(h) \/ ScanJob(h) \/ ScanDone(h)
    BY <1>0, <2>9 DEF LoadJobs, ScanJob, ScanDone, Goto
  <2> QED BY <1>2, <2>1, <2>2, <2>3, <2>4, <2>5, <2>6, <2>7, <2>8, <2>9 DEF Holder
<1>3. ASSUME NEW h, Dies(h) PROVE pc'[x] # "killed"
  BY <1>0, <1>3 DEF Dies, Goto
<1>4. ASSUME NEW h, SlurmCpusetCreate(h) PROVE pc'[x] # "killed"
  BY <1>0, <1>4 DEF SlurmCpusetCreate, Goto
<1>5. ASSUME NEW s, SpankInitPostOpt(s) PROVE pc'[x] # "killed"
  BY <1>0, <1>5 DEF SpankInitPostOpt, Goto
<1>6. ASSUME NEW s, NEW t, ForkTask(s, t) \/ SpankTaskPostFork(s, t) \/ SpankTaskExit(s, t)
      PROVE  pc'[x] # "killed"
  BY <1>0, <1>6 DEF ForkTask, SpankTaskPostFork, SpankTaskExit
<1>7. ASSUME NEW y, TaskExit(y) \/ Exit(y) PROVE pc'[x] # "killed"
  BY <1>0, <1>7 DEF TaskExit, Exit, Goto
<1>8. ASSUME NEW j, JobStart(j) \/ JobEnd(j) PROVE pc'[x] # "killed"
  BY <1>8 DEF JobStart, JobEnd
<1>9. ASSUME NEW s, SpankInit(s) PROVE SlurmCpusetCreate(s)
  BY <1>9 DEF SpankInit
<1>10. ASSUME NEW l, PamAcctMgmt(l) PROVE SlurmCpusetCreate(l)
  BY <1>10 DEF PamAcctMgmt
<1>11. AgentStart => SlurmCpusetCreate(Agent)
  BY DEF AgentStart
<1> QED BY <1>2, <1>3, <1>4, <1>5, <1>6, <1>7, <1>8, <1>9, <1>10, <1>11 DEF Next, Crash, GiveUp

\* The controller moves a job on from pending to running to done.
LEMMA JobMoves ==
  ASSUME IInv, Next, NEW j \in Jobs
  PROVE  \/ job'[j] = job[j]
         \/ JobStart(j) /\ job[j] = "pending" /\ job'[j] = "running"
         \/ JobEnd(j) /\ job[j] = "running" /\ job'[j] = "done"
<1>0. job \in [Jobs -> {"pending", "running", "done"}]
  BY DEF IInv, TypeOK
<1>1. ASSUME NEW h, Holder(h) PROVE job' = job
  BY <1>1 DEF Holder, InitSlurm, SlurmCpusetClean, CleanDone, UpdateUserCpusets, UpdateDone,
     CreateCpuset, UserCpusetDir, UserCpusetModify, JobCpusetCreate, Migrate, Unlock, LoadJobs,
     ScanJob, ScanDone
<1>2. ASSUME NEW x, NEW t, \/ Dies(x) \/ SpankInit(x) \/ SpankInitPostOpt(x) \/ ForkTask(x, t)
                           \/ SpankTaskPostFork(x, t) \/ SpankTaskExit(x, t) \/ TaskExit(t)
                           \/ Exit(x) \/ PamAcctMgmt(x) \/ AgentStart
      PROVE  job' = job
  BY <1>2 DEF Dies, SpankInit, SpankInitPostOpt, ForkTask, SpankTaskPostFork, SpankTaskExit,
     TaskExit, Exit, PamAcctMgmt, AgentStart
<1>3. ASSUME NEW k \in Jobs, JobStart(k)
      PROVE  job'[j] = job[j] \/ (k = j /\ job[j] = "pending" /\ job'[j] = "running")
  BY <1>0, <1>3 DEF JobStart
<1>4. ASSUME NEW k \in Jobs, JobEnd(k)
      PROVE  job'[j] = job[j] \/ (k = j /\ job[j] = "running" /\ job'[j] = "done")
  BY <1>0, <1>4 DEF JobEnd
<1> QED BY <1>1, <1>2, <1>3, <1>4 DEF Next, Crash, GiveUp

\* A slurmstepd that did not run, or has ended, gets going only at
\* slurm_spank_init.
LEMMA StepBegins ==
  ASSUME IInv, Next, NEW s \in Steps, pc[s] \in {"new", "done", "gone"},
         pc'[s] \notin {"new", "done", "gone", "killed"}
  PROVE  SpankInit(s)
<1>0. s \in Procs /\ PcOK /\ pc[s] \notin HolderPC
  BY DEF IInv, TypeOK, PcOK, Procs, HolderPC
<1>1. ASSUME NEW h \in Procs, Holder(h) PROVE FALSE
  <2>1. h # s
    BY <1>0, <1>1, HolderLock DEF PcOK
  <2> QED BY <1>0, <1>1, <2>1, HolderPcOthers
<1>2. ~Dies(s) /\ ~Exit(s)
  <2>1. s # Agent
    BY CpusetAssumption
  <2> QED BY <1>0, <2>1 DEF Dies, Exit, Goto, PcOK
<1>3. ~SpankInitPostOpt(s)
  BY DEF SpankInitPostOpt
<1>4. ~\E t \in Tasks : ForkTask(s, t) \/ SpankTaskPostFork(s, t) \/ SpankTaskExit(s, t)
  BY DEF ForkTask, SpankTaskPostFork, SpankTaskExit
<1> QED BY <1>1, <1>2, <1>3, <1>4, StepActs

\* After its last task slurmstepd can enter the user cpuset: its own cpuset
\* has CPUs, so the cpusets above it have, and they are not orphans.
LEMMA CanLeave ==
  ASSUME IInv, NEW s \in Steps, Confined(loc[s], s)
  PROVE  CanEnter(Top(Owner[StepJob[s]]))
<1> DEFINE p == loc[s]
           u == Owner[StepJob[s]]
<1>0. /\ TreeInv /\ dirs \subseteq Path /\ cpus \in [Path -> SUBSET CPU]
      /\ p \in dirs /\ p \in Path /\ cpus[p] # {} /\ InJob(p) /\ u \in Users
  BY ConfinedUsable, CpusetAssumption DEF IInv, TypeOK, Usable
<1>1. p[1] = Top(u)[1]
  <2>1. ~IsOrphan(p)
    BY <1>0 DEF TreeInv
  <2>2. PICK o \in BOOLEAN : p[1] = JobTop(StepJob[s], o)
    <3>1. CASE IsJobOf(p, s)
      BY <3>1, TupleLen DEF IsJobOf
    <3>2. CASE IsStepOf(p, s)
      BY <3>2, TupleLen DEF IsStepOf
    <3>3. CASE IsTaskOf(p, s)
      BY <3>3, TupleLen DEF IsTaskOf
    <3> QED BY <3>1, <3>2, <3>3 DEF Confined
  <2>3. p # <<>>
    BY <1>0, InJobFacts
  <2>4. p[1].orphan = o /\ ~p[1].orphan
    BY <2>1, <2>2, <2>3 DEF IsOrphan, JobTop
  <2>5. o = FALSE
    BY <2>4
  <2> QED BY <2>2, <2>5 DEF Top, JobTop
<1>a. ASSUME NEW q \in dirs, InJob(q), cpus[q] # {}, q[1] = Top(u)[1]
      PROVE  /\ Parent(q) \in dirs /\ cpus[Parent(q)] # {} /\ Parent(q)[1] = Top(u)[1]
             /\ q \in Path /\ q # <<>>
  <2>1. q \in Path /\ q # <<>>
    BY <1>0, <1>a, InJobFacts
  <2> QED BY <1>0, <1>a, <2>1, ParentFacts DEF TreeInv
<1>b. ASSUME NEW q \in dirs, Len(q) = 2, cpus[q] # {}, q[1] = Top(u)[1]
      PROVE  Top(u) \in dirs /\ cpus[Top(u)] # {}
  <2>1. InJob(q)
    BY <1>b DEF InJob
  <2>2. /\ Parent(q) \in dirs /\ cpus[Parent(q)] # {} /\ Parent(q)[1] = Top(u)[1]
        /\ q \in Path /\ q # <<>>
    BY <1>a, <1>b, <2>1
  <2>3. Len(Parent(q)) = 1
    BY <1>b, <2>2, ParentFacts
  <2>4. Parent(q) = <<Parent(q)[1]>>
    BY <1>0, <2>2, <2>3, PathLen DEF PathFact
  <2>5. Parent(q) = Top(u)
    BY <2>2, <2>4, TupleLen DEF Top
  <2> QED BY <2>2, <2>5
<1>c. ASSUME NEW q \in dirs, Len(q) = 3, cpus[q] # {}, q[1] = Top(u)[1]
      PROVE  Top(u) \in dirs /\ cpus[Top(u)] # {}
  <2>1. InJob(q)
    BY <1>c DEF InJob
  <2>2. Len(Parent(q)) = 2 /\ Parent(q) \in dirs /\ cpus[Parent(q)] # {} /\ Parent(q)[1] = Top(u)[1]
    BY <1>a, <1>c, <2>1, ParentFacts
  <2> QED BY <1>b, <2>2
<1>d. ASSUME Len(p) = 4 PROVE Top(u) \in dirs /\ cpus[Top(u)] # {}
  <2>1. Len(Parent(p)) = 3 /\ Parent(p) \in dirs /\ cpus[Parent(p)] # {} /\ Parent(p)[1] = Top(u)[1]
    BY <1>0, <1>1, <1>a, <1>d, ParentFacts
  <2> QED BY <1>c, <2>1
<1>2. Len(p) \in {2, 3, 4}
  BY <1>0, InJobFacts
<1> QED BY <1>0, <1>1, <1>2, <1>b, <1>c, <1>d DEF CanEnter

\* Every step preserves PlaceInv.
LEMMA PlaceStep ==
  ASSUME IInv, ConfInv, ForkInv, Next, ~KillOrphans, PlaceInv PROVE PlaceInv'
<1>0. /\ Steps \subseteq Procs /\ Tasks \subseteq Procs /\ Steps \cap Tasks = {}
      /\ \A x \in Logins \cup {Agent} : x \in Procs /\ x \notin Steps /\ x \notin Tasks
      /\ Root \notin Path /\ Gone \notin Path /\ StepJob \in [Steps -> Jobs]
      /\ TaskStep \in [Tasks -> Steps]
      /\ loc \in [Procs -> Path \cup {Root, Gone}] /\ pc \in [Procs -> HolderPC \cup FreePC]
      /\ PcOK /\ PcOK'
  BY PcStep, CpusetAssumption, LocationAssumption DEF IInv, TypeOK, PcOK, Procs
<1>1. \A x \in Procs : pc'[x] # "killed"
  BY NobodyKilled DEF PlaceInv
<1>2. ASSUME NEW h \in Procs, Migrate(h)
      PROVE  /\ h \in Steps /\ InJob(target) /\ target[2] = StepJob[h]
             /\ Len(target) = 4 => target[4] \in TasksOf(h)
  <2>1. h \in Steps /\ lock = h
    BY <1>2 DEF Migrate
  <2> QED BY <2>1, TargetShape, ConfinedJob
<1>3. ASSUME NEW x \in Logins \cup {Agent}, loc'[x] \in Path PROVE ~InJob(loc'[x])
  <2>0. loc[x] \in Path => ~InJob(loc[x])
    BY DEF PlaceInv
  <2>1. ASSUME NEW h \in Procs, Holder(h), InJob(loc'[x]) PROVE FALSE
    <3>1. /\ Migrate(h) /\ loc'[x] = target
          /\ x = IF Len(target) = 4 THEN target[4] ELSE h
      BY <1>0, <1>3, <2>0, <2>1, HolderPlace
    <3> QED BY <1>0, <1>2, <3>1 DEF TasksOf
  <2>2. CASE \A h \in Procs : ~Holder(h)
    BY <1>0, <1>3, <2>0, <2>2, OthersPlace
  <2> QED BY <2>1, <2>2
<1>4. ASSUME NEW s \in Steps, pc'[s] \notin {"new", "done", "gone"}
      PROVE  job'[StepJob[s]] = "running"
  <2>0. s \in Procs /\ StepJob[s] \in Jobs
    BY <1>0
  <2>1. CASE pc[s] \in {"new", "done", "gone"}
    <3>1. SpankInit(s)
      BY <1>1, <1>4, <2>0, <2>1, StepBegins
    <3> QED BY <3>1 DEF SpankInit
  <2>2. CASE pc[s] \notin {"new", "done", "gone"}
    <3>1. job[StepJob[s]] = "running" /\ pc[s] # "killed"
      BY <2>0, <2>2 DEF PlaceInv
    <3>2. ~JobEnd(StepJob[s])
      BY <2>2, <3>1 DEF JobEnd
    <3> QED BY <2>0, <3>1, <3>2, JobMoves
  <2> QED BY <2>1, <2>2
<1>5. ASSUME NEW s \in Steps, loc'[s] \in Path, InJob(loc'[s])
      PROVE  pc'[s] \notin {"new", "done", "gone"} /\ loc'[s][2] = StepJob[s]
  <2>0. s \in Procs /\ s \notin Tasks /\ s \notin Logins /\ s # Agent
    BY <1>0
  <2>a. loc[s] \in Path /\ InJob(loc[s]) =>
          pc[s] \notin {"new", "done", "gone", "killed"} /\ loc[s][2] = StepJob[s]
    BY <2>0 DEF PlaceInv
  <2>1. ASSUME NEW h \in Procs, Holder(h)
        PROVE  pc'[s] \notin {"new", "done", "gone"} /\ loc'[s][2] = StepJob[s]
    <3>1. \/ loc[s] \in Path /\ InJob(loc[s]) /\ loc'[s][2] = loc[s][2]
          \/ /\ Migrate(h) /\ loc'[s] = target /\ pc'[h] = "unlock_ok"
             /\ s = IF Len(target) = 4 THEN target[4] ELSE h
      BY <1>5, <2>0, <2>1, HolderPlace
    <3>2. CASE /\ Migrate(h) /\ loc'[s] = target /\ pc'[h] = "unlock_ok"
               /\ s = IF Len(target) = 4 THEN target[4] ELSE h
      BY <1>2, <2>0, <3>2 DEF TasksOf
    <3>3. CASE loc[s] \in Path /\ InJob(loc[s]) /\ loc'[s][2] = loc[s][2]
      <4>1. CASE h # s
        BY <2>0, <2>1, <2>a, <3>3, <4>1, HolderPcOthers
      <4>2. CASE h = s
        <5>1. lock' = s \/ Unlock(s)
          BY <2>1, <4>2, HolderTarget
        <5>2. ASSUME lock' = s PROVE pc'[s] \notin {"new", "done", "gone"}
          <6>1. pc'[s] \in HolderPC
            BY <1>0, <2>0, <5>2 DEF PcOK
          <6> QED BY <6>1 DEF HolderPC
        <5>3. ASSUME Unlock(s) PROVE pc'[s] \notin {"new", "done", "gone"}
          <6>1. pc'[s] = AfterUnlock(s)
            BY <1>0, <2>0, <5>3 DEF Unlock, Goto
          <6>2. AfterUnlock(s) \in {"failed", "inited", "running"}
            BY <2>0 DEF AfterUnlock
          <6> QED BY <6>1, <6>2
        <5>4. pc'[s] \notin {"new", "done", "gone"}
          BY <5>1, <5>2, <5>3
        <5> QED BY <2>a, <3>3, <5>4
      <4> QED BY <4>1, <4>2
    <3> QED BY <3>1, <3>2, <3>3
  <2>2. CASE \A h \in Procs : ~Holder(h)
    <3>1. loc'[s] = loc[s]
      <4>1. ~InJob(Top(Owner[StepJob[s]]))
        <5>1. Owner[StepJob[s]] \in Users
          BY CpusetAssumption
        <5>2. Len(Top(Owner[StepJob[s]])) = 1
          BY <5>1, TopDef, TopPath
        <5> QED BY <5>2 DEF InJob
      <4> QED BY <1>0, <1>5, <2>0, <2>2, <4>1, OthersPlace
    <3>2. pc[s] \notin {"new", "done", "gone", "killed"} /\ loc[s][2] = StepJob[s]
      BY <1>5, <2>a, <3>1
    <3>3. pc'[s] \notin {"new", "done", "gone"}
      <4>1. ~Dies(s) /\ ~Exit(s)
        BY <1>0, <1>5, <2>0 DEF Dies, Exit
      <4>2. CASE SpankInit(s) \/ SpankInitPostOpt(s)
        <5>1. pc'[s] \in {"clean", "initslurm", "failing", "create"}
          BY <1>0, <2>0, <4>2, CreateNotMid DEF SpankInit, SpankInitPostOpt, Goto
        <5> QED BY <5>1
      <4>3. ASSUME NEW t \in Tasks, ForkTask(s, t) \/ SpankTaskPostFork(s, t)
            PROVE  pc'[s] \notin {"new", "done", "gone"}
        BY <1>0, <2>0, <3>2, <4>3 DEF ForkTask, SpankTaskPostFork
      <4>4. ASSUME NEW t \in Tasks, SpankTaskExit(s, t) PROVE pc'[s] \notin {"new", "done", "gone"}
        <5>1. pc[s] = "running"
          BY <4>4 DEF SpankTaskExit
        <5>2. Confined(loc[s], s)
          BY <5>1 DEF ConfInv, Entered
        <5>3. CanEnter(Top(Owner[StepJob[s]]))
          BY <5>2, CanLeave
        <5>4. CASE \A x \in TasksOf(s) : x # t => pc[x] = "reaped"
          <6>1. loc'[s] = Top(Owner[StepJob[s]])
            BY <1>0, <2>0, <4>4, <5>3, <5>4 DEF SpankTaskExit
          <6>2. Owner[StepJob[s]] \in Users
            BY CpusetAssumption
          <6>3. Len(Top(Owner[StepJob[s]])) = 1
            BY <6>2, TopDef, TopPath
          <6> QED BY <1>5, <6>1, <6>3 DEF InJob
        <5>5. CASE ~\A x \in TasksOf(s) : x # t => pc[x] = "reaped"
          BY <1>0, <2>0, <4>4, <5>1, <5>5 DEF SpankTaskExit
        <5> QED BY <5>4, <5>5
      <4> QED BY <2>2, <3>2, <4>1, <4>2, <4>3, <4>4, StepActs
    <3> QED BY <3>1, <3>2, <3>3
  <2> QED BY <2>1, <2>2
<1>6. ASSUME NEW t \in Tasks, loc'[t] # Gone PROVE job'[StepJob[TaskStep[t]]] = "running"
  <2>0. t \in Procs /\ TaskStep[t] \in Steps /\ StepJob[TaskStep[t]] \in Jobs
        /\ t \in TasksOf(TaskStep[t])
    BY <1>0 DEF TasksOf
  <2>1. job[StepJob[TaskStep[t]]] = "running"
    <3>1. CASE loc[t] # Gone
      BY <2>0, <3>1 DEF PlaceInv
    <3>2. CASE loc[t] = Gone
      <4>1. ~TaskExit(t)
        BY <1>0, <1>6, <2>0 DEF TaskExit
      <4>2. ForkTask(TaskStep[t], t)
        BY <1>6, <3>2, <4>1, TaskMoves
      <4>3. pc[TaskStep[t]] = "running"
        BY <4>2 DEF ForkTask
      <4> QED BY <2>0, <4>3 DEF PlaceInv
    <3> QED BY <3>1, <3>2
  <2>2. ~JobEnd(StepJob[TaskStep[t]])
    <3>1. ASSUME JobEnd(StepJob[TaskStep[t]]) PROVE loc[t] = Gone /\ loc' = loc
      BY <2>0, <3>1 DEF JobEnd
    <3> QED BY <1>6, <3>1
  <2> QED BY <2>0, <2>1, <2>2, JobMoves
<1> QED BY <1>1, <1>3, <1>4, <1>5, <1>6 DEF PlaceInv

-----------------------------------------------------------------------------
(* RootInv: /slurm.                                                        *)

\* Places of the program that only the holder of the lock is in.
LEMMA HolderIs ==
  ASSUME IInv, NEW h \in Procs, pc[h] \in HolderPC PROVE lock = h /\ h # Nobody
BY NobodyFacts DEF IInv, TypeOK

\* user_cpuset_update leaves /slurm as it is.
LEMMA UserUpdateRoot ==
  ASSUME TreeOK, NEW h, NEW u \in Users, NEW used, NEW n1, NEW n2,
         UserCpusetUpdate(h, u, used, n1, n2)
  PROVE  cpus'[<<>>] = cpus[<<>>] /\ (<<>> \in dirs => <<>> \in dirs')
<1>0. cpus \in [Path -> SUBSET CPU] /\ <<>> \in Path /\ Top(u) # <<>> /\ OrphanOf(u) # <<>>
  BY TopPath, TopDef, TuplePath DEF TreeOK, TreeType
<1>1. CASE UNCHANGED <<dirs, cpus>>
  BY <1>1
<1>2. CASE dirs' = dirs /\ cpus' = [cpus EXCEPT ![Top(u)] = used]
  BY <1>0, <1>2
<1>3. CASE Rename(Top(u), OrphanOf(u))
  BY <1>0, <1>3 DEF Rename, Renamed
<1> QED
  BY <1>1, <1>2, <1>3 DEF UserCpusetUpdate, OrphanUser, KillOrphan, UserCpusetOrphan

\* The holder of the lock leaves /slurm as it is, once it has its CPUs.
LEMMA HolderRoot ==
  ASSUME IInv, <<>> \notin sweep, NEW h \in Procs, Holder(h), <<>> \in dirs
  PROVE  /\ <<>> \in dirs'
         /\ cpus'[<<>>] = cpus[<<>>] \/ (InitSlurm(h) /\ cpus'[<<>>] = CPU)
         /\ sweep' \subseteq sweep \/ (Unlock(h) /\ sweep' = {})
         /\ pc'[h] # "initslurm"
         /\ pc'[h] = "failing" => InitSlurm(h) /\ SetupFails
<1>0. TreeOK /\ cpus \in [Path -> SUBSET CPU] /\ <<>> \in Path
      /\ pc \in [Procs -> HolderPC \cup FreePC]
  BY IInvTree, TuplePath DEF TreeOK, TreeType, IInv, TypeOK
<1>1. CASE SlurmCpusetClean(h)
  <2>1. PICK p \in sweep : \E valid : CleanPath(p, valid)
    BY <1>1 DEF SlurmCpusetClean
  <2>2. p # <<>>
    BY <2>1
  <2>3. <<>> \in dirs' /\ cpus'[<<>>] = cpus[<<>>]
    BY <1>0, <2>1, <2>2 DEF CleanPath
  <2> QED BY <1>1, <2>3 DEF SlurmCpusetClean
<1>2. CASE UpdateUserCpusets(h)
  <2>1. PICK u \in pending : UserCpusetUpdate(h, u, KidCpus(Top(u)), pc[h], pc[h])
    BY <1>2 DEF UpdateUserCpusets
  <2>2. u \in Users
    BY DEF IInv, TypeOK
  <2>3. <<>> \in dirs' /\ cpus'[<<>>] = cpus[<<>>]
    BY <1>0, <2>1, <2>2, UserUpdateRoot
  <2>4. pc'[h] = pc[h] /\ pc[h] \in {"update", "update2"}
    BY <1>2, UpdateSamePc DEF IInv, TypeOK, PcOK
  <2> QED BY <1>2, <2>3, <2>4 DEF UpdateUserCpusets
<1>3. CASE UserCpusetDir(h) \/ UserCpusetModify(h)
  <2> DEFINE u == target[1].uid
  <2>1. lock = h /\ pc[h] \in {"userdir", "usermod"}
    BY <1>3 DEF UserCpusetDir, UserCpusetModify
  <2>2. PICK j \in Jobs : target = JobPath(j)
    BY <2>1, StepTarget
  <2>3. u \in Users
    BY <2>2, JobPathFacts
  <2>4. CASE UserCpusetModify(h)
    <3>1. PICK used : UserCpusetUpdate(h, u, used, "mkdir", CreateFailed(h))
      BY <2>4 DEF UserCpusetModify
    <3>2. pc'[h] \in {"mkdir", CreateFailed(h), pc[h]} /\ sweep' = sweep
      BY <1>0, <2>4, <3>1 DEF UserCpusetUpdate, OrphanUser, KillOrphan, Goto, UserCpusetModify, held
    <3> QED BY <1>0, <2>1, <2>3, <3>1, <3>2, UserUpdateRoot DEF CreateFailed
  <2>5. CASE UserCpusetDir(h)
    <3>1. Top(u) # <<>> /\ OrphanOf(u) # <<>>
      BY <2>3, TopPath, TopDef
    <3>2. <<>> \in dirs' /\ cpus'[<<>>] = cpus[<<>>]
      <4>1. CASE Rename(OrphanOf(u), Top(u))
        BY <1>0, <3>1, <4>1 DEF Rename, Renamed
      <4>2. CASE dirs' = dirs \cup {Top(u)} /\ cpus' = cpus
        BY <4>2
      <4> QED BY <2>5, <4>1, <4>2 DEF UserCpusetDir
    <3> QED BY <1>0, <2>5, <3>2 DEF UserCpusetDir, Goto
  <2> QED BY <1>3, <2>4, <2>5
<1>4. CASE JobCpusetCreate(h)
  <2>1. target # <<>>
    <3>1. lock = h /\ pc[h] = "mkdir"
      BY <1>4 DEF JobCpusetCreate
    <3>2. InJob(target)
      BY <3>1, StepTarget
    <3> QED BY <3>2, InJobFacts DEF IInv, TypeOK
  <2>2. pc'[h] \notin {"initslurm", "failing"}
    BY <1>0, <1>4 DEF JobCpusetCreate, Goto, CreateFailed
  <2> QED BY <1>0, <1>4, <2>1, <2>2 DEF JobCpusetCreate
<1>5. CASE InitSlurm(h)
  <2>1. pc'[h] # "initslurm" /\ (pc'[h] = "failing" => SetupFails)
    BY <1>0, <1>5 DEF InitSlurm, Goto, AfterClean
  <2>2. cpus'[<<>>] \in {cpus[<<>>], CPU}
    BY <1>0, <1>5 DEF InitSlurm
  <2> QED BY <1>0, <1>5, <2>1, <2>2 DEF InitSlurm, held
<1>6. CASE CleanDone(h) \/ UpdateDone(h)
  BY <1>0, <1>6 DEF CleanDone, UpdateDone, Goto, AfterClean
<1>7. CASE CreateCpuset(h)
  BY <1>0, <1>7 DEF CreateCpuset, Goto, CreateFailed
<1>8. CASE Migrate(h)
  BY <1>0, <1>8 DEF Migrate, Goto, held
<1>9. CASE Unlock(h)
  <2>1. pc'[h] \notin {"initslurm", "failing"}
    BY <1>0, <1>9 DEF Unlock, Goto, AfterUnlock
  <2> QED BY <1>9, <2>1 DEF Unlock, ResetHeld
<1>10. CASE LoadJobs(h) \/ ScanJob(h) \/ ScanDone(h)
  BY <1>0, <1>10 DEF LoadJobs, ScanJob, ScanDone, Goto, held
<1> QED BY <1>1, <1>2, <1>3, <1>4, <1>5, <1>6, <1>7, <1>8, <1>9, <1>10 DEF Holder

\* What the others do to the lock, to the tree and to the sweep.
LEMMA OthersRoot ==
  ASSUME IInv, ConfInv, Next, \A x \in Procs : ~Holder(x)
  PROVE  /\ cpus' = cpus
         /\ \/ UNCHANGED <<dirs, lock, sweep>>
            \/ \E x \in Procs : SlurmCpusetCreate(x)
            \/ /\ lock = Nobody /\ UNCHANGED <<dirs, sweep>> /\ dirs # {}
               /\ \E s \in Steps : lock' = s /\ pc'[s] = "create"
            \/ /\ MayCrash \/ \E x \in Procs : pc[x] = "failing"
               /\ lock \in Procs /\ lock' = Nobody /\ sweep' = {}
               /\ dirs' = dirs
<1>0. Steps \subseteq Procs /\ Logins \subseteq Procs /\ Agent \in Procs
      /\ pc \in [Procs -> HolderPC \cup FreePC] /\ Steps \cap Tasks = {}
  BY CpusetAssumption DEF IInv, TypeOK, Procs
<1> DEFINE Goal == /\ cpus' = cpus
                   /\ \/ UNCHANGED <<dirs, lock, sweep>>
                      \/ \E x \in Procs : SlurmCpusetCreate(x)
                      \/ /\ lock = Nobody /\ UNCHANGED <<dirs, sweep>> /\ dirs # {}
                         /\ \E s \in Steps : lock' = s /\ pc'[s] = "create"
                      \/ /\ MayCrash \/ \E x \in Procs : pc[x] = "failing"
                         /\ lock \in Procs /\ lock' = Nobody /\ sweep' = {}
                         /\ dirs' = dirs
<1>1. ASSUME NEW x \in Procs, SlurmCpusetCreate(x) PROVE Goal
  BY <1>1 DEF SlurmCpusetCreate
<1>2. ASSUME NEW x \in Procs, Crash(x) \/ GiveUp(x) PROVE Goal
  <2>1. Dies(x) /\ (MayCrash \/ pc[x] = "failing")
    BY <1>2 DEF Crash, GiveUp
  <2> QED BY <2>1 DEF Dies, ResetHeld, held
<1>a. ASSUME NEW s \in Steps, pc[s] \in {"inited", "running", "forked"} PROVE dirs # {}
  BY <1>a DEF ConfInv, Entered, Confined
<1>3. ASSUME NEW s \in Steps, SpankInitPostOpt(s) PROVE Goal
  BY <1>0, <1>3, <1>a DEF SpankInitPostOpt, Goto
<1>4. ASSUME NEW s \in Steps, NEW t \in Tasks, SpankTaskPostFork(s, t) PROVE Goal
  BY <1>0, <1>4, <1>a DEF SpankTaskPostFork
<1>5. ASSUME NEW x, NEW t, ForkTask(x, t) \/ SpankTaskExit(x, t) \/ TaskExit(t)
                           \/ Exit(x) \/ JobStart(x) \/ JobEnd(x)
      PROVE  Goal
  BY <1>5 DEF ForkTask, SpankTaskExit, TaskExit, Exit, JobStart, JobEnd, held
<1>6. ASSUME NEW x, SpankInit(x) PROVE SlurmCpusetCreate(x)
  BY <1>6 DEF SpankInit
<1>7. ASSUME NEW x, PamAcctMgmt(x) PROVE SlurmCpusetCreate(x)
  BY <1>7 DEF PamAcctMgmt
<1>8. AgentStart => SlurmCpusetCreate(Agent)
  BY DEF AgentStart
<1> HIDE DEF Goal
<1>9. Goal
  BY <1>0, <1>1, <1>2, <1>3, <1>4, <1>5, <1>6, <1>7, <1>8 DEF Next
<1> QED BY <1>9 DEF Goal

\* Every step preserves RootInv, unless making /slurm may fail or be cut off.
LEMMA RootStep ==
  ASSUME IInv, ConfInv, Next, SlurmReady \/ ~(MayCrash \/ SetupFails), RootInv PROVE RootInv'
<1>0. /\ PcOK /\ PcOK' /\ Nobody \notin Procs /\ pc \in [Procs -> HolderPC \cup FreePC]
      /\ lock \in Procs \cup {Nobody}
  BY PcStep, NobodyFacts DEF IInv, TypeOK, PcOK
<1>1. ASSUME NEW x \in Procs, pc[x] \in {"initslurm", "clean", "failing"} PROVE lock = x
  BY <1>0, <1>1 DEF PcOK, HolderPC
<1>2. ASSUME NEW x \in Procs, pc'[x] \in {"initslurm", "clean", "failing"} PROVE lock' = x
  BY <1>0, <1>2 DEF PcOK, HolderPC
<1>3. CASE \E h \in Procs : Holder(h)
  <2>1. PICK h \in Procs : Holder(h)
    BY <1>3
  <2>2. lock = h /\ (lock' = h \/ lock' = Nobody) /\ <<>> \in dirs /\ <<>> \notin sweep
    BY <1>0, <2>1, HolderLock DEF RootInv
  <2>3. /\ <<>> \in dirs'
        /\ cpus'[<<>>] = cpus[<<>>] \/ (InitSlurm(h) /\ cpus'[<<>>] = CPU)
        /\ sweep' \subseteq sweep \/ (Unlock(h) /\ sweep' = {})
        /\ pc'[h] # "initslurm"
        /\ pc'[h] = "failing" => InitSlurm(h) /\ SetupFails
    BY <2>1, <2>2, HolderRoot
  <2>a. pc'[h] # "failing"
    <3>1. InitSlurm(h) => ~SlurmReady
      BY DEF InitSlurm, RootInv
    <3> QED BY <2>3, <3>1
  <2>4. \A x \in Procs : pc'[x] \notin {"initslurm", "failing"}
    BY <1>0, <1>2, <2>2, <2>3, <2>a
  <2>5. cpus'[<<>>] = CPU
    <3>1. CASE pc[h] = "initslurm"
      <4>1. InitSlurm(h)
        BY <2>1, <3>1 DEF Holder, SlurmCpusetClean, CleanDone, UpdateUserCpusets, UpdateDone,
           CreateCpuset, UserCpusetDir, UserCpusetModify, JobCpusetCreate, Migrate, Unlock,
           LoadJobs, ScanJob, ScanDone
      <4>2. cpus' = [cpus EXCEPT ![<<>>] = CPU] /\ <<>> \in DOMAIN cpus
        BY <1>0, <2>a, <4>1, TuplePath DEF InitSlurm, Goto, IInv, TypeOK
      <4> QED BY <4>2
    <3>2. CASE pc[h] # "initslurm"
      <4>1. \A x \in Procs : pc[x] # "initslurm"
        BY <1>1, <2>2, <3>2
      <4>2. cpus[<<>>] = CPU
        BY <2>2, <4>1 DEF RootInv
      <4> QED BY <2>3, <4>2
    <3> QED BY <3>1, <3>2
  <2>6. <<>> \notin sweep'
    BY <2>2, <2>3
  <2>7. ASSUME sweep' # {} PROVE \E x \in Procs : pc'[x] = "clean"
    <3>1. sweep # {}
      BY <2>3, <2>7
    <3>2. pc[h] = "clean"
      BY <1>1, <2>2, <3>1 DEF RootInv
    <3>3. SlurmCpusetClean(h)
      BY <2>1, <3>1, <3>2 DEF Holder, InitSlurm, CleanDone, UpdateUserCpusets, UpdateDone,
         CreateCpuset, UserCpusetDir, UserCpusetModify, JobCpusetCreate, Migrate, Unlock,
         LoadJobs, ScanJob, ScanDone
    <3> QED BY <3>2, <3>3 DEF SlurmCpusetClean
  <2> QED BY <2>3, <2>4, <2>5, <2>6, <2>7 DEF RootInv
<1>4. CASE \A h \in Procs : ~Holder(h)
  <2>0. cpus' = cpus
    BY <1>4, OthersRoot
  <2>a. lock = Nobody => sweep = {} /\ \A x \in Procs : pc[x] # "initslurm"
    BY <1>0, <1>1 DEF RootInv
  <2>1. CASE UNCHANGED <<dirs, lock, sweep>>
    <3>1. ASSUME NEW x \in Procs, lock = x PROVE pc'[x] = pc[x]
      BY <1>0, <1>4, <2>1, <3>1, HolderAlone DEF Undisturbed
    <3>2. \A x \in Procs : /\ pc'[x] = "initslurm" <=> pc[x] = "initslurm"
                           /\ pc'[x] = "failing" <=> pc[x] = "failing"
      BY <1>1, <1>2, <2>1, <3>1
    <3>3. \A x \in Procs : pc'[x] = "clean" <=> pc[x] = "clean"
      BY <1>1, <1>2, <2>1, <3>1
    <3> QED BY <2>0, <2>1, <3>2, <3>3 DEF RootInv
  <2>2. CASE \E x \in Procs : SlurmCpusetCreate(x)
    <3>1. PICK x \in Procs : SlurmCpusetCreate(x)
      BY <2>2
    <3>2. lock = Nobody /\ lock' = x
      BY <3>1 DEF SlurmCpusetCreate
    <3>3. CASE <<>> \in dirs
      <4>1. dirs' = dirs /\ sweep' = dirs \ {<<>>} /\ pc'[x] = "clean"
        BY <1>0, <3>1, <3>3 DEF SlurmCpusetCreate, Goto
      <4>2. \A y \in Procs : pc'[y] \notin {"initslurm", "failing"}
        BY <1>2, <3>2, <4>1
      <4>3. cpus[<<>>] = CPU
        BY <2>a, <3>2, <3>3 DEF RootInv
      <4> QED BY <2>0, <3>3, <4>1, <4>2, <4>3 DEF RootInv
    <3>4. CASE <<>> \notin dirs
      <4>1. dirs = {} /\ ~SlurmReady
        BY <3>4 DEF RootInv
      <4>2. dirs' = dirs \cup {<<>>} /\ sweep' = sweep /\ pc'[x] = "initslurm"
        BY <1>0, <3>1, <3>4, <4>1 DEF SlurmCpusetCreate, Goto
      <4>3. \A y \in Procs : pc'[y] # "failing"
        BY <1>2, <3>2, <4>2
      <4> QED BY <2>a, <3>2, <4>1, <4>2, <4>3 DEF RootInv
    <3> QED BY <3>3, <3>4
  <2>3. CASE /\ lock = Nobody /\ UNCHANGED <<dirs, sweep>> /\ dirs # {}
             /\ \E s \in Steps : lock' = s /\ pc'[s] = "create"
    <3>1. <<>> \in dirs
      BY <2>3 DEF RootInv
    <3>2. cpus[<<>>] = CPU /\ sweep = {}
      BY <2>a, <2>3, <3>1 DEF RootInv
    <3>3. \A y \in Procs : pc'[y] \notin {"initslurm", "failing"}
      BY <1>2, <2>3
    <3> QED BY <2>0, <2>3, <3>1, <3>2, <3>3 DEF RootInv
  <2>4. CASE /\ MayCrash \/ \E x \in Procs : pc[x] = "failing"
             /\ lock \in Procs /\ lock' = Nobody /\ sweep' = {}
             /\ dirs' = dirs
    <3>1. <<>> \in dirs /\ \A x \in Procs : pc[x] # "initslurm"
      BY <1>0, <2>4 DEF RootInv
    <3>2. cpus[<<>>] = CPU
      BY <3>1 DEF RootInv
    <3>3. \A y \in Procs : pc'[y] \notin {"initslurm", "failing"}
      BY <1>0, <1>2, <2>4
    <3> QED BY <2>0, <2>4, <3>1, <3>2, <3>3 DEF RootInv
  <2> QED BY <1>4, <2>1, <2>2, <2>3, <2>4, OthersRoot
<1> QED BY <1>3, <1>4

-----------------------------------------------------------------------------
(* StartedInv: nobody makes a cpuset for a job that was not started.       *)

\* Where a target comes from.
LEMMA TargetMoves ==
  ASSUME IInv, PlaceInv, StartedInv, Next, InJob(target')
  PROVE  target' = target \/ job[target'[2]] # "pending"
<1>0. Steps \subseteq Procs
  BY DEF Procs
<1>1. ASSUME NEW h \in Procs, Holder(h), ~(h \in Logins /\ ScanJob(h)) PROVE target' = target \/ target' = <<>>
  <2>1. CASE Unlock(h)
    BY <2>1 DEF Unlock, ResetHeld
  <2>2. CASE ~Unlock(h)
    BY <1>1, <2>2 DEF Holder, InitSlurm, SlurmCpusetClean, CleanDone, UpdateUserCpusets, UpdateDone,
       CreateCpuset, UserCpusetDir, UserCpusetModify, JobCpusetCreate, Migrate, LoadJobs,
       ScanDone, held
  <2> QED BY <2>1, <2>2
<1>2. ASSUME NEW l \in Logins, ScanJob(l) PROVE target' = target \/ job[target'[2]] # "pending"
  <2>1. \/ target' = target
        \/ \E j \in snap : target' = JobPath(j)
    BY <1>2 DEF ScanJob
  <2>2. ASSUME NEW j \in snap, target' = JobPath(j) PROVE job[target'[2]] # "pending"
    <3>1. j \in Jobs /\ job[j] # "pending"
      BY DEF IInv, TypeOK, StartedInv
    <3> QED BY <2>2, <3>1, JobPathFacts
  <2> QED BY <2>1, <2>2
<1>3. ASSUME NEW x, NEW t, Dies(x) \/ PamAcctMgmt(x) \/ AgentStart \/ ForkTask(x, t)
                           \/ SpankTaskExit(x, t) \/ TaskExit(t) \/ Exit(x) \/ JobStart(x)
                           \/ JobEnd(x)
      PROVE  target' = target \/ target' = <<>>
  BY <1>3 DEF Dies, ResetHeld, PamAcctMgmt, AgentStart, ForkTask, SpankTaskExit, TaskExit, Exit,
     JobStart, JobEnd, held
<1>4. ASSUME NEW s \in Steps, SpankInit(s) PROVE job[target'[2]] # "pending"
  <2>1. target' = JobPath(StepJob[s]) /\ job[StepJob[s]] = "running" /\ StepJob[s] \in Jobs
    BY <1>4, CpusetAssumption DEF SpankInit
  <2> QED BY <2>1, JobPathFacts
<1>5. ASSUME NEW s \in Steps, pc[s] \in {"inited", "forked"},
             IsStepOf(target', s) \/ IsTaskOf(target', s)
      PROVE  job[target'[2]] # "pending"
  <2>1. target'[2] = StepJob[s]
    BY <1>5, ConfinedJob
  <2>2. job[StepJob[s]] = "running"
    BY <1>0, <1>5 DEF PlaceInv
  <2> QED BY <2>1, <2>2
<1>6. ASSUME NEW s \in Steps, SpankInitPostOpt(s) PROVE job[target'[2]] # "pending"
  <2>1. pc[s] = "inited" /\ target' = Append(loc[s], s)
    BY <1>6 DEF SpankInitPostOpt
  <2>2. IsJobOf(loc[s], s)
    BY <2>1 DEF IInv, StepShape
  <2> QED BY <1>5, <2>1, <2>2, ShapeFacts
<1>7. ASSUME NEW s \in Steps, NEW t \in Tasks, SpankTaskPostFork(s, t)
      PROVE  job[target'[2]] # "pending"
  <2>1. pc[s] = "forked" /\ target' = Append(loc[s], t) /\ t \in TasksOf(s)
    BY <1>7 DEF SpankTaskPostFork, TasksOf
  <2>2. IsStepOf(loc[s], s)
    <3>1. StepOpt[s] = "tasks" /\ StepShape(s)
      BY <2>1 DEF IInv, StepShape
    <3>2. WantsStep(s)
      BY <3>1 DEF WantsStep
    <3> QED BY <2>1, <3>1, <3>2 DEF StepShape
  <2>3. IsTaskOf(target', s)
    BY <2>1, <2>2, ShapeFacts
  <2> QED BY <1>5, <2>1, <2>3
<1>8. target' # <<>>
  BY TupleLen DEF InJob
<1> QED BY <1>1, <1>2, <1>3, <1>4, <1>6, <1>7, <1>8 DEF Next, Crash, GiveUp

\* A login looks only at jobs that run, or ran when it asked.
LEMMA SnapMoves ==
  ASSUME Next, NEW j \in snap' PROVE j \in snap \/ job[j] = "running"
<1>1. ASSUME NEW l, LoadJobs(l) PROVE j \in snap \/ job[j] = "running"
  BY <1>1 DEF LoadJobs
<1>2. ASSUME NEW h, Unlock(h) \/ Dies(h) PROVE j \in snap
  BY <1>2 DEF Unlock, Dies, ResetHeld, held
<1>3. ASSUME NEW l, ScanJob(l) PROVE j \in snap
  BY <1>3 DEF ScanJob
<1>4. ASSUME NEW h, Holder(h), ~LoadJobs(h), ~Unlock(h), ~ScanJob(h) PROVE j \in snap
  BY <1>4 DEF Holder, InitSlurm, SlurmCpusetClean, CleanDone, UpdateUserCpusets, UpdateDone,
     CreateCpuset, UserCpusetDir, UserCpusetModify, JobCpusetCreate, Migrate, ScanDone, held
<1>5. ASSUME NEW x, SlurmCpusetCreate(x) PROVE j \in snap
  BY <1>5 DEF SlurmCpusetCreate
<1>6. ASSUME NEW x, NEW t, SpankInitPostOpt(x) \/ ForkTask(x, t) \/ SpankTaskPostFork(x, t)
                           \/ SpankTaskExit(x, t) \/ TaskExit(t) \/ Exit(x) \/ JobStart(x)
                           \/ JobEnd(x)
      PROVE  j \in snap
  BY <1>6 DEF SpankInitPostOpt, ForkTask, SpankTaskPostFork, SpankTaskExit, TaskExit, Exit,
     JobStart, JobEnd, held
<1>7. ASSUME NEW x, SpankInit(x) PROVE SlurmCpusetCreate(x)
  BY <1>7 DEF SpankInit
<1>8. ASSUME NEW x, PamAcctMgmt(x) PROVE SlurmCpusetCreate(x)
  BY <1>8 DEF PamAcctMgmt
<1>9. AgentStart => SlurmCpusetCreate(Agent)
  BY DEF AgentStart
<1> QED BY <1>1, <1>2, <1>3, <1>4, <1>5, <1>6, <1>7, <1>8, <1>9 DEF Next, Crash, GiveUp

\* Every step preserves StartedInv.
LEMMA StartedStep ==
  ASSUME IInv, Next, PlaceInv, StartedInv PROVE StartedInv'
<1>0. /\ dirs' \subseteq Path /\ target' \in Path /\ snap' \subseteq Jobs
      /\ job \in [Jobs -> {"pending", "running", "done"}]
  BY NextInv DEF IInv, TypeOK
<1>1. Fit(RunningJobs')
  <2>1. CASE \E j \in Jobs : JobStart(j)
    <3>1. PICK j \in Jobs : JobStart(j)
      BY <2>1
    <3>2. RunningJobs' = RunningJobs \cup {j}
      BY <1>0, <3>1 DEF JobStart, RunningJobs
    <3>3. IsFiniteSet(Grants(RunningJobs \cup {j}))
      BY GrantsAdd DEF StartedInv, Fit
    <3> QED BY <3>1, <3>2, <3>3 DEF JobStart, Fit
  <2>2. CASE \A j \in Jobs : ~JobStart(j)
    <3>1. RunningJobs' \subseteq RunningJobs
      BY <2>2, JobMoves DEF RunningJobs
    <3> QED BY <3>1, FitSub DEF StartedInv
  <2> QED BY <2>1, <2>2
<1>2. ASSUME NEW p \in dirs' \cup {target'}, InJob(p) PROVE job'[p[2]] # "pending"
  <2>1. job[p[2]] # "pending"
    <3>1. CASE p \in dirs'
      <4>1. CASE \E h \in Procs : Holder(h)
        <5>1. \E q \in dirs \cup {target} : InJob(q) /\ q[2] = p[2]
          BY <1>2, <3>1, <4>1, HolderDirs
        <5> QED BY <5>1 DEF StartedInv
      <4>2. CASE \A h \in Procs : ~Holder(h)
        <5>1. p # <<>>
          BY <1>2, TupleLen DEF InJob
        <5>2. p \in dirs
          BY <3>1, <4>2, <5>1, OthersDirs
        <5> QED BY <1>2, <5>2 DEF StartedInv
      <4> QED BY <4>1, <4>2
    <3>2. CASE p = target'
      BY <1>2, <3>2, TargetMoves DEF StartedInv
    <3> QED BY <1>2, <3>1, <3>2
  <2>2. p[2] \in Jobs
    BY <1>0, <1>2, SecondOf
  <2> QED BY <2>1, <2>2, JobMoves
<1>3. ASSUME NEW j \in snap' PROVE job'[j] # "pending"
  <2>1. j \in Jobs /\ job[j] # "pending"
    BY <1>0, SnapMoves DEF StartedInv
  <2> QED BY <2>1, JobMoves
<1>4. Fit(RunningJobs)' = Fit(RunningJobs')
  BY DEF Fit, Grants
<1> QED BY <1>1, <1>2, <1>3, <1>4 DEF StartedInv

-----------------------------------------------------------------------------
(* HoldInv: the cpusets that the cleaning keeps.                           *)

\* Where slurmstepd is before it allocates, and where it came from.
LEMMA HoldFrom ==
  ASSUME IInv, NEW s \in Steps, Holder(s), pc'[s] \in {"clean", "update", "migrate", "create"}
  PROVE  /\ lock = s /\ target' = target /\ ~Unlock(s) /\ ~JobCpusetCreate(s)
         /\ pc[s] \in {"initslurm", "clean", "update", "migrate"}
         /\ \/ InitSlurm(s) /\ pc'[s] = "migrate"
            \/ SlurmCpusetClean(s)
            \/ CleanDone(s)
            \/ UpdateUserCpusets(s) /\ pc'[s] = pc[s] /\ pc[s] = "update"
            \/ UpdateDone(s) /\ pc'[s] = "migrate" /\ pc[s] = "update"
            \/ Migrate(s) /\ pc'[s] = "create" /\ pc[s] = "migrate"
<1>0. /\ s \in Procs /\ s \notin Logins /\ lock = s /\ WorkingOn(s)
      /\ pc \in [Procs -> HolderPC \cup FreePC] /\ PcOK
  BY HolderLock, TargetShape, CpusetAssumption DEF IInv, TypeOK, PcOK, Procs
<1>1. pc[s] \notin {"update2", "load", "scan"}
  BY <1>0 DEF WorkingOn, StageTwo
<1>2. ~Unlock(s)
  BY <1>0 DEF Unlock, Goto, AfterUnlock
<1>3. ~JobCpusetCreate(s)
  BY <1>0 DEF JobCpusetCreate, Goto, CreateFailed
<1>4. ~CreateCpuset(s)
  BY <1>0 DEF CreateCpuset, Goto, CreateFailed
<1>5. ~UserCpusetDir(s)
  BY <1>0 DEF UserCpusetDir, Goto
<1>6. ~UserCpusetModify(s)
  <2>1. SUFFICES ASSUME UserCpusetModify(s) PROVE FALSE
    OBVIOUS
  <2>2. pc[s] = "usermod" /\ \E u, used : UserCpusetUpdate(s, u, used, "mkdir", CreateFailed(s))
    BY <2>1 DEF UserCpusetModify
  <2>3. pc'[s] \in {"mkdir", CreateFailed(s), pc[s]}
    BY <1>0, <2>2 DEF UserCpusetUpdate, OrphanUser, KillOrphan, Goto
  <2> QED BY <1>0, <2>2, <2>3 DEF CreateFailed
<1>7. target' = target
  BY <1>2, HolderTarget
<1>8. CASE InitSlurm(s)
  BY <1>0, <1>2, <1>3, <1>7, <1>8 DEF InitSlurm, Goto, AfterClean
<1>9. CASE SlurmCpusetClean(s)
  BY <1>0, <1>2, <1>3, <1>7, <1>9 DEF SlurmCpusetClean
<1>10. CASE CleanDone(s)
  BY <1>0, <1>2, <1>3, <1>7, <1>10 DEF CleanDone
<1>11. CASE UpdateUserCpusets(s)
  BY <1>0, <1>1, <1>2, <1>3, <1>7, <1>11, UpdateSamePc
<1>12. CASE UpdateDone(s)
  BY <1>0, <1>1, <1>2, <1>3, <1>7, <1>12 DEF UpdateDone, Goto, AfterClean
<1>13. CASE Migrate(s)
  BY <1>0, <1>2, <1>3, <1>7, <1>13 DEF Migrate, Goto
<1>14. ~LoadJobs(s) /\ ~ScanJob(s) /\ ~ScanDone(s)
  BY <1>1 DEF LoadJobs, ScanJob, ScanDone
<1> QED
  BY <1>2, <1>3, <1>4, <1>5, <1>6, <1>8, <1>9, <1>10, <1>11, <1>12, <1>13, <1>14 DEF Holder

\* A slurmstepd takes the lock in slurm_spank_init, or for a step or a task.
LEMMA StepLocks ==
  ASSUME IInv, Next, NEW s \in Steps, lock = Nobody, lock' = s
  PROVE  SpankInit(s) \/ Len(target') \in {3, 4}
<1>0. s \in Procs /\ Nobody \notin Procs
  BY NobodyFacts DEF Procs
<1>1. ~\E h \in Procs : Holder(h)
  BY <1>0, HolderLock
<1>2. ~Dies(s) /\ ~Exit(s)
  BY <1>0 DEF Dies, Exit
<1>3. ~\E t \in Tasks : ForkTask(s, t) \/ SpankTaskExit(s, t)
  BY <1>0 DEF ForkTask, SpankTaskExit
<1>4. ASSUME SpankInitPostOpt(s) PROVE Len(target') = 3
  <2>1. IsJobOf(loc[s], s) /\ target' = Append(loc[s], s)
    BY <1>4 DEF SpankInitPostOpt, IInv, StepShape
  <2> QED BY <2>1, ShapeFacts
<1>5. ASSUME NEW t \in Tasks, SpankTaskPostFork(s, t) PROVE Len(target') = 4
  <2>1. pc[s] = "forked" /\ target' = Append(loc[s], t) /\ t \in TasksOf(s) /\ StepShape(s)
    BY <1>5 DEF SpankTaskPostFork, TasksOf, IInv
  <2>2. WantsStep(s)
    BY <2>1 DEF StepShape, WantsStep
  <2>3. IsStepOf(loc[s], s)
    BY <2>1, <2>2 DEF StepShape
  <2> QED BY <2>1, <2>3, ShapeFacts
<1> QED BY <1>0, <1>1, <1>2, <1>3, <1>4, <1>5, StepActs

\* A cpuset that cleaning leaves belongs to a running job, or has below it one
\* that cleaning left.
LEMMA CleanHolding ==
  ASSUME IInv, ConfInv, PlaceInv, ~CtldFails, NEW h \in Procs, SlurmCpusetClean(h)
  PROVE  Holding' \subseteq Holding
<1>0. dirs \subseteq Path /\ job' = job
  BY DEF IInv, TypeOK, SlurmCpusetClean
<1>1. PICK p \in sweep : /\ \A q \in sweep : ~Below(q, p)
                         /\ sweep' = sweep \ {p}
                         /\ \E valid \in (IF Len(p) = 2 THEN JobidIsValid(p[2]) ELSE {FALSE}) :
                              CleanPath(p, valid)
  BY DEF SlurmCpusetClean
<1>2. \/ dirs' \subseteq dirs /\ p \notin dirs'
      \/ /\ dirs' = dirs
         /\ \/ Len(p) = 2 /\ TRUE \in JobidIsValid(p[2])
            \/ Busy(dirs, loc, p)
  BY <1>1 DEF CleanPath
<1>3. ASSUME p \in dirs, InJob(p), dirs' = dirs PROVE p[2] \in Holding
  <2>0. p \in Path /\ p[2] \in Jobs
    BY <1>0, <1>3, SecondOf
  <2>1. CASE job[p[2]] = "running"
    BY <1>3, <2>0, <2>1 DEF Holding
  <2>2. CASE job[p[2]] # "running"
    <3>1. Busy(dirs, loc, p)
      BY <1>2, <1>3, <2>2 DEF JobidIsValid
    <3>2. Members(loc, p) = {}
      <4>1. SUFFICES ASSUME NEW x \in Procs, loc[x] = p PROVE FALSE
        BY DEF Members
      <4>2. CASE x \in Steps
        <5>1. pc[x] \notin {"new", "done", "gone"} /\ loc[x][2] = StepJob[x]
          BY <1>3, <2>0, <4>1, <4>2 DEF PlaceInv
        <5> QED BY <2>2, <4>1, <4>2, <5>1 DEF PlaceInv
      <4>3. CASE x \in Tasks
        <5>1. loc[x] # Gone /\ TaskStep[x] \in Steps
          BY <2>0, <4>1, <4>3, LocationAssumption, CpusetAssumption
        <5>2. Confined(loc[x], TaskStep[x])
          BY <4>3, <5>1 DEF ConfInv
        <5>3. p[2] = StepJob[TaskStep[x]]
          BY <4>1, <5>1, <5>2, ConfinedJob DEF Confined
        <5> QED BY <2>2, <4>3, <5>1, <5>3 DEF PlaceInv
      <4>4. CASE x \in Logins \cup {Agent}
        BY <1>3, <2>0, <4>1, <4>4 DEF PlaceInv
      <4> QED BY <4>2, <4>3, <4>4 DEF Procs
    <3>3. PICK q \in dirs : q # <<>> /\ Parent(q) = p
      BY <3>1, <3>2 DEF Busy
    <3>4. q \in Path /\ InJob(q) /\ Len(q) # 2
      <4>1. q \in Path
        BY <1>0
      <4>2. Len(q) \in Nat /\ Len(p) = Len(q) - 1
        <5>1. PathFact(q)
          BY <4>1, PathLen
        <5> QED BY <3>3, <5>1 DEF PathFact
      <4>3. Len(p) > 1
        BY <1>3 DEF InJob
      <4>4. Len(q) > 1 /\ Len(q) # 2
        <5> DEFINE n == Len(q)
                   m == Len(p)
        <5>1. n \in Nat /\ m = n - 1 /\ m > 1
          BY <4>2, <4>3
        <5> HIDE DEF n, m
        <5>2. n > 1 /\ n # 2
          BY <5>1
        <5> QED BY <5>2 DEF n
      <4> QED BY <4>1, <4>4 DEF InJob
    <3>5. q[2] = p[2]
      BY <3>3, <3>4, SecondOf
    <3>6. Below(q, p)
      BY <3>3, <3>4, ParentBelow
    <3>7. q \notin sweep
      BY <1>1, <3>6
    <3> QED BY <2>0, <3>4, <3>5, <3>7 DEF Holding
  <2> QED BY <2>1, <2>2
<1>4. ASSUME NEW j \in Holding' PROVE j \in Holding
  <2>1. PICK q \in dirs' : InJob(q) /\ q[2] = j /\ (q \notin sweep' \/ job'[j] = "running") /\ j \in Jobs
    BY DEF Holding
  <2>2. q \in dirs
    BY <1>2, <2>1
  <2>3. CASE q = p
    BY <1>2, <1>3, <2>1, <2>2, <2>3
  <2>4. CASE q # p
    BY <1>0, <1>1, <2>1, <2>2, <2>4 DEF Holding
  <2> QED BY <2>3, <2>4
<1> QED BY <1>4

\* Every step preserves HoldInv.
LEMMA HoldStep ==
  ASSUME IInv, ConfInv, Next, ~CtldFails, RootInv, StartedInv, PlaceInv, HoldInv PROVE HoldInv'
<1>0. Fit(Holding \cup {target[2]})' = Fit(Holding' \cup {target'[2]})
  BY DEF Fit, Grants
<1> SUFFICES ASSUME NEW s \in Steps, lock' = s, Len(target') = 2,
                    pc'[s] \in {"clean", "update", "migrate", "create"}
             PROVE  Fit(Holding' \cup {target'[2]})
  BY <1>0 DEF HoldInv
<1>1. /\ s \in Procs /\ Nobody \notin Procs /\ dirs \subseteq Path /\ PcOK
      /\ job \in [Jobs -> {"pending", "running", "done"}]
  BY NobodyFacts DEF IInv, TypeOK, PcOK, Procs
<1>2. ASSUME NEW x \in Procs, pc[x] = "clean" PROVE lock = x
  BY <1>1, <1>2 DEF PcOK, HolderPC
<1>3. ASSUME lock = s, target' = target, Holding' \subseteq Holding,
             pc[s] \in {"clean", "update", "migrate", "create"}
      PROVE  Fit(Holding' \cup {target'[2]})
  <2>1. Fit(Holding \cup {target[2]})
    BY <1>3 DEF HoldInv
  <2> QED BY <1>3, <2>1, FitSub
<1>4. ASSUME NEW h \in Procs, Holder(h) PROVE Fit(Holding' \cup {target'[2]})
  <2>1. Holder(s)
    BY <1>1, <1>4, HolderLock
  <2>2. /\ lock = s /\ target' = target /\ ~Unlock(s) /\ ~JobCpusetCreate(s)
        /\ pc[s] \in {"initslurm", "clean", "update", "migrate"}
        /\ \/ InitSlurm(s) /\ pc'[s] = "migrate"
           \/ SlurmCpusetClean(s)
           \/ CleanDone(s)
           \/ UpdateUserCpusets(s) /\ pc'[s] = pc[s] /\ pc[s] = "update"
           \/ UpdateDone(s) /\ pc'[s] = "migrate" /\ pc[s] = "update"
           \/ Migrate(s) /\ pc'[s] = "create" /\ pc[s] = "migrate"
    BY <2>1, HoldFrom
  <2>3. CASE InitSlurm(s)
    <3>1. pc[s] = "initslurm" /\ dirs' = dirs
      BY <2>3 DEF InitSlurm
    <3>2. dirs = {<<>>}
      BY <1>1, <3>1 DEF RootInv
    <3>3. Holding' = {}
      <4>1. ~InJob(<<>>)
        BY TupleLen DEF InJob
      <4> QED BY <3>1, <3>2, <4>1 DEF Holding
    <3>4. target[2] = StepJob[s] /\ StepJob[s] \in Jobs
      BY <2>2, TargetShape, ConfinedJob, CpusetAssumption
    <3>5. job[StepJob[s]] = "running"
      BY <3>1 DEF PlaceInv
    <3>6. Holding' \cup {target'[2]} \subseteq RunningJobs
      BY <2>2, <3>3, <3>4, <3>5 DEF RunningJobs
    <3> QED BY <3>6, FitSub DEF StartedInv
  <2>4. CASE SlurmCpusetClean(s)
    <3>1. pc[s] = "clean"
      BY <2>4 DEF SlurmCpusetClean
    <3> QED BY <1>1, <1>3, <2>2, <2>4, <3>1, CleanHolding
  <2>5. CASE ~InitSlurm(s) /\ ~SlurmCpusetClean(s)
    <3>1. sweep = {}
      <4>1. CASE CleanDone(s)
        BY <4>1 DEF CleanDone
      <4>2. CASE pc[s] # "clean"
        BY <1>2, <2>2, <4>2 DEF RootInv
      <4> QED BY <2>2, <2>5, <4>1, <4>2
    <3>2. job' = job
      BY <2>2, <2>5 DEF CleanDone, UpdateUserCpusets, UpdateDone, Migrate
    <3>3. ASSUME NEW j \in Holding' PROVE j \in Holding
      <4>1. PICK q \in dirs' : InJob(q) /\ q[2] = j /\ j \in Jobs
        BY DEF Holding
      <4>2. PICK p \in dirs : InJob(p) /\ p[2] = j
        BY <1>1, <2>1, <2>2, <4>1, HolderDirs
      <4> QED BY <3>1, <4>1, <4>2 DEF Holding
    <3>4. pc[s] # "initslurm"
      BY <2>2, <2>5 DEF CleanDone
    <3> QED BY <1>3, <2>2, <3>3, <3>4
  <2> QED BY <2>3, <2>4, <2>5
<1>5. CASE \A h \in Procs : ~Holder(h)
  <2>1. CASE Undisturbed(s)
    <3>1. ASSUME NEW j \in Holding' PROVE j \in Holding
      <4>1. PICK q \in dirs : InJob(q) /\ q[2] = j /\ j \in Jobs /\ (q \notin sweep \/ job'[j] = "running")
        BY <2>1 DEF Holding, Undisturbed
      <4>2. job[j] # "pending"
        BY <4>1 DEF StartedInv
      <4>3. job'[j] = "running" => job[j] = "running"
        BY <1>1, <4>1, <4>2, JobMoves
      <4> QED BY <4>1, <4>3 DEF Holding
    <3> QED BY <1>3, <2>1, <3>1 DEF Undisturbed
  <2>2. CASE lock = Nobody
    <3>1. SpankInit(s)
      BY <2>2, StepLocks
    <3>2. /\ target' = JobPath(StepJob[s]) /\ job[StepJob[s]] = "running" /\ job' = job
          /\ StepJob[s] \in Jobs
      BY <3>1, CpusetAssumption DEF SpankInit
    <3>3. dirs' = dirs /\ sweep' = dirs \ {<<>>}
      BY <1>1, <3>1 DEF SpankInit, SlurmCpusetCreate, Goto, PcOK
    <3>4. ASSUME NEW j \in Holding' PROVE j \in RunningJobs
      <4>1. PICK q \in dirs : InJob(q) /\ q[2] = j /\ j \in Jobs /\ (q \notin sweep' \/ job'[j] = "running")
        BY <3>3 DEF Holding
      <4>2. q # <<>>
        BY <4>1, TupleLen DEF InJob
      <4> QED BY <3>2, <3>3, <4>1, <4>2 DEF RunningJobs
    <3>5. Holding' \cup {target'[2]} \subseteq RunningJobs
      <4>1. target'[2] = StepJob[s]
        BY <3>2, JobPathFacts
      <4>2. StepJob[s] \in RunningJobs
        BY <3>2 DEF RunningJobs
      <4> QED BY <3>4, <4>1, <4>2
    <3> QED BY <3>5, FitSub DEF StartedInv
  <2> QED BY <1>1, <1>5, <2>1, <2>2, HolderAlone
<1> QED BY <1>4, <1>5

-----------------------------------------------------------------------------
(* RefreshInv: what update_user_cpusets leaves.                            *)

\* After a user's turn the user cpuset has the CPUs of the jobs in it; nobody
\* else's gains any.
LEMMA UpdateRefresh ==
  ASSUME IInv, ~KillOrphans, <<>> \in dirs, cpus[<<>>] = CPU, NEW h \in Procs,
         NEW u \in Users, NEW n1, UserCpusetUpdate(h, u, KidCpus(Top(u)), n1, n1),
         NEW v \in Users, Top(v) \in dirs',
         v = u \/ cpus[Top(v)] \subseteq KidCpus(Top(v))
  PROVE  cpus'[Top(v)] \subseteq KidCpus(Top(v))'
<1> DEFINE used == KidCpus(Top(u))
<1>0. /\ TreeOK /\ dirs \subseteq Path /\ cpus \in [Path -> SUBSET CPU] /\ NoOrphanTwin
      /\ \A w \in Users : /\ Top(w) \in Path /\ Top(w) # <<>> /\ Len(Top(w)) = 1
                          /\ Parent(Top(w)) = <<>> /\ Top(w) = TopOf(w, FALSE)
                          /\ OrphanOf(w) = TopOf(w, ~FALSE)
  BY IInvTree, TopPath, TopDef DEF TreeOK, TreeType
<1>a. KidCpus(Top(v))' = UNION {cpus'[q] : q \in {k \in dirs' : k # <<>> /\ Parent(k) = Top(v)}}
  BY DEF KidCpus, Kids, Top, Parent
<1>b. KidCpus(Top(v)) = UNION {cpus[q] : q \in {k \in dirs : k # <<>> /\ Parent(k) = Top(v)}}
  BY DEF KidCpus, Kids
<1>1. CASE used = {} /\ Rename(Top(u), OrphanOf(u)) /\ CanRename(Top(u), OrphanOf(u))
  <2> DEFINE R(p) == Renamed(p, TopOf(u, FALSE), TopOf(u, ~FALSE))
  <2>0. /\ \A p \in dirs : R(p) \in dirs' /\ cpus'[R(p)] = cpus[p]
        /\ \A q \in dirs' : \E p \in dirs : q = R(p)
    BY <1>0, <1>1, RenameMoves DEF CanRename
  <2>1. Top(v)[1] # OrphanOf(u)[1] /\ (v # u => Top(v)[1] # Top(u)[1])
    BY <1>0, TopInj
  <2>2. v # u
    <3>1. SUFFICES ASSUME v = u PROVE FALSE
      OBVIOUS
    <3>2. PICK p \in dirs : Top(u) = R(p)
      BY <2>0, <3>1
    <3>3. p \in Path
      BY <1>0
    <3>4. RenFact(p, R(p), TopOf(u, FALSE), TopOf(u, ~FALSE))
      BY <3>3, RenamedPath
    <3>5. p # <<>> /\ p[1] # Top(u)[1] /\ R(p) = p
      <4>1. p # <<>>
        <5>1. CASE p = <<>>
          BY <1>0, <3>2, <3>4, <5>1 DEF RenFact
        <5> QED BY <5>1
      <4>2. p[1] # Top(u)[1]
        BY <1>0, <2>1, <3>1, <3>2, <3>4, <4>1 DEF RenFact
      <4> QED BY <1>0, <3>4, <4>1, <4>2 DEF RenFact
    <3> QED BY <3>2, <3>5
  <2>3. ASSUME NEW p \in dirs, p # <<>>, p[1] = Top(v)[1] PROVE R(p) = p
    <3>1. p \in Path
      BY <1>0
    <3>2. RenFact(p, R(p), TopOf(u, FALSE), TopOf(u, ~FALSE))
      BY <3>1, RenamedPath
    <3> QED BY <1>0, <2>1, <2>2, <2>3, <3>2 DEF RenFact
  <2>4. Top(v) \in dirs
    <3>1. PICK p \in dirs : Top(v) = R(p)
      BY <2>0
    <3>2. p \in Path
      BY <1>0
    <3>3. RenFact(p, R(p), TopOf(u, FALSE), TopOf(u, ~FALSE))
      BY <3>2, RenamedPath
    <3>4. p # <<>>
      <4>1. CASE p = <<>>
        BY <1>0, <3>1, <3>3, <4>1 DEF RenFact
      <4> QED BY <4>1
    <3>5. p[1] # Top(u)[1]
      BY <1>0, <2>1, <3>1, <3>3, <3>4 DEF RenFact
    <3>6. R(p) = p
      BY <1>0, <3>3, <3>4, <3>5 DEF RenFact
    <3> QED BY <3>1, <3>6
  <2>5. cpus'[Top(v)] = cpus[Top(v)]
    BY <1>0, <2>0, <2>3, <2>4
  <2>6. ASSUME NEW k \in dirs, k # <<>>, Parent(k) = Top(v) PROVE k \in dirs' /\ cpus'[k] = cpus[k]
    <3>1. k \in Path
      BY <1>0
    <3>2. k[1] = Top(v)[1]
      <4>1. Len(k) > 1
        <5>1. Len(k) \in {1, 2, 3, 4} /\ Len(k) # 1
          BY <1>0, <2>6, <3>1, ParentFacts
        <5> QED BY <5>1
      <4> QED BY <2>6, <3>1, <4>1, PathLen DEF PathFact
    <3> QED BY <2>0, <2>3, <2>6, <3>2
  <2> QED BY <1>a, <1>b, <2>2, <2>5, <2>6
<1>2. CASE used = {} /\ ~CanRename(Top(u), OrphanOf(u)) /\ UNCHANGED <<dirs, cpus>>
  <2>1. v # u
    BY <1>0, <1>2 DEF CanRename, NoOrphanTwin
  <2> QED BY <1>2, <1>a, <1>b, <2>1
<1>3. CASE used # {} /\ dirs' = dirs /\ cpus' = [cpus EXCEPT ![Top(u)] = used]
  <2>1. ASSUME NEW k \in dirs, k # <<>>, Parent(k) = Top(v) PROVE k # Top(u)
    BY <1>0, <2>1
  <2>2. KidCpus(Top(v))' = KidCpus(Top(v))
    BY <1>0, <1>3, <1>a, <1>b, <2>1
  <2>3. CASE v = u
    BY <1>0, <1>3, <2>2, <2>3
  <2>4. CASE v # u
    <3>1. Top(v) # Top(u)
      BY <2>4 DEF Top
    <3> QED BY <1>0, <1>3, <2>2, <2>4, <3>1
  <2> QED BY <2>3, <2>4
<1>4. used # {} => ModifyResult(Top(u), used) = "ok"
  <2>1. used \in SUBSET CPU /\ cpus[Parent(Top(u))] = CPU
    BY <1>0, KidCpusType
  <2> QED BY <2>1 DEF ModifyResult
<1> QED
  BY <1>1, <1>2, <1>3, <1>4 DEF UserCpusetUpdate, OrphanUser, UserCpusetOrphan

\* user_cpuset_update makes no user cpuset.
LEMMA UserUpdateTops ==
  ASSUME IInv, NEW h, NEW u \in Users, NEW used, NEW n1, NEW n2,
         UserCpusetUpdate(h, u, used, n1, n2), NEW v \in Users, Top(v) \in dirs'
  PROVE  Top(v) \in dirs
<1>1. CASE dirs' = dirs
  BY <1>1
<1>2. CASE CanRename(Top(u), OrphanOf(u)) /\ Rename(Top(u), OrphanOf(u))
  <2>0. /\ TreeOK /\ dirs \subseteq Path /\ Top(v) = TopOf(v, FALSE) /\ Top(u) = TopOf(u, FALSE)
        /\ OrphanOf(u) = TopOf(u, ~FALSE) /\ Len(Top(v)) = 1
    BY IInvTree, TopDef, TopPath DEF TreeOK, TreeType
  <2>1. PICK p \in dirs : Top(v) = Renamed(p, TopOf(u, FALSE), TopOf(u, ~FALSE))
    BY <1>2, <2>0, RenameMoves DEF CanRename
  <2>2. p \in Path
    BY <2>0
  <2>3. RenFact(p, Top(v), TopOf(u, FALSE), TopOf(u, ~FALSE))
    BY <2>1, <2>2, RenamedPath
  <2>4. Top(v)[1] # OrphanOf(u)[1]
    BY <2>0, TopInj
  <2>5. Top(v) = p
    BY <2>0, <2>3, <2>4 DEF RenFact
  <2> QED BY <2>5
<1> QED BY <1>1, <1>2 DEF UserCpusetUpdate, OrphanUser, KillOrphan, UserCpusetOrphan

\* Every step preserves RefreshInv.
LEMMA RefreshStep ==
  ASSUME IInv, Next, ~CtldFails, ~KillOrphans, FullJobs, RootInv, RefreshInv PROVE RefreshInv'
<1> DEFINE Fresh(u) == cpus[Top(u)] \subseteq KidCpus(Top(u))
<1> SUFFICES ASSUME NEW s \in Steps, lock' = s, Len(target') = 2,
                    pc'[s] \in {"update", "migrate", "create"}
             PROVE  /\ \A u \in Users : Top(u) \in dirs' =>
                         (pc'[s] = "update" /\ u \in pending') \/ Fresh(u)'
                    /\ pc'[s] = "create" => target' \notin dirs'
  <2>1. \A u : Top(u)' = Top(u)
    BY DEF Top
  <2> QED BY <2>1 DEF RefreshInv
<1>1. /\ s \in Procs /\ Nobody \notin Procs /\ PcOK
      /\ <<>> \in dirs \/ lock = Nobody
  BY NobodyFacts DEF IInv, TypeOK, PcOK, Procs, RootInv
<1>2. ASSUME lock = s, target' = target, UNCHANGED <<dirs, cpus>>, NEW u \in Users,
             Fresh(u)
      PROVE  Fresh(u)'
  BY <1>2 DEF KidCpus, Kids, Top, Parent
<1>3. ASSUME NEW h \in Procs, Holder(h)
      PROVE  /\ \A u \in Users : Top(u) \in dirs' =>
                  (pc'[s] = "update" /\ u \in pending') \/ Fresh(u)'
             /\ pc'[s] = "create" => target' \notin dirs'
  <2>1. Holder(s)
    BY <1>1, <1>3, HolderLock
  <2>2. /\ lock = s /\ target' = target /\ ~Unlock(s) /\ ~JobCpusetCreate(s)
        /\ pc[s] \in {"initslurm", "clean", "update", "migrate"}
        /\ \/ InitSlurm(s) /\ pc'[s] = "migrate"
           \/ SlurmCpusetClean(s)
           \/ CleanDone(s)
           \/ UpdateUserCpusets(s) /\ pc'[s] = pc[s] /\ pc[s] = "update"
           \/ UpdateDone(s) /\ pc'[s] = "migrate" /\ pc[s] = "update"
           \/ Migrate(s) /\ pc'[s] = "create" /\ pc[s] = "migrate"
    BY <2>1, HoldFrom
  <2>3. CASE InitSlurm(s)
    <3>1. dirs' = {<<>>}
      BY <1>1, <2>3 DEF InitSlurm, RootInv
    <3>2. \A u : Top(u) # <<>>
      BY DEF Top
    <3> QED BY <2>2, <2>3, <3>1, <3>2 DEF InitSlurm, Goto, AfterClean, IInv, TypeOK
  <2>4. ~SlurmCpusetClean(s)
    BY DEF SlurmCpusetClean
  <2>5. CASE CleanDone(s)
    <3>1. pc'[s] = "update" /\ pending' = UsersListed /\ dirs' = dirs
      BY <1>1, <2>5 DEF CleanDone, Goto, PcOK
    <3> QED BY <3>1 DEF UsersListed
  <2>6. CASE UpdateUserCpusets(s) /\ pc'[s] = pc[s] /\ pc[s] = "update"
    <3>1. PICK u \in pending : /\ pending' = pending \ {u}
                               /\ UserCpusetUpdate(s, u, KidCpus(Top(u)), pc[s], pc[s])
      BY <2>6 DEF UpdateUserCpusets
    <3>2. u \in Users /\ <<>> \in dirs /\ cpus[<<>>] = CPU
      <4>1. \A x \in Procs : pc[x] # "initslurm"
        BY <1>1, <2>2, <2>6 DEF PcOK, HolderPC
      <4>2. <<>> \in dirs
        BY <1>1, <2>2
      <4> QED BY <4>1, <4>2 DEF IInv, TypeOK, RootInv
    <3>3. ASSUME NEW v \in Users, Top(v) \in dirs', v \notin pending' PROVE Fresh(v)'
      <4>1. v = u \/ Fresh(v)
        <5>1. CASE v # u
          <6>1. v \notin pending
            BY <3>1, <3>3, <5>1
          <6>2. Top(v) \in dirs
            <7>1. Len(Top(v)) = 1 /\ Top(v) = TopOf(v, FALSE)
              BY TopPath, TopDef
            <7> QED BY <3>1, <3>2, <3>3, <7>1, UserUpdateTops DEF IInv
          <6> QED BY <2>2, <2>6, <6>1, <6>2 DEF RefreshInv
        <5> QED BY <5>1
      <4>2. cpus'[Top(v)] \subseteq KidCpus(Top(v))'
        BY <1>1, <3>1, <3>2, <3>3, <4>1, UpdateRefresh
      <4> QED BY <4>2 DEF Top
    <3> QED BY <2>6, <3>3
  <2>7. CASE UpdateDone(s) /\ pc'[s] = "migrate" /\ pc[s] = "update"
    <3>1. pending = {} /\ UNCHANGED <<dirs, cpus>>
      BY <2>7 DEF UpdateDone
    <3>2. \A u \in Users : Top(u) \in dirs => Fresh(u)
      BY <2>2, <2>7, <3>1 DEF RefreshInv
    <3> QED BY <1>2, <2>2, <2>7, <3>1, <3>2
  <2>8. CASE Migrate(s) /\ pc'[s] = "create" /\ pc[s] = "migrate"
    <3>1. UNCHANGED <<dirs, cpus>> /\ Len(target) = 2
      BY <2>2, <2>8 DEF Migrate
    <3>2. \A u \in Users : Top(u) \in dirs => Fresh(u)
      BY <2>2, <2>8, <3>1 DEF RefreshInv
    <3>3. target \notin dirs
      <4>1. ~CanEnter(target) \/ loc[s] = Gone
        BY <1>1, <2>8, <3>1 DEF Migrate, Goto, PcOK
      <4>2. loc[s] = Root
        <5>1. Len(target) = 2 /\ WorkingOn(s)
          BY <2>2, <3>1, TargetShape
        <5> QED BY <2>8, <5>1 DEF WorkingOn, StageTwo
      <4>3. TreeOK
        BY IInvTree
      <4>4. target \in dirs => cpus[target] # {}
        BY <3>1, <4>3, JobHasCpus
      <4> QED BY <4>1, <4>2, <4>4, LocationAssumption DEF CanEnter
    <3> QED BY <1>2, <2>2, <2>8, <3>1, <3>2, <3>3
  <2> QED BY <2>2, <2>3, <2>4, <2>5, <2>6, <2>7, <2>8
<1>4. CASE \A h \in Procs : ~Holder(h)
  <2>1. CASE Undisturbed(s)
    <3>1. /\ \A u \in Users : Top(u) \in dirs => (pc[s] = "update" /\ u \in pending) \/ Fresh(u)
          /\ pc[s] = "create" => target \notin dirs
      BY <2>1 DEF Undisturbed, RefreshInv
    <3> QED BY <1>2, <2>1, <3>1 DEF Undisturbed
  <2>2. ASSUME lock = Nobody PROVE FALSE
    <3>1. SpankInit(s)
      BY <2>2, StepLocks
    <3>2. pc'[s] \in {"clean", "initslurm", "failing"}
      BY <1>1, <3>1, CreateNotMid DEF SpankInit
    <3> QED BY <3>2
  <2> QED BY <1>1, <1>4, <2>1, <2>2, HolderAlone
<1> QED BY <1>3, <1>4

-----------------------------------------------------------------------------
(* GrantedFits.                                                            *)

\* What the jobs with a cpuset leave free is enough for the new one.
LEMMA FitsEnough ==
  ASSUME IInv, FullJobs, RootInv, StartedInv, PlaceInv, HoldInv, RefreshInv PROVE GrantedFits
<1> SUFFICES ASSUME NEW s \in Steps, pc[s] = "create", Len(target) = 2
             PROVE  JobCpus[target[2]] <= Cardinality(Free(s))
  BY DEF GrantedFits
<1>0. /\ s \in Procs /\ TreeOK /\ TreeInv /\ dirs \subseteq Path /\ cpus \in [Path -> SUBSET CPU]
      /\ PcOK /\ Nobody \notin Procs
  BY IInvTree, NobodyFacts DEF TreeOK, TreeType, IInv, TypeOK, PcOK, Procs
<1>1. lock = s /\ s # Nobody
  BY <1>0, HolderIs DEF HolderPC
<1>3. loc[s] = Root /\ \E j \in Jobs : target = JobPath(j)
  BY <1>0, <1>1, StepTarget
<1>2. PICK j \in Jobs : target = JobPath(j) /\ target[2] = j
  BY <1>3, JobPathFacts
<1>4. cpus[<<>>] = CPU /\ sweep = {}
  <2>1. \A x \in Procs : pc[x] \notin {"initslurm", "clean"}
    BY <1>0, <1>1 DEF PcOK, HolderPC
  <2> QED BY <1>1, <2>1 DEF RootInv
<1> DEFINE W == UNION {cpus[q] : q \in {k \in Kids(<<>>) : ~IsOrphan(k)}}
           S == {i \in Jobs : \E p \in dirs : Len(p) = 2 /\ p[2] = i}
           C == [i \in S |-> cpus[JobPath(i)]]
<1>5. Free(s) = CPU \ W
  BY <1>3, <1>4 DEF Free
<1>6. ASSUME NEW p \in dirs, Len(p) = 2 PROVE p = JobPath(p[2]) /\ p[2] \in Jobs
  <2>1. p[2] \in Jobs /\ ~IsOrphan(p) /\ p \in Path
    BY <1>0, <1>6, JobHasCpus
  <2>2. PICK i \in Jobs, o \in BOOLEAN : p = PathOfJob(i, o)
    <3>1. ASSUME NEW i \in Steps, NEW o \in BOOLEAN, p = StepPath(i, o) PROVE FALSE
      BY <1>6, <3>1, TupleLen DEF StepPath
    <3>2. ASSUME NEW t \in Tasks, NEW o \in BOOLEAN, p = TaskPath(t, o) PROVE FALSE
      BY <1>6, <3>2, TupleLen DEF TaskPath
    <3>3. p # <<>> /\ \A n : p # <<n>>
      <4>1. p # <<>>
        BY <1>6, <2>1, PathLen DEF PathFact
      <4>2. ASSUME NEW n, p = <<n>> PROVE FALSE
        <5>1. Len(p) = 1
          BY <4>2, TupleLen
        <5> QED BY <1>6, <5>1
      <4> QED BY <4>1, <4>2
    <3> QED BY <2>1, <3>1, <3>2, <3>3, PathCases
  <2>3. p[2] = i /\ p # <<>> /\ p[1].orphan = o
    BY <2>2, TupleLen DEF PathOfJob, JobTop
  <2>4. o = FALSE
    BY <2>1, <2>3 DEF IsOrphan
  <2> QED BY <2>2, <2>3, <2>4, JobPathFacts
<1>7. j \notin S
  <2>1. target \notin dirs
    BY <1>1 DEF RefreshInv
  <2> QED BY <1>2, <1>6, <2>1
<1>8. S \cup {j} \subseteq Holding \cup {target[2]}
  BY <1>2, <1>4 DEF Holding, InJob
<1>9. Fit(S \cup {j}) /\ Fit(S)
  <2>1. Fit(Holding \cup {target[2]})
    BY <1>1 DEF HoldInv
  <2> QED BY <1>8, <2>1, FitSub
<1>10. \A i \in S : C[i] \in SUBSET CPU /\ Cardinality(C[i]) = JobCpus[i]
  <2>1. SUFFICES ASSUME NEW i \in S PROVE C[i] \in SUBSET CPU /\ Cardinality(C[i]) = JobCpus[i]
    OBVIOUS
  <2>2. PICK p \in dirs : Len(p) = 2 /\ p[2] = i
    OBVIOUS
  <2>3. p = JobPath(i) /\ p \in Path
    BY <1>0, <1>6, <2>2
  <2> QED BY <1>0, <2>2, <2>3 DEF FullJobs
<1>11. \A c \in W : \E i \in S : c \in C[i]
  <2>1. SUFFICES ASSUME NEW q \in dirs, q # <<>>, Parent(q) = <<>>, ~IsOrphan(q), NEW c \in cpus[q]
                 PROVE  \E i \in S : c \in C[i]
    BY DEF Kids
  <2>2. PICK u \in Users : q = Top(u)
    <3>1. q \in Path /\ Len(q) = 1
      BY <1>0, <2>1, ParentFacts
    <3>2. q = <<q[1]>> /\ q[1] \in TopName
      BY <2>1, <3>1, PathLen DEF PathFact
    <3>3. q[1].orphan = FALSE /\ q[1].uid \in Users /\ q[1] = [uid |-> q[1].uid, orphan |-> q[1].orphan]
      BY <2>1, <3>2 DEF IsOrphan, TopName
    <3> QED BY <3>2, <3>3 DEF Top
  <2>3. c \in KidCpus(Top(u))
    BY <1>1, <2>1, <2>2 DEF RefreshInv
  <2>4. PICK p \in dirs : p \in Kids(Top(u)) /\ c \in cpus[p]
    BY <2>3 DEF KidCpus, Kids
  <2>5. Len(p) = 2
    BY <1>0, <2>4, KidIsJob
  <2>6. p = JobPath(p[2]) /\ p[2] \in S
    BY <1>6, <2>5
  <2> QED BY <2>4, <2>6
<1> HIDE DEF W, S, C
<1>12. Cardinality(W) <= Cardinality(Grants(S))
  <2>1. C \in [S -> SUBSET CPU] /\ S \in SUBSET Jobs
    BY <1>10 DEF C, S
  <2>2. IsFiniteSet(Grants(S))
    BY <1>9 DEF Fit
  <2> QED BY <1>10, <1>11, <2>1, <2>2, UnionFits
<1>13. Cardinality(Grants(S \cup {j})) = Cardinality(Grants(S)) + JobCpus[j]
  BY <1>7, <1>9, GrantsAdd DEF Fit
<1>14. W \in SUBSET CPU
  <2>1. \A i \in S : C[i] \in SUBSET CPU
    BY <1>10
  <2> QED BY <1>11, <2>1
<1>15. Cardinality(CPU \ W) = Cardinality(CPU) - Cardinality(W)
  <2>1. CPU \cap W = W
    BY <1>14
  <2> QED BY <2>1, FS_Difference, CpusetAssumption
<1>16. /\ Cardinality(CPU) \in Nat /\ Cardinality(W) \in Nat /\ JobCpus[j] \in Nat
       /\ Cardinality(Grants(S)) \in Nat
  BY <1>9, <1>14, CpusFinite, FS_CardinalityType, CpusetAssumption DEF Fit
<1>17. Cardinality(Grants(S \cup {j})) <= Cardinality(CPU)
  BY <1>9 DEF Fit
<1> QED BY <1>2, <1>5, <1>12, <1>13, <1>15, <1>16, <1>17

\* It holds at first: there is no cpuset, and no job runs.
LEMMA FitsInit ==
  ASSUME Init PROVE FitsInv
<1>0. IInv
  BY InitInv
<1>1. /\ dirs = IF SlurmReady THEN {<<>>} ELSE {}
      /\ cpus = [p \in Path |-> IF SlurmReady /\ p = <<>> THEN CPU ELSE {}]
      /\ \A x \in Procs : pc[x] \in {"idle", "new"} /\ loc[x] \in {Root, Gone}
      /\ \A x \in Steps \cup Tasks : x # Agent => pc[x] = "new" /\ loc[x] = Gone
      /\ \A j \in Jobs : job[j] = "pending"
      /\ lock = Nobody /\ sweep = {} /\ target = <<>> /\ snap = {}
  BY DEF Init, Procs
<1>2. ~InJob(<<>>) /\ <<>> \in Path
  BY TupleLen, TuplePath DEF InJob
<1>3. RootInv
  BY <1>1, <1>2 DEF RootInv
<1>4. StartedInv
  <2>1. RunningJobs = {}
    BY <1>1 DEF RunningJobs
  <2>2. Grants(RunningJobs) = {}
    BY <2>1 DEF Grants
  <2>3. Fit(RunningJobs)
    BY <2>2, FS_EmptySet, FS_CardinalityType, CpusetAssumption DEF Fit
  <2> QED BY <1>1, <1>2, <2>3 DEF StartedInv
<1>5. PlaceInv
  BY <1>1, LocationAssumption, CpusetAssumption DEF PlaceInv, Procs
<1>6. HoldInv /\ RefreshInv
  BY <1>1, CpusetAssumption DEF HoldInv, RefreshInv
<1> QED BY <1>3, <1>4, <1>5, <1>6 DEF FitsInv

\* It survives a step that changes nothing.
LEMMA FitsStutter ==
  ASSUME FitsInv, UNCHANGED vars PROVE FitsInv'
<1>0. UNCHANGED <<dirs, cpus, loc, job, pc, lock, sweep, pending, target, snap>>
  BY DEF vars, held
<1>1. RootInv' = RootInv
  BY <1>0 DEF RootInv
<1>2. StartedInv' = StartedInv
  BY <1>0 DEF StartedInv, Fit, Grants, RunningJobs, InJob
<1>3. PlaceInv' = PlaceInv
  BY <1>0 DEF PlaceInv, InJob
<1>4. HoldInv' = HoldInv
  BY <1>0 DEF HoldInv, Fit, Grants, Holding, InJob
<1>5. RefreshInv' = RefreshInv
  BY <1>0 DEF RefreshInv, KidCpus, Kids, Top, Parent
<1> QED BY <1>1, <1>2, <1>3, <1>4, <1>5 DEF FitsInv

\* Every step preserves FitsInv.
LEMMA FitsStep ==
  ASSUME TaskInv, LoginInv, FitsInv, Next PROVE FitsInv'
<1> SUFFICES ASSUME Undisturbing PROVE RootInv' /\ StartedInv' /\ PlaceInv' /\ HoldInv' /\ RefreshInv'
  BY DEF FitsInv
<1>1. /\ IInv /\ ConfInv /\ ForkInv /\ FullJobs /\ ~CtldFails /\ ~KillOrphans
      /\ SlurmReady \/ ~(MayCrash \/ SetupFails)
      /\ RootInv /\ StartedInv /\ PlaceInv /\ HoldInv /\ RefreshInv
  BY DEF TaskInv, LoginInv, LInv, Undisturbing, FitsInv
<1> QED BY <1>1, RootStep, StartedStep, PlaceStep, HoldStep, RefreshStep

\* A job that the controller placed on the node finds its CPUs free: when
\* slurm_spank_init gets to nodemap_allocate, slurm_cpuset_clean and
\* update_user_cpusets have returned the CPUs of every job that completed,
\* whoever crashed, logged in or cleaned up before. This needs a controller
\* that answers, no kill-orphs (a killed user's cpuset keeps its CPUs until its
\* processes are gone), and that making /slurm neither fails nor is cut short
\* by a crash, if it was not there before.
THEOREM GrantsFit == Spec => [](Undisturbing => GrantedFits)
<1>1. Init => FitsInv
  BY FitsInit
<1>2. TaskInv /\ LoginInv /\ FitsInv /\ [Next]_vars => FitsInv'
  BY FitsStep, FitsStutter
<1>3. TaskInv /\ LoginInv /\ FitsInv => (Undisturbing => GrantedFits)
  <2>1. ASSUME TaskInv, LoginInv, FitsInv, Undisturbing PROVE GrantedFits
    <3>1. /\ IInv /\ FullJobs /\ RootInv /\ StartedInv /\ PlaceInv /\ HoldInv /\ RefreshInv
      BY <2>1 DEF TaskInv, LoginInv, LInv, Undisturbing, FitsInv
    <3> QED BY <3>1, FitsEnough
  <2> QED BY <2>1
<1> QED BY <1>1, <1>2, <1>3, TaskInvariance, LoginInvariance, PTL DEF Spec

=============================================================================
