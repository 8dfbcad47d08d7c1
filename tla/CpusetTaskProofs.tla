-------------------------- MODULE CpusetTaskProofs --------------------------
(***************************************************************************)
(* What the tasks of a job may rely on, for any number of CPUs, users,     *)
(* jobs, steps, tasks and logins: a task runs in a cpuset of its job that  *)
(* exists and has CPUs (TasksConfined), nobody takes it away or changes    *)
(* its CPUs while the task runs (RunningKeepsCpus), and meanwhile nobody   *)
(* kills a login of the task's user (KillsNoWorker).                       *)
(*                                                                         *)
(* The argument: rmdir leaves a cpuset that has a process in it, cpusets   *)
(* within jobs are never modified, and a user cpuset is renamed only when  *)
(* no cpuset below it has CPUs (TreeInv); so a cpuset with CPUs and with a *)
(* process in it stays (HolderKeeps). ConfInv says that slurmstepd is in   *)
(* such a cpuset whenever it may fork a task.                              *)
(***************************************************************************)
EXTENDS CpusetProofs

-----------------------------------------------------------------------------
(* A cpuset that is in use stays.                                          *)

\* A cpuset within a job that has CPUs.
Usable(p) == p \in dirs /\ InJob(p) /\ cpus[p] # {}

\* It survives the step, and so do its CPUs.
Kept(p) == p \in dirs' /\ cpus'[p] = cpus[p]

\* The processes in it stay in it.
Stay(p) == \A x \in Procs : loc[x] = p => loc'[x] = p

\* rename(2) of another user's cpuset, or of one of that user under the other
\* name, does not touch a cpuset.
LEMMA RenameKeeps ==
  ASSUME IInv, NEW u \in Users, NEW o \in BOOLEAN, NEW p, Usable(p),
         TopOf(u, ~o) \notin dirs, Rename(TopOf(u, o), TopOf(u, ~o)),
         p[1] # TopOf(u, o)[1]
  PROVE  Kept(p) /\ Stay(p)
<1>0. /\ TreeOK /\ p \in Path /\ p # <<>> /\ dirs \subseteq Path /\ TreeInv
      /\ loc \in [Procs -> Path \cup {Root, Gone}]
  BY IInvTree, InJobFacts DEF TreeOK, TreeType, Usable, IInv, TypeOK
<1>1. <<p[1]>> \in dirs
  BY <1>0, TopIn DEF Usable
<1>2. p[1] # TopOf(u, ~o)[1]
  BY <1>0, <1>1 DEF TopOf
<1>3. Renamed(p, TopOf(u, o), TopOf(u, ~o)) = p
  BY DEF Renamed
<1>4. Kept(p)
  BY <1>0, <1>2, <1>3 DEF Rename, Kept, Usable
<1>5. ASSUME NEW x \in Procs, loc[x] = p PROVE loc'[x] = p
  BY <1>0, <1>3, <1>5 DEF Rename
<1> QED BY <1>4, <1>5 DEF Stay

\* user_cpuset_update, which orphans or kills only a user who has no CPUs.
LEMMA UserUpdateKeeps ==
  ASSUME IInv, NEW h \in Procs, NEW u \in Users, NEW used, NEW n1, NEW n2,
         used = {} => KidCpus(Top(u)) = {},
         UserCpusetUpdate(h, u, used, n1, n2), NEW p, Usable(p)
  PROVE  Kept(p) /\ Stay(p) /\ \A x \in Procs : x # h /\ loc[x] = p => pc'[x] = pc[x]
<1>0. /\ TreeOK /\ p \in Path /\ p # <<>> /\ Len(p) # 1
      /\ pc \in [Procs -> HolderPC \cup FreePC] /\ cpus \in [Path -> SUBSET CPU]
  BY IInvTree, InJobFacts DEF TreeOK, TreeType, Usable, IInv, TypeOK
<1>1. Top(u) = TopOf(u, FALSE) /\ OrphanOf(u) = TopOf(u, ~FALSE) /\ p # Top(u)
  BY <1>0, TopDef, TopPath
<1>2. CASE used = {} /\ KillOrphans /\ KillOrphan(h, u, n1)
  BY <1>0, <1>1, <1>2 DEF KillOrphan, Kept, Stay, Usable
<1>3. CASE used = {} /\ Goto(h, n1) /\ UserCpusetOrphan(u)
  <2>1. p[1] # TopOf(u, FALSE)[1]
    BY <1>0, <1>1, <1>3, NoCpusBelow DEF Usable
  <2>2. CASE CanRename(Top(u), OrphanOf(u))
    <3>1. Kept(p) /\ Stay(p)
      BY <1>1, <1>3, <2>1, <2>2, RenameKeeps DEF CanRename, UserCpusetOrphan
    <3> QED BY <1>0, <1>3, <3>1 DEF Goto
  <2>3. CASE ~CanRename(Top(u), OrphanOf(u))
    BY <1>0, <1>3, <2>3 DEF UserCpusetOrphan, Goto, Kept, Stay, Usable
  <2> QED BY <2>2, <2>3
<1>4. CASE used # {} /\ UNCHANGED <<dirs, loc>> /\ (\E l : Goto(h, l))
           /\ (cpus' = [cpus EXCEPT ![Top(u)] = used] \/ cpus' = cpus)
  BY <1>0, <1>1, <1>4 DEF Goto, Kept, Stay, Usable
<1> QED
  BY <1>2, <1>3, <1>4 DEF UserCpusetUpdate, OrphanUser

\* user_cpuset_unorphan: there is no CPU under the orphan, and nothing else
\* under the name it gets.
LEMMA UserDirKeeps ==
  ASSUME IInv, NEW h \in Procs, UserCpusetDir(h), NEW p, Usable(p)
  PROVE  Kept(p) /\ Stay(p)
<1>0. /\ TreeOK /\ p \in Path /\ p # <<>> /\ ~IsOrphan(p)
      /\ lock = h /\ pc[h] = "userdir"
  BY IInvTree, InJobFacts DEF TreeOK, TreeType, TreeInv, Usable, UserCpusetDir
<1>1. PICK j \in Jobs : target = JobPath(j)
  BY <1>0, StepTarget
<1> DEFINE u == target[1].uid
<1>2. /\ u \in Users
      /\ Top(u) = TopOf(u, ~TRUE) /\ OrphanOf(u) = TopOf(u, TRUE)
  BY <1>1, JobPathFacts, TopDef
<1>3. p[1] # TopOf(u, TRUE)[1]
  BY <1>0, <1>2 DEF IsOrphan, TopOf
<1>4. CASE CanRename(OrphanOf(u), Top(u)) /\ Rename(OrphanOf(u), Top(u))
  BY <1>2, <1>3, <1>4, RenameKeeps DEF CanRename
<1>5. CASE dirs' = dirs \cup {Top(u)} /\ UNCHANGED <<cpus, loc>>
  BY <1>5 DEF Kept, Stay, Usable
<1> QED BY <1>4, <1>5 DEF UserCpusetDir

\* slurm_cpuset_clean_path: rmdir fails on a cpuset with a process in it.
LEMMA CleanKeeps ==
  ASSUME IInv, NEW h, SlurmCpusetClean(h), NEW p, Usable(p), Members(loc, p) # {}
  PROVE  Kept(p)
<1>0. p \in Path /\ cpus \in [Path -> SUBSET CPU]
  BY IInvTree DEF TreeOK, TreeType, Usable
<1>1. PICK q \in sweep : \E valid : CleanPath(q, valid)
  BY DEF SlurmCpusetClean
<1>2. CASE UNCHANGED <<dirs, cpus>>
  BY <1>2 DEF Kept, Usable
<1>3. CASE ~Busy(dirs, loc, q) /\ dirs' = dirs \ {q} /\ cpus' = [cpus EXCEPT ![q] = {}]
  <2>1. q # p
    BY <1>3 DEF Busy
  <2> QED BY <1>0, <1>3, <2>1 DEF Kept, Usable
<1> QED BY <1>1, <1>2, <1>3 DEF CleanPath

\* Where the holder's step may take a process other than by staying put.
Moved(h, x) ==
  \/ /\ Migrate(h) /\ CanEnter(target) /\ loc'[x] = target
     /\ x = IF Len(target) = 4 THEN target[4] ELSE h
  \/ h \in Logins /\ x = h

\* Nothing that the holder of the lock does takes away a cpuset that has CPUs
\* and a process in it, and it moves no process but the ones it migrates.
LEMMA HolderKeeps ==
  ASSUME IInv, NEW h \in Procs, Holder(h), NEW p, Usable(p), Members(loc, p) # {}
  PROVE  /\ Kept(p)
         /\ \A x \in Procs : loc[x] = p => loc'[x] = p \/ Moved(h, x)
         /\ \A x \in Procs : loc[x] = p /\ x # h => pc'[x] = pc[x]
<1>0. /\ p \in Path /\ p # <<>> /\ cpus \in [Path -> SUBSET CPU] /\ target \in Path
      /\ pc \in [Procs -> HolderPC \cup FreePC] /\ loc \in [Procs -> Path \cup {Root, Gone}]
      /\ TreeOK /\ dirs \subseteq Path
  BY IInvTree, InJobFacts DEF TreeOK, TreeType, Usable, IInv, TypeOK
<1>a. ASSUME (\E l : Goto(h, l)) \/ pc' = pc
      PROVE  \A x \in Procs : loc[x] = p /\ x # h => pc'[x] = pc[x]
  BY <1>0, <1>a DEF Goto
<1>1. CASE InitSlurm(h)
  BY <1>0, <1>1, <1>a DEF InitSlurm, Kept, Usable
<1>2. CASE SlurmCpusetClean(h)
  BY <1>2, <1>a, CleanKeeps DEF SlurmCpusetClean
<1>3. CASE CleanDone(h) \/ UpdateDone(h) \/ CreateCpuset(h) \/ LoadJobs(h) \/ ScanJob(h)
  <2>1. UNCHANGED <<dirs, cpus, loc>> /\ ((\E l : Goto(h, l)) \/ pc' = pc)
    BY <1>3 DEF CleanDone, UpdateDone, CreateCpuset, LoadJobs, ScanJob
  <2> QED BY <1>a, <2>1 DEF Kept, Usable
<1>4. CASE UpdateUserCpusets(h)
  <2>1. PICK u \in pending : UserCpusetUpdate(h, u, KidCpus(Top(u)), pc[h], pc[h])
    BY <1>4 DEF UpdateUserCpusets
  <2>2. u \in Users
    BY DEF IInv, TypeOK
  <2> QED BY <2>1, <2>2, UserUpdateKeeps DEF Stay
<1>5. CASE UserCpusetDir(h)
  BY <1>5, <1>a, UserDirKeeps DEF UserCpusetDir, Stay
<1>6. CASE UserCpusetModify(h)
  <2> DEFINE u == target[1].uid
             used == (IF unorphan THEN {} ELSE KidCpus(Top(u))) \cup alloc
  <2>1. UserCpusetUpdate(h, u, used, "mkdir", CreateFailed(h)) /\ lock = h /\ pc[h] = "usermod"
    BY <1>6 DEF UserCpusetModify
  <2>2. PICK j \in Jobs : target = JobPath(j)
    BY <2>1, StepTarget
  <2>3. u \in Users
    BY <2>2, JobPathFacts
  <2>4. used = {} => KidCpus(Top(u)) = {}
    BY <2>1 DEF IInv, AllocInv
  <2> HIDE DEF used, u
  <2> QED BY <2>1, <2>3, <2>4, UserUpdateKeeps DEF Stay
<1>7. CASE JobCpusetCreate(h)
  <2>1. loc' = loc /\ (\E l : Goto(h, l))
    BY <1>7 DEF JobCpusetCreate
  <2>2. Kept(p)
    BY <1>0, <1>7 DEF JobCpusetCreate, Kept, Usable
  <2> QED BY <1>a, <2>1, <2>2
<1>8. CASE Migrate(h)
  <2>1. UNCHANGED <<dirs, cpus>> /\ (\E l : Goto(h, l))
    BY <1>8 DEF Migrate
  <2>2. ASSUME NEW x \in Procs, loc[x] = p PROVE loc'[x] = p \/ Moved(h, x)
    BY <1>0, <1>8, <2>2 DEF Migrate, Moved
  <2> QED BY <1>a, <2>1, <2>2 DEF Kept, Usable
<1>9. CASE Unlock(h)
  <2>1. UNCHANGED <<dirs, cpus>> /\ (\E l : Goto(h, l))
    BY <1>9 DEF Unlock
  <2>2. h \in Logins \/ AfterUnlock(h) # "denied"
    BY DEF AfterUnlock
  <2>3. ASSUME NEW x \in Procs, loc[x] = p PROVE loc'[x] = p \/ Moved(h, x)
    BY <1>0, <1>9, <2>2, <2>3 DEF Unlock, Moved
  <2> QED BY <1>a, <2>1, <2>3 DEF Kept, Usable
<1>10. CASE h \in Logins /\ ScanDone(h)
  <2>1. UNCHANGED <<dirs, cpus>> /\ (\E l : Goto(h, l))
    BY <1>10 DEF ScanDone
  <2>2. ASSUME NEW x \in Procs, loc[x] = p PROVE loc'[x] = p \/ Moved(h, x)
    BY <1>0, <1>10, <2>2 DEF ScanDone, Moved
  <2> QED BY <1>a, <2>1, <2>2 DEF Kept, Usable
<1> QED
  BY <1>1, <1>2, <1>3, <1>4, <1>5, <1>6, <1>7, <1>8, <1>9, <1>10 DEF Holder

\* Whoever does not hold the lock leaves the tree as it is.
LEMMA OthersKeep ==
  ASSUME Next PROVE (\E h \in Procs : Holder(h)) \/ (dirs \subseteq dirs' /\ cpus' = cpus)
<1>1. ASSUME NEW h, SlurmCpusetCreate(h) PROVE dirs \subseteq dirs' /\ cpus' = cpus
  BY <1>1 DEF SlurmCpusetCreate
<1>2. ASSUME NEW h, Dies(h) PROVE dirs \subseteq dirs' /\ cpus' = cpus
  BY <1>2 DEF Dies
<1>3. ASSUME NEW s, SpankInit(s) \/ SpankInitPostOpt(s) PROVE dirs \subseteq dirs' /\ cpus' = cpus
  BY <1>1, <1>3 DEF SpankInit, SpankInitPostOpt
<1>4. ASSUME NEW s, NEW t, ForkTask(s, t) \/ SpankTaskPostFork(s, t) \/ SpankTaskExit(s, t)
      PROVE  dirs \subseteq dirs' /\ cpus' = cpus
  BY <1>4 DEF ForkTask, SpankTaskPostFork, SpankTaskExit
<1>5. ASSUME NEW x, TaskExit(x) \/ Exit(x) PROVE dirs \subseteq dirs' /\ cpus' = cpus
  BY <1>5 DEF TaskExit, Exit
<1>6. ASSUME NEW x, PamAcctMgmt(x) \/ AgentStart PROVE dirs \subseteq dirs' /\ cpus' = cpus
  BY <1>1, <1>6 DEF PamAcctMgmt, AgentStart
<1>7. ASSUME NEW j, JobStart(j) \/ JobEnd(j) PROVE dirs \subseteq dirs' /\ cpus' = cpus
  BY <1>7 DEF JobStart, JobEnd
<1> QED BY <1>2, <1>3, <1>4, <1>5, <1>6, <1>7 DEF Next, Crash, GiveUp

\* A cpuset that has CPUs and a process in it stays, whoever moves.
LEMMA InUseKept ==
  ASSUME IInv, Next, NEW p, Usable(p), Members(loc, p) # {} PROVE Kept(p)
<1>1. CASE \E h \in Procs : Holder(h)
  BY <1>1, HolderKeeps
<1>2. CASE dirs \subseteq dirs' /\ cpus' = cpus
  BY <1>2 DEF Kept, Usable
<1> QED BY <1>1, <1>2, OthersKeep

\* A cpuset in which a step may run its tasks is one within a job.
LEMMA ConfinedUsable ==
  ASSUME NEW s \in Steps, NEW p, Confined(p, s) PROVE Usable(p) /\ p \in Path
<1>1. p \in Path /\ Len(p) \in {2, 3, 4}
  BY ShapeFacts DEF Confined
<1>2. InJob(p)
  BY <1>1, InJobFacts
<1> QED BY <1>1, <1>2 DEF Confined, Usable

\* ... and it remains one as long as a process is in it.
LEMMA ConfinedKept ==
  ASSUME IInv, Next, NEW s \in Steps, NEW x \in Procs, Confined(loc[x], s), loc'[x] = loc[x]
  PROVE  Confined(loc[x], s)'
<1>1. Usable(loc[x]) /\ Members(loc, loc[x]) # {}
  BY ConfinedUsable DEF Members
<1>2. Kept(loc[x])
  BY <1>1, InUseKept
<1> QED BY <1>2 DEF Kept, Confined, IsJobOf, IsStepOf, IsTaskOf, TasksOf, JobTop

\* A holder that is a slurmstepd works on a cpuset of its own step.
LEMMA TargetShape ==
  ASSUME IInv, NEW s \in Steps, lock = s
  PROVE  /\ WorkingOn(s)
         /\ IsJobOf(target, s) \/ IsStepOf(target, s) \/ IsTaskOf(target, s)
         /\ Len(target) = 4 => IsTaskOf(target, s) /\ target[4] \in TasksOf(s)
         /\ Len(target) # 4 => ~IsTaskOf(target, s)
<1>1. WorkingOn(s)
  BY DEF IInv, StepShape
<1>2. StepJob[s] \in Jobs
  BY CpusetAssumption
<1>3. target = JobPath(StepJob[s]) => IsJobOf(target, s)
  BY <1>2, JobPathFacts DEF IsJobOf, PathOfJob
<1> QED BY <1>1, <1>3, ShapeFacts DEF WorkingOn

-----------------------------------------------------------------------------
(* Where tasks and their daemons go.                                       *)

\* A process that does not exist is not moved by the holder of the lock.
LEMMA GoneStays ==
  ASSUME IInv, NEW h \in Procs, Holder(h), NEW x \in Procs, x # h, loc[x] = Gone
  PROVE  loc'[x] = Gone
<1>0. /\ loc \in [Procs -> Path \cup {Root, Gone}]
      /\ PcOK /\ DataOK /\ lock = h
  BY HolderLock DEF IInv, TypeOK, PcOK, DataOK, Procs
<1>1. CASE UNCHANGED loc
  BY <1>1
<1>2. CASE UpdateUserCpusets(h)
  <2>1. PICK u \in pending : UserCpusetUpdate(h, u, KidCpus(Top(u)), pc[h], pc[h])
    BY <1>2 DEF UpdateUserCpusets
  <2>2. u \in Users
    BY DEF IInv, TypeOK
  <2> QED BY <1>0, <2>1, <2>2, UserUpdateOthers
<1>3. CASE UserCpusetDir(h)
  BY <1>0, <1>3 DEF UserCpusetDir, Rename
<1>4. CASE UserCpusetModify(h)
  <2> DEFINE u == target[1].uid
             used == (IF unorphan THEN {} ELSE KidCpus(Top(u))) \cup alloc
  <2>1. UserCpusetUpdate(h, u, used, "mkdir", CreateFailed(h)) /\ pc[h] = "usermod"
    BY <1>4 DEF UserCpusetModify
  <2>2. PICK j \in Jobs : target = JobPath(j)
    BY <1>0, <2>1, StepTarget
  <2>3. u \in Users
    BY <2>2, JobPathFacts
  <2> HIDE DEF used, u
  <2> QED BY <1>0, <2>1, <2>3, UserUpdateOthers
<1>5. CASE Migrate(h)
  BY <1>0, <1>5 DEF Migrate
<1>6. CASE Unlock(h)
  BY <1>0, <1>6 DEF Unlock
<1>7. CASE ScanDone(h)
  BY <1>0, <1>7 DEF ScanDone
<1>8. CASE InitSlurm(h) \/ SlurmCpusetClean(h) \/ CleanDone(h) \/ UpdateDone(h)
           \/ CreateCpuset(h) \/ JobCpusetCreate(h) \/ LoadJobs(h) \/ ScanJob(h)
  BY <1>1, <1>8 DEF InitSlurm, SlurmCpusetClean, CleanDone, UpdateDone, CreateCpuset,
                    JobCpusetCreate, LoadJobs, ScanJob
<1> QED BY <1>2, <1>3, <1>4, <1>5, <1>6, <1>7, <1>8 DEF Holder

\* A task comes into being in the cpuset of its slurmstepd, and the only move
\* it makes is the one migrate_job_to_cpuset makes into its own cpuset.
LEMMA TaskMoves ==
  ASSUME IInv, ConfInv, ForkInv, Next, NEW t \in Tasks
  PROVE  \/ loc'[t] = loc[t] \/ TaskExit(t)
         \/ loc[t] = Gone /\ ForkTask(TaskStep[t], t)
         \/ /\ loc[t] # Gone /\ loc'[t] = target
            /\ \E s \in Steps :
                 Migrate(s) /\ CanEnter(target) /\ Len(target) = 4 /\ target[4] = t
<1>0. /\ t \in Procs /\ t \notin Steps /\ t \notin Logins /\ t # Agent /\ TaskStep[t] \in Steps
      /\ loc \in [Procs -> Path \cup {Root, Gone}] /\ lock \notin Tasks
  BY CpusetAssumption DEF IInv, TypeOK, Procs
<1>1. ASSUME NEW h \in Procs, Holder(h), loc[t] # Gone
      PROVE  \/ loc'[t] = loc[t]
             \/ loc'[t] = target /\ Migrate(h) /\ CanEnter(target) /\ Len(target) = 4 /\ target[4] = t
  <2>1. Usable(loc[t]) /\ Members(loc, loc[t]) # {}
    BY <1>0, <1>1, ConfinedUsable DEF ConfInv, Members
  <2>2. loc'[t] = loc[t] \/ Moved(h, t)
    BY <1>0, <1>1, <2>1, HolderKeeps
  <2>3. h # t
    BY <1>0, <1>1, HolderLock
  <2> QED BY <2>2, <2>3 DEF Moved
<1>2. ASSUME NEW h \in Procs, Holder(h) PROVE h \in Steps \/ ~Migrate(h)
  BY DEF Migrate
<1>3. CASE \E h \in Procs : Holder(h)
  BY <1>0, <1>1, <1>2, <1>3, GoneStays, HolderLock
<1>4. CASE \E h \in Procs : Dies(h)
  BY <1>0, <1>4 DEF Dies
<1>5. CASE \E s \in Steps : SpankInit(s) \/ SpankInitPostOpt(s)
  BY <1>0, <1>5 DEF SpankInit, SpankInitPostOpt
<1>6. CASE \E s \in Steps, x \in Tasks : ForkTask(s, x)
  <2>1. PICK s \in Steps, x \in Tasks : ForkTask(s, x)
    BY <1>6
  <2>2. CASE x = t
    <3>1. pc[t] = "new" /\ s = TaskStep[t]
      BY <2>1, <2>2 DEF ForkTask
    <3>2. loc[t] = Gone
      BY <3>1 DEF ForkInv
    <3> QED BY <2>1, <2>2, <3>1, <3>2
  <2>3. CASE x # t
    BY <1>0, <2>1, <2>3 DEF ForkTask
  <2> QED BY <2>2, <2>3
<1>7. CASE \E s \in Steps, x \in Tasks : SpankTaskPostFork(s, x) \/ SpankTaskExit(s, x)
  BY <1>0, <1>7 DEF SpankTaskPostFork, SpankTaskExit
<1>8. CASE \E x \in Tasks : TaskExit(x)
  BY <1>0, <1>8 DEF TaskExit
<1>9. CASE \E x \in Steps \cup Logins : Exit(x)
  BY <1>0, <1>9 DEF Exit
<1>10. CASE \E l \in Logins : PamAcctMgmt(l)
  BY <1>0, <1>10 DEF PamAcctMgmt
<1>11. CASE AgentStart \/ \E j \in Jobs : JobStart(j) \/ JobEnd(j)
  BY <1>11 DEF AgentStart, JobStart, JobEnd
<1> QED
  BY <1>3, <1>4, <1>5, <1>6, <1>7, <1>8, <1>9, <1>10, <1>11 DEF Next, Crash, GiveUp

\* The holder does to other processes nothing but to kill or to migrate them,
\* or to rename the cpuset they are in.
LEMMA HolderPcOthers ==
  ASSUME IInv, NEW h \in Procs, Holder(h), NEW x \in Procs, x # h
  PROVE  pc'[x] = pc[x] \/ (pc'[x] = "killed" /\ loc[x] \in Path)
<1>a. ASSUME NEW u \in Users PROVE Top(u) \in Path
  BY TopPath, TopDef
<1>0. pc \in [Procs -> HolderPC \cup FreePC] /\ PcOK /\ DataOK /\ lock = h
  BY HolderLock DEF IInv, TypeOK, PcOK, DataOK
<1>1. CASE (\E l : Goto(h, l)) \/ pc' = pc
  BY <1>0, <1>1 DEF Goto
<1>2. CASE UpdateUserCpusets(h)
  <2>1. PICK u \in pending : UserCpusetUpdate(h, u, KidCpus(Top(u)), pc[h], pc[h])
    BY <1>2 DEF UpdateUserCpusets
  <2>2. u \in Users
    BY DEF IInv, TypeOK
  <2> QED BY <1>0, <2>1, <2>2, <1>a, UserUpdateOthers
<1>3. CASE UserCpusetModify(h)
  <2> DEFINE u == target[1].uid
             used == (IF unorphan THEN {} ELSE KidCpus(Top(u))) \cup alloc
  <2>1. UserCpusetUpdate(h, u, used, "mkdir", CreateFailed(h)) /\ pc[h] = "usermod"
    BY <1>3 DEF UserCpusetModify
  <2>2. PICK j \in Jobs : target = JobPath(j)
    BY <1>0, <2>1, StepTarget
  <2>3. u \in Users
    BY <2>2, JobPathFacts
  <2> HIDE DEF used, u
  <2> QED BY <1>0, <2>1, <2>3, <1>a, UserUpdateOthers
<1>4. CASE InitSlurm(h) \/ SlurmCpusetClean(h) \/ CleanDone(h) \/ UpdateDone(h)
           \/ CreateCpuset(h) \/ UserCpusetDir(h) \/ LoadJobs(h) \/ ScanJob(h) \/ Unlock(h)
           \/ ScanDone(h)
  BY <1>1, <1>4 DEF InitSlurm, SlurmCpusetClean, CleanDone, UpdateDone, CreateCpuset,
                    UserCpusetDir, LoadJobs, ScanJob, Unlock, ScanDone
<1>5. CASE JobCpusetCreate(h) \/ Migrate(h)
  BY <1>1, <1>5 DEF JobCpusetCreate, Migrate
<1> QED BY <1>2, <1>3, <1>4, <1>5 DEF Holder

\* What a slurmstepd that holds the lock is working on stays the same until it
\* unlocks, and it comes to the end only by migrating.
LEMMA HolderTarget ==
  ASSUME IInv, NEW s \in Steps, Holder(s), ~Unlock(s)
  PROVE  /\ target' = target /\ lock' = s
         /\ Migrate(s) \/ pc'[s] # "unlock_ok"
<1>0. /\ s \in Procs /\ s \notin Logins /\ lock = s /\ WorkingOn(s) /\ pc[s] # "update2"
      /\ pc \in [Procs -> HolderPC \cup FreePC] /\ PcOK
  <2>1. s \in Procs /\ s \notin Logins /\ lock = s /\ WorkingOn(s)
        /\ pc \in [Procs -> HolderPC \cup FreePC] /\ PcOK
    BY HolderLock, TargetShape, CpusetAssumption DEF IInv, TypeOK, PcOK, Procs
  <2> QED BY <2>1 DEF WorkingOn, StageTwo
<1>1. CASE InitSlurm(s)
  BY <1>0, <1>1 DEF InitSlurm, held, Goto, AfterClean
<1>2. CASE SlurmCpusetClean(s)
  BY <1>0, <1>2 DEF SlurmCpusetClean
<1>3. CASE CleanDone(s) \/ UpdateDone(s)
  BY <1>0, <1>3 DEF CleanDone, UpdateDone, Goto, AfterClean
<1>4. CASE UpdateUserCpusets(s)
  <2>1. target' = target
    BY <1>4 DEF UpdateUserCpusets
  <2> QED BY <1>0, <1>4, <2>1, UpdateSamePc
<1>5. CASE CreateCpuset(s)
  BY <1>0, <1>5 DEF CreateCpuset, Goto, CreateFailed
<1>6. CASE UserCpusetDir(s)
  BY <1>0, <1>6 DEF UserCpusetDir, Goto
<1>7. CASE UserCpusetModify(s)
  <2>1. target' = target /\ lock' = lock /\ pc[s] = "usermod"
    BY <1>7 DEF UserCpusetModify, held
  <2>2. \E u, used : UserCpusetUpdate(s, u, used, "mkdir", CreateFailed(s))
    BY <1>7 DEF UserCpusetModify
  <2>3. pc'[s] \in {"mkdir", CreateFailed(s), pc[s]}
    BY <1>0, <2>2 DEF UserCpusetUpdate, OrphanUser, KillOrphan, Goto
  <2> QED BY <1>0, <2>1, <2>3 DEF CreateFailed
<1>8. CASE JobCpusetCreate(s)
  BY <1>0, <1>8 DEF JobCpusetCreate, Goto, CreateFailed
<1>9. CASE Migrate(s)
  BY <1>0, <1>9 DEF Migrate, held
<1> QED
  BY <1>0, <1>1, <1>2, <1>3, <1>4, <1>5, <1>6, <1>7, <1>8, <1>9 DEF Holder

\* What slurmstepd does while it holds the lock leaves it where it may fork.
LEMMA ConfOwn ==
  ASSUME IInv, ConfInv, Next, NEW s \in Steps, Holder(s), Entered(s)'
  PROVE  Confined(loc[s], s)'
<1>0. /\ s \in Procs /\ s \notin Logins /\ s \notin Tasks /\ lock = s /\ target \in Path
      /\ loc \in [Procs -> Path \cup {Root, Gone}] /\ s # Nobody
      /\ pc \in [Procs -> HolderPC \cup FreePC]
  BY HolderLock, CpusetAssumption DEF IInv, TypeOK, Procs
<1>1. CASE Migrate(s) /\ CanEnter(target) /\ loc'[s] = target
  <2>1. UNCHANGED <<dirs, cpus>>
    BY <1>1 DEF Migrate
  <2>2. Confined(target, s)
    BY <1>0, <1>1, TargetShape DEF Confined, CanEnter
  <2> QED BY <1>1, <2>1, <2>2 DEF Confined, IsJobOf, IsStepOf, IsTaskOf, TasksOf, JobTop
<1>2. CASE Unlock(s)
  <2>1. /\ loc' = loc /\ lock' = Nobody /\ pc'[s] = AfterUnlock(s)
        /\ pc[s] \in {"unlock_ok", "unlock_fail"}
    BY <1>0, <1>2 DEF Unlock, Goto, AfterUnlock
  <2>2. pc'[s] # "failed"
    BY <1>0, <2>1 DEF Entered
  <2>3. pc[s] = "unlock_ok" \/ Len(target) = 4
    BY <1>0, <2>1, <2>2 DEF AfterUnlock
  <2>4. Len(target) = 4 => Len(target) > 2
    OBVIOUS
  <2>5. Entered(s)
    BY <1>0, <2>3, <2>4 DEF Entered
  <2> QED BY <1>0, <2>1, <2>5, ConfinedKept DEF ConfInv
<1>3. CASE ~Unlock(s) /\ ~(Migrate(s) /\ CanEnter(target) /\ loc'[s] = target)
  <2>1. target' = target /\ lock' = s /\ (Migrate(s) \/ pc'[s] # "unlock_ok")
    BY <1>3, HolderTarget
  <2>2. Len(target) > 2
    <3>1. CASE Migrate(s)
      <4>1. CASE Len(target) = 4
        BY <4>1
      <4>2. CASE Len(target) # 4
        <5>1. pc'[s] \in {"create", "unlock_fail"}
          BY <1>0, <1>3, <3>1, <4>2 DEF Migrate, Goto
        <5> QED BY <2>1, <5>1 DEF Entered
      <4> QED BY <4>1, <4>2
    <3>2. CASE pc'[s] # "unlock_ok"
      <4>1. pc'[s] \in HolderPC
        BY <1>0, <2>1, PcStep DEF PcOK
      <4> QED BY <2>1, <3>2, <4>1 DEF Entered, HolderPC
    <3> QED BY <2>1, <3>1, <3>2
  <2>3. Entered(s) /\ Confined(loc[s], s)
    BY <1>0, <2>2 DEF Entered, ConfInv
  <2>4. Usable(loc[s]) /\ Members(loc, loc[s]) # {}
    BY <1>0, <2>3, ConfinedUsable DEF Members
  <2>5. loc'[s] = loc[s]
    BY <1>0, <1>3, <2>4, HolderKeeps DEF Moved
  <2> QED BY <1>0, <2>3, <2>5, ConfinedKept
<1> QED BY <1>1, <1>2, <1>3

\* Whatever anybody does, a slurmstepd that may fork is in a cpuset of its job.
LEMMA ConfSteps ==
  ASSUME IInv, ConfInv, Next, NEW s \in Steps, Entered(s)'
  PROVE  Confined(loc[s], s)'
<1>0. /\ s \in Procs /\ s \notin Logins /\ s \notin Tasks /\ s # Agent /\ s # Nobody
      /\ loc \in [Procs -> Path \cup {Root, Gone}]
      /\ pc \in [Procs -> HolderPC \cup FreePC] /\ PcOK /\ PcOK'
  BY PcStep, CpusetAssumption DEF IInv, TypeOK, PcOK, Procs
<1>1. ASSUME Entered(s), loc'[s] = loc[s] PROVE Confined(loc[s], s)'
  BY <1>0, <1>1, ConfinedKept DEF ConfInv
<1>2. ASSUME pc'[s] = pc[s], lock' = s => lock = s /\ target' = target PROVE Entered(s)
  BY <1>2 DEF Entered
<1>3. ASSUME NEW h \in Procs, Holder(h) PROVE Confined(loc[s], s)'
  <2>1. CASE h = s
    BY <1>3, <2>1, ConfOwn
  <2>2. CASE h # s
    <3>1. lock' # s /\ (pc'[s] = pc[s] \/ pc'[s] = "killed")
      BY <1>0, <1>3, <2>2, HolderLock, HolderPcOthers
    <3>2. Entered(s)
      BY <1>2, <3>1 DEF Entered
    <3>3. Usable(loc[s]) /\ Members(loc, loc[s]) # {}
      BY <1>0, <3>2, ConfinedUsable DEF ConfInv, Members
    <3>4. loc'[s] = loc[s] \/ Moved(h, s)
      BY <1>0, <1>3, <3>3, HolderKeeps
    <3>5. ~Moved(h, s)
      <4>1. ASSUME Migrate(h), Len(target) = 4 PROVE target[4] # s
        BY <1>0, <4>1, TargetShape DEF Migrate, TasksOf
      <4> QED BY <1>0, <2>2, <4>1 DEF Moved
    <3> QED BY <1>1, <3>2, <3>4, <3>5
  <2> QED BY <2>1, <2>2
<1>4. CASE \E h \in Procs : Dies(h)
  <2>1. PICK h \in Procs : Dies(h)
    BY <1>4
  <2>2. h # s /\ pc'[s] = pc[s] /\ loc'[s] = loc[s] /\ lock' \in {lock, Nobody}
        /\ (lock' = s => target' = target)
    <3>1. CASE h = s
      BY <1>0, <2>1, <3>1 DEF Dies, Entered, Goto, HolderPC, PcOK
    <3>2. CASE h # s
      BY <1>0, <2>1, <3>2 DEF Dies, Goto, held
    <3> QED BY <3>1, <3>2
  <2> QED BY <1>0, <1>1, <1>2, <2>2
<1>5. CASE \E x \in Steps : SpankInit(x)
  <2>1. PICK x \in Steps : SpankInit(x)
    BY <1>5
  <2>2. CASE x = s
    <3>1. target' = JobPath(StepJob[s]) /\ pc'[s] \in {"clean", "initslurm", "failing"} /\ StepJob[s] \in Jobs
      BY <1>0, <2>1, <2>2, CreateNotMid, CpusetAssumption DEF SpankInit
    <3>2. Len(target') = 2
      BY <3>1, JobPathFacts
    <3> QED BY <3>1, <3>2 DEF Entered
  <2>3. CASE x # s
    BY <1>0, <1>1, <1>2, <2>1, <2>3 DEF SpankInit, SlurmCpusetCreate, Goto
  <2> QED BY <2>2, <2>3
<1>6. CASE \E x \in Steps : SpankInitPostOpt(x)
  <2>1. PICK x \in Steps : SpankInitPostOpt(x)
    BY <1>6
  <2>2. CASE x = s
    BY <1>1, <2>1, <2>2 DEF SpankInitPostOpt, Entered
  <2>3. CASE x # s
    BY <1>0, <1>1, <1>2, <2>1, <2>3 DEF SpankInitPostOpt, Goto
  <2> QED BY <2>2, <2>3
<1>7. CASE \E x \in Steps, t \in Tasks :
             ForkTask(x, t) \/ SpankTaskPostFork(x, t) \/ SpankTaskExit(x, t)
  <2>1. PICK x \in Steps, t \in Tasks :
               ForkTask(x, t) \/ SpankTaskPostFork(x, t) \/ SpankTaskExit(x, t)
    BY <1>7
  <2>2. CASE x = s
    <3>1. pc[s] \in {"running", "forked"} /\ lock # s
      BY <1>0, <2>1, <2>2 DEF ForkTask, SpankTaskPostFork, SpankTaskExit, PcOK, HolderPC
    <3>2. loc'[s] = loc[s]
      <4>1. CASE ForkTask(x, t) \/ SpankTaskPostFork(x, t)
        BY <1>0, <2>2, <4>1 DEF ForkTask, SpankTaskPostFork
      <4>2. CASE SpankTaskExit(x, t)
        <5>1. lock' = lock /\ t # s
          BY <1>0, <4>2 DEF SpankTaskExit
        <5>2. pc'[s] # "done"
          BY <3>1, <5>1 DEF Entered
        <5> QED BY <1>0, <2>2, <4>2, <5>1, <5>2 DEF SpankTaskExit
      <4> QED BY <2>1, <4>1, <4>2
    <3> QED BY <1>1, <3>1, <3>2 DEF Entered
  <2>3. CASE x # s
    <3>1. pc'[s] = pc[s] /\ loc'[s] = loc[s]
      BY <1>0, <2>1, <2>3 DEF ForkTask, SpankTaskPostFork, SpankTaskExit
    <3>2. lock' = s => lock = s /\ target' = target
      BY <1>0, <2>1, <2>3 DEF ForkTask, SpankTaskPostFork, SpankTaskExit, held
    <3> QED BY <1>1, <1>2, <3>1, <3>2
  <2> QED BY <2>2, <2>3
<1>8. CASE \E t \in Tasks : TaskExit(t)
  BY <1>0, <1>1, <1>2, <1>8 DEF TaskExit, held
<1>9. CASE \E x \in Steps \cup Logins : Exit(x)
  <2>1. PICK x \in Steps \cup Logins : Exit(x)
    BY <1>9
  <2>2. CASE x = s
    BY <1>0, <2>1, <2>2 DEF Exit, Goto, Entered, PcOK, HolderPC
  <2>3. CASE x # s
    BY <1>0, <1>1, <1>2, <2>1, <2>3 DEF Exit, Goto, held
  <2> QED BY <2>2, <2>3
<1>10. CASE \E l \in Logins : PamAcctMgmt(l)
  BY <1>0, <1>1, <1>2, <1>10 DEF PamAcctMgmt, SlurmCpusetCreate, Goto
<1>11. CASE AgentStart
  BY <1>0, <1>1, <1>2, <1>11 DEF AgentStart, SlurmCpusetCreate, Goto
<1>12. CASE \E j \in Jobs : JobStart(j) \/ JobEnd(j)
  BY <1>1, <1>2, <1>12 DEF JobStart, JobEnd, held
<1> QED
  BY <1>3, <1>4, <1>5, <1>6, <1>7, <1>8, <1>9, <1>10, <1>11, <1>12 DEF Next, Crash, GiveUp

-----------------------------------------------------------------------------
(* A task that has just been forked is where its slurmstepd is.            *)

\* Nobody but slurmstepd itself and the holder of the lock changes its state.
LEMMA StepActs ==
  ASSUME IInv, Next, NEW s \in Steps
  PROVE  \/ \E h \in Procs : Holder(h)
         \/ Dies(s) \/ Exit(s) \/ SpankInit(s) \/ SpankInitPostOpt(s)
         \/ \E t \in Tasks : ForkTask(s, t) \/ SpankTaskPostFork(s, t) \/ SpankTaskExit(s, t)
         \/ pc'[s] = pc[s] /\ loc'[s] = loc[s] /\ (lock' = s => lock = s /\ target' = target)
<1>0. /\ s \in Procs /\ s \notin Logins /\ s \notin Tasks /\ s # Agent /\ s # Nobody
      /\ loc \in [Procs -> Path \cup {Root, Gone}]
      /\ pc \in [Procs -> HolderPC \cup FreePC]
  BY CpusetAssumption DEF IInv, TypeOK, Procs
<1>1. ASSUME NEW h \in Procs, Dies(h), h # s
      PROVE  pc'[s] = pc[s] /\ loc'[s] = loc[s] /\ (lock' = s => lock = s /\ target' = target)
  BY <1>0, <1>1 DEF Dies, Goto, held
<1>2. ASSUME NEW x \in Steps, x # s, SpankInit(x) \/ SpankInitPostOpt(x)
      PROVE  pc'[s] = pc[s] /\ loc'[s] = loc[s] /\ (lock' = s => lock = s /\ target' = target)
  BY <1>0, <1>2 DEF SpankInit, SlurmCpusetCreate, SpankInitPostOpt, Goto
<1>3. ASSUME NEW x \in Steps, x # s, NEW t \in Tasks,
             ForkTask(x, t) \/ SpankTaskPostFork(x, t) \/ SpankTaskExit(x, t)
      PROVE  pc'[s] = pc[s] /\ loc'[s] = loc[s] /\ (lock' = s => lock = s /\ target' = target)
  <2>1. pc'[s] = pc[s] /\ loc'[s] = loc[s]
    BY <1>0, <1>3 DEF ForkTask, SpankTaskPostFork, SpankTaskExit
  <2>2. lock' = s => lock = s /\ target' = target
    BY <1>0, <1>3 DEF ForkTask, SpankTaskPostFork, SpankTaskExit, held
  <2> QED BY <2>1, <2>2
<1>4. ASSUME NEW t \in Tasks, TaskExit(t)
      PROVE  pc'[s] = pc[s] /\ loc'[s] = loc[s] /\ (lock' = s => lock = s /\ target' = target)
  BY <1>0, <1>4 DEF TaskExit, held
<1>5. ASSUME NEW x \in Steps \cup Logins, x # s, Exit(x)
      PROVE  pc'[s] = pc[s] /\ loc'[s] = loc[s] /\ (lock' = s => lock = s /\ target' = target)
  BY <1>0, <1>5 DEF Exit, Goto, held
<1>6. ASSUME NEW l \in Logins, PamAcctMgmt(l)
      PROVE  pc'[s] = pc[s] /\ loc'[s] = loc[s] /\ (lock' = s => lock = s /\ target' = target)
  BY <1>0, <1>6 DEF PamAcctMgmt, SlurmCpusetCreate, Goto
<1>7. ASSUME AgentStart
      PROVE  pc'[s] = pc[s] /\ loc'[s] = loc[s] /\ (lock' = s => lock = s /\ target' = target)
  BY <1>0, <1>7 DEF AgentStart, SlurmCpusetCreate, Goto
<1>8. ASSUME NEW j \in Jobs, JobStart(j) \/ JobEnd(j)
      PROVE  pc'[s] = pc[s] /\ loc'[s] = loc[s] /\ (lock' = s => lock = s /\ target' = target)
  BY <1>8 DEF JobStart, JobEnd, held
<1> QED
  BY <1>1, <1>2, <1>3, <1>4, <1>5, <1>6, <1>7, <1>8 DEF Next, Crash, GiveUp

\* The states of a task: only fork makes it "forked", nothing makes it "new".
LEMMA TaskPc ==
  ASSUME IInv, Next, NEW t \in Tasks, pc'[t] \in {"new", "forked"}
  PROVE  pc'[t] = pc[t] \/ ForkTask(TaskStep[t], t)
<1>0. /\ t \in Procs /\ t \notin Steps /\ t \notin Logins /\ t # Agent
      /\ pc \in [Procs -> HolderPC \cup FreePC] /\ lock \notin Tasks
  BY CpusetAssumption DEF IInv, TypeOK, Procs
<1>1. ASSUME NEW h \in Procs, Holder(h) PROVE pc'[t] = pc[t]
  BY <1>0, <1>1, HolderLock, HolderPcOthers
<1>2. ASSUME NEW h \in Procs, Dies(h) PROVE pc'[t] = pc[t]
  BY <1>0, <1>2 DEF Dies, Goto
<1>3. ASSUME NEW x \in Steps, SpankInit(x) \/ SpankInitPostOpt(x) PROVE pc'[t] = pc[t]
  BY <1>0, <1>3 DEF SpankInit, SlurmCpusetCreate, SpankInitPostOpt, Goto
<1>4. ASSUME NEW x \in Steps, NEW y \in Tasks, ForkTask(x, y)
      PROVE  pc'[t] = pc[t] \/ ForkTask(TaskStep[t], t)
  <2>1. x = TaskStep[y]
    BY <1>4 DEF ForkTask
  <2>2. CASE y = t
    BY <1>4, <2>1, <2>2
  <2>3. CASE y # t
    BY <1>0, <1>4, <2>3 DEF ForkTask
  <2> QED BY <2>2, <2>3
<1>5. ASSUME NEW x \in Steps, NEW y \in Tasks, SpankTaskPostFork(x, y) \/ SpankTaskExit(x, y)
      PROVE  pc'[t] = pc[t]
  BY <1>0, <1>5 DEF SpankTaskPostFork, SpankTaskExit
<1>6. ASSUME NEW y \in Tasks, TaskExit(y) PROVE pc'[t] = pc[t]
  BY <1>0, <1>6 DEF TaskExit
<1>7. ASSUME NEW x \in Steps \cup Logins, Exit(x) PROVE pc'[t] = pc[t]
  BY <1>0, <1>7 DEF Exit, Goto
<1>8. ASSUME NEW l \in Logins, PamAcctMgmt(l) PROVE pc'[t] = pc[t]
  BY <1>0, <1>8 DEF PamAcctMgmt, SlurmCpusetCreate, Goto
<1>9. ASSUME AgentStart PROVE pc'[t] = pc[t]
  BY <1>0, <1>9 DEF AgentStart, SlurmCpusetCreate, Goto
<1>10. ASSUME NEW j \in Jobs, JobStart(j) \/ JobEnd(j) PROVE pc'[t] = pc[t]
  BY <1>10 DEF JobStart, JobEnd
<1> QED
  BY <1>1, <1>2, <1>3, <1>4, <1>5, <1>6, <1>7, <1>8, <1>9, <1>10 DEF Next, Crash, GiveUp

\* A slurmstepd that ended does not come back.
LEMMA GoneStep ==
  ASSUME IInv, Next, NEW s \in Steps, pc[s] = "gone" => loc[s] = Gone, pc'[s] = "gone"
  PROVE  loc'[s] = Gone
<1>0. /\ s \in Procs /\ s \notin Logins /\ s # Agent /\ s # Nobody /\ PcOK /\ PcOK'
      /\ loc \in [Procs -> Path \cup {Root, Gone}]
      /\ pc \in [Procs -> HolderPC \cup FreePC] /\ s \notin Tasks
  BY PcStep, CpusetAssumption DEF IInv, TypeOK, PcOK, Procs
<1>1. CASE \E h \in Procs : Holder(h)
  <2>1. PICK h \in Procs : Holder(h)
    BY <1>1
  <2>2. CASE h = s
    <3>1. CASE Unlock(s)
      BY <1>0, <3>1 DEF Unlock, Goto, AfterUnlock
    <3>2. CASE ~Unlock(s)
      BY <1>0, <2>1, <2>2, <3>2, HolderTarget DEF PcOK, HolderPC
    <3> QED BY <3>1, <3>2
  <2>3. CASE h # s
    BY <1>0, <2>1, <2>3, HolderPcOthers, GoneStays
  <2> QED BY <2>2, <2>3
<1>2. CASE Dies(s) \/ Exit(s)
  BY <1>0, <1>2 DEF Dies, Exit
<1>3. CASE SpankInit(s) \/ SpankInitPostOpt(s)
  BY <1>0, <1>3 DEF SpankInit, SlurmCpusetCreate, SpankInitPostOpt, Goto
<1>4. CASE \E t \in Tasks : ForkTask(s, t) \/ SpankTaskPostFork(s, t) \/ SpankTaskExit(s, t)
  BY <1>0, <1>4 DEF ForkTask, SpankTaskPostFork, SpankTaskExit
<1> QED BY <1>1, <1>2, <1>3, <1>4, StepActs

\* slurmstepd and the task it forked wait in the same place for the lock.
LEMMA ForkedStep ==
  ASSUME IInv, ConfInv, ForkInv, Next, NEW t \in Tasks, pc[t] = "forked", pc'[t] = "forked"
  PROVE  LET s == TaskStep[t] IN (pc'[s] = "forked" /\ loc'[t] = loc'[s]) \/ pc'[s] = "gone"
<1> DEFINE s == TaskStep[t]
<1>0. /\ s \in Steps /\ s \in Procs /\ s \notin Logins /\ s # Agent /\ s # Nobody /\ PcOK
      /\ t \in Procs /\ s # t /\ t \in TasksOf(s)
      /\ loc \in [Procs -> Path \cup {Root, Gone}]
      /\ pc \in [Procs -> HolderPC \cup FreePC] /\ s \notin Tasks
  BY CpusetAssumption DEF IInv, TypeOK, PcOK, Procs, TasksOf
<1>1. (pc[s] = "forked" /\ loc[t] = loc[s]) \/ (pc[s] = "gone" /\ loc[s] = Gone)
  BY DEF ForkInv
<1>2. lock # s
  BY <1>0, <1>1 DEF PcOK, HolderPC
<1>3. CASE pc[s] = "forked" /\ loc[t] = loc[s]
  <2>1. Confined(loc[s], s) /\ loc[s] # Gone
    <3>1. Confined(loc[s], s)
      BY <1>0, <1>3 DEF ConfInv, Entered
    <3> QED BY <1>0, <3>1, ConfinedUsable, LocationAssumption
  <2>2. ~Migrate(s) /\ ~ForkTask(s, t) /\ ~TaskExit(t)
    <3>1. ~TaskExit(t)
      BY <1>0 DEF TaskExit
    <3> QED BY <1>2, <1>3, <3>1 DEF Migrate, ForkTask
  <2>3. loc'[t] = loc[t]
    <3>1. ASSUME NEW x \in Steps, Migrate(x), Len(target) = 4, target[4] = t PROVE FALSE
      <4>1. target[4] \in TasksOf(x)
        BY <3>1, TargetShape DEF Migrate
      <4> QED BY <1>2, <3>1, <4>1 DEF TasksOf, Migrate
    <3> QED BY <1>0, <2>1, <2>2, <3>1, <1>3, TaskMoves
  <2>4. CASE \E h \in Procs : Holder(h)
    <3>1. PICK h \in Procs : Holder(h)
      BY <2>4
    <3>2. h # s /\ lock = h
      BY <1>2, <3>1, HolderLock
    <3>3. Usable(loc[s]) /\ Members(loc, loc[s]) # {}
      BY <1>0, <2>1, ConfinedUsable DEF Members
    <3>4. pc'[s] = pc[s] /\ (loc'[s] = loc[s] \/ Moved(h, s))
      BY <1>0, <3>1, <3>2, <3>3, HolderKeeps
    <3>5. ~Moved(h, s)
      <4>1. ASSUME Migrate(h), Len(target) = 4 PROVE target[4] # s
        BY <1>0, <4>1, TargetShape DEF Migrate, TasksOf
      <4> QED BY <1>0, <3>2, <4>1 DEF Moved
    <3> QED BY <1>3, <2>3, <3>4, <3>5
  <2>5. CASE Dies(s)
    BY <1>0, <2>5 DEF Dies, Goto
  <2>6. CASE Exit(s) \/ SpankInit(s) \/ SpankInitPostOpt(s)
    BY <1>0, <1>3, <2>6 DEF Exit, SpankInit, SpankInitPostOpt
  <2>7. CASE \E x \in Tasks : ForkTask(s, x) \/ SpankTaskExit(s, x)
    BY <1>3, <2>7 DEF ForkTask, SpankTaskExit
  <2>8. CASE \E x \in Tasks : SpankTaskPostFork(s, x)
    <3>1. PICK x \in Tasks : SpankTaskPostFork(s, x)
      BY <2>8
    <3>2. x \in TasksOf(s) /\ pc[x] = "forked"
      BY <3>1 DEF SpankTaskPostFork, TasksOf
    <3>3. x = t
      BY <3>2 DEF ForkInv
    <3> QED BY <1>0, <3>1, <3>3 DEF SpankTaskPostFork
  <2>9. CASE pc'[s] = pc[s] /\ loc'[s] = loc[s]
    BY <1>3, <2>3, <2>9
  <2> QED BY <1>0, <2>4, <2>5, <2>6, <2>7, <2>8, <2>9, StepActs
<1>4. CASE pc[s] = "gone" /\ loc[s] = Gone
  <2>1. CASE \E h \in Procs : Holder(h)
    <3>1. PICK h \in Procs : Holder(h)
      BY <2>1
    <3>2. h # s /\ lock = h
      BY <1>2, <3>1, HolderLock
    <3>3. pc'[s] = pc[s]
      BY <1>0, <1>4, <3>1, <3>2, HolderPcOthers, LocationAssumption
    <3> QED BY <1>4, <3>3
  <2>2. CASE Dies(s)
    BY <1>0, <2>2 DEF Dies, Goto
  <2>3. CASE Exit(s) \/ SpankInit(s) \/ SpankInitPostOpt(s)
    BY <1>0, <1>4, <2>3 DEF Exit, SpankInit, SpankInitPostOpt
  <2>4. CASE \E x \in Tasks : ForkTask(s, x) \/ SpankTaskPostFork(s, x) \/ SpankTaskExit(s, x)
    BY <1>4, <2>4 DEF ForkTask, SpankTaskPostFork, SpankTaskExit
  <2>5. CASE pc'[s] = pc[s] /\ loc'[s] = loc[s]
    BY <1>4, <2>5
  <2> QED BY <1>0, <2>1, <2>2, <2>3, <2>4, <2>5, StepActs
<1> QED BY <1>1, <1>3, <1>4

\* The task for which slurmstepd makes a cpuset is still where slurmstepd is.
LEMMA OwnCpusetStep ==
  ASSUME IInv, ConfInv, ForkInv, Next, NEW t \in Tasks, lock' = TaskStep[t],
         Len(target') = 4, target'[4] = t, pc'[TaskStep[t]] # "unlock_ok"
  PROVE  loc'[t] \in {loc'[TaskStep[t]], Gone}
<1> DEFINE s == TaskStep[t]
<1>0. /\ s \in Steps /\ s \in Procs /\ s \notin Logins /\ s # Agent /\ s # Nobody /\ PcOK /\ PcOK'
      /\ t \in Procs /\ s # t /\ t \in TasksOf(s)
      /\ loc \in [Procs -> Path \cup {Root, Gone}]
      /\ pc \in [Procs -> HolderPC \cup FreePC] /\ s \notin Tasks
      /\ StepShape(s) /\ StepJob[s] \in Jobs
  BY PcStep, CpusetAssumption DEF IInv, TypeOK, PcOK, Procs, TasksOf
<1> HIDE DEF s
<1>1. lock' = s /\ pc'[s] # "unlock_ok" /\ TaskStep[t] = s
  BY DEF s
<1>2. SUFFICES loc'[t] \in {loc'[s], Gone}
  BY <1>1
<1>3. CASE lock = s /\ target' = target /\ loc'[s] = loc[s] /\ pc[s] # "unlock_ok"
           /\ (\A x \in Steps : Migrate(x) /\ x = s => ~CanEnter(target) \/ loc[t] = Gone)
  <2>1. loc[t] \in {loc[s], Gone}
    BY <1>1, <1>3 DEF ForkInv
  <2>2. ~ForkTask(s, t)
    BY <1>0, <1>3 DEF ForkTask, PcOK, HolderPC
  <2>3. TaskExit(t) => loc'[t] = Gone
    BY <1>0 DEF TaskExit
  <2>4. ASSUME NEW x \in Steps, Migrate(x), CanEnter(target) PROVE loc[t] = Gone
    BY <1>3, <2>4 DEF Migrate
  <2> QED BY <1>1, <1>3, <2>1, <2>2, <2>3, <2>4, TaskMoves
<1>4. CASE \E h \in Procs : Holder(h)
  <2>1. Holder(s) /\ lock = s /\ s # Nobody
    BY <1>0, <1>1, <1>4, HolderLock
  <2>2. ~Unlock(s)
    BY <1>0, <1>1 DEF Unlock
  <2>3. target' = target /\ (Migrate(s) \/ pc'[s] # "unlock_ok")
    BY <1>0, <2>1, <2>2, HolderTarget
  <2>4. Migrate(s) => ~CanEnter(target) \/ loc[t] = Gone
    BY <1>0, <1>1, <2>3 DEF Migrate, Goto
  <2>5. pc[s] # "unlock_ok"
    BY <2>1, <2>2 DEF Holder, InitSlurm, SlurmCpusetClean, CleanDone, UpdateUserCpusets,
       UpdateDone, CreateCpuset, UserCpusetDir, UserCpusetModify, JobCpusetCreate, Migrate,
       LoadJobs, ScanJob, ScanDone
  <2>6. Usable(loc[s]) /\ Members(loc, loc[s]) # {}
    <3>1. Len(target) > 2
      <4>1. Len(target) = 4
        BY <2>3
      <4> QED BY <4>1
    <3>2. Confined(loc[s], s)
      BY <1>0, <2>1, <3>1 DEF ConfInv, Entered
    <3> QED BY <1>0, <3>2, ConfinedUsable DEF Members
  <2>7. loc'[s] = loc[s]
    BY <1>0, <2>1, <2>3, <2>6, HolderKeeps DEF Moved
  <2> QED BY <1>3, <2>1, <2>3, <2>4, <2>5, <2>7
<1>5. CASE Dies(s) \/ Exit(s)
  BY <1>0, <1>1, <1>5 DEF Dies, Exit, Goto, PcOK, HolderPC
<1>6. CASE SpankInit(s)
  <2>1. target' = JobPath(StepJob[s])
    BY <1>6 DEF SpankInit
  <2>2. Len(target') = 2
    BY <1>0, <2>1, JobPathFacts
  <2> QED BY <2>2
<1>7. CASE SpankInitPostOpt(s)
  <2>1. IsJobOf(loc[s], s) /\ target' = Append(loc[s], s)
    BY <1>0, <1>7 DEF SpankInitPostOpt, StepShape
  <2>2. Len(target') = 3
    BY <1>0, <2>1, ShapeFacts
  <2> QED BY <2>2
<1>8. CASE \E x \in Tasks : ForkTask(s, x) \/ SpankTaskExit(s, x)
  <2>1. lock = s /\ pc[s] = "running"
    BY <1>1, <1>8 DEF ForkTask, SpankTaskExit
  <2> QED BY <1>0, <2>1 DEF PcOK, HolderPC
<1>9. CASE \E x \in Tasks : SpankTaskPostFork(s, x)
  <2>1. PICK x \in Tasks : SpankTaskPostFork(s, x)
    BY <1>9
  <2>2. /\ x \in TasksOf(s) /\ pc[x] = "forked" /\ pc[s] = "forked" /\ loc' = loc
        /\ target' = Append(loc[s], x)
    BY <2>1 DEF SpankTaskPostFork, TasksOf
  <2>3. loc[x] = loc[s]
    BY <2>2 DEF ForkInv, TasksOf
  <2>4. PICK o \in BOOLEAN : loc[s] = <<JobTop(StepJob[s], o), StepJob[s], s>>
    <3>1. WantsStep(s)
      BY <1>0, <2>2 DEF StepShape, WantsStep
    <3> QED BY <1>0, <2>2, <3>1 DEF StepShape, IsStepOf
  <2>5. target' = <<JobTop(StepJob[s], o), StepJob[s], s, x>>
    BY <2>2, <2>4, TupleAppend4
  <2>6. x = t
    BY <2>5
  <2> QED BY <2>2, <2>3, <2>6
<1>10. CASE pc'[s] = pc[s] /\ loc'[s] = loc[s] /\ (lock' = s => lock = s /\ target' = target)
            /\ ~ \E h \in Procs : Holder(h)
  <2>1. ASSUME NEW x \in Steps, Migrate(x) PROVE FALSE
    BY <1>10, <2>1 DEF Holder, Procs
  <2> QED BY <1>1, <1>3, <1>10, <2>1
<1> QED BY <1>0, <1>4, <1>5, <1>6, <1>7, <1>8, <1>9, <1>10, StepActs

\* Every step preserves ConfInv and ForkInv.
LEMMA ConfStep ==
  ASSUME IInv, ConfInv, ForkInv, Next PROVE ConfInv'
<1>1. ASSUME NEW s \in Steps, Entered(s)' PROVE Confined(loc[s], s)'
  BY <1>1, ConfSteps
<1>2. ASSUME NEW t \in Tasks, loc'[t] # Gone PROVE Confined(loc[t], TaskStep[t])'
  <2>0. t \in Procs /\ TaskStep[t] \in Steps /\ loc \in [Procs -> Path \cup {Root, Gone}]
    BY CpusetAssumption DEF Procs, IInv, TypeOK
  <2>1. CASE loc'[t] = loc[t]
    <3>1. Confined(loc[t], TaskStep[t])
      BY <1>2, <2>1 DEF ConfInv
    <3> QED BY <2>0, <2>1, <3>1, ConfinedKept
  <2>2. CASE TaskExit(t)
    BY <1>2, <2>0, <2>2 DEF TaskExit
  <2>3. CASE ForkTask(TaskStep[t], t)
    <3>1. /\ Entered(TaskStep[t]) /\ loc'[t] = loc[TaskStep[t]]
          /\ UNCHANGED <<dirs, cpus>>
      BY <2>0, <2>3 DEF ForkTask, Entered
    <3>2. Confined(loc[TaskStep[t]], TaskStep[t])
      BY <2>0, <3>1 DEF ConfInv
    <3> QED BY <3>1, <3>2 DEF Confined, IsJobOf, IsStepOf, IsTaskOf, TasksOf, JobTop
  <2>4. CASE loc'[t] = target /\ \E s \in Steps :
               Migrate(s) /\ CanEnter(target) /\ Len(target) = 4 /\ target[4] = t
    <3>1. PICK s \in Steps : Migrate(s) /\ CanEnter(target) /\ Len(target) = 4 /\ target[4] = t
      BY <2>4
    <3>2. IsTaskOf(target, s) /\ s = TaskStep[t] /\ UNCHANGED <<dirs, cpus>>
      BY <3>1, TargetShape DEF Migrate, TasksOf
    <3> QED BY <2>4, <3>1, <3>2 DEF Confined, CanEnter, IsJobOf, IsStepOf, IsTaskOf, TasksOf, JobTop
  <2> QED BY <2>1, <2>2, <2>3, <2>4, TaskMoves
<1> QED BY <1>1, <1>2 DEF ConfInv

LEMMA ForkStep ==
  ASSUME IInv, ConfInv, ForkInv, Next PROVE ForkInv'
<1> SUFFICES ASSUME NEW t \in Tasks
             PROVE  LET s == TaskStep[t] IN
                    /\ pc'[t] = "new" => loc'[t] = Gone
                    /\ pc'[s] = "gone" => loc'[s] = Gone
                    /\ pc'[t] = "forked" =>
                         /\ (pc'[s] = "forked" /\ loc'[t] = loc'[s]) \/ pc'[s] = "gone"
                         /\ \A x \in TasksOf(s) : pc'[x] = "forked" => x = t
                    /\ lock' = s /\ Len(target') = 4 /\ target'[4] = t /\ pc'[s] # "unlock_ok" =>
                         loc'[t] \in {loc'[s], Gone}
  BY DEF ForkInv, TasksOf
<1> DEFINE s == TaskStep[t]
<1>0. /\ s \in Steps /\ s \in Procs /\ t \in Procs /\ s # t /\ t \in TasksOf(s)
      /\ loc \in [Procs -> Path \cup {Root, Gone}]
      /\ pc \in [Procs -> HolderPC \cup FreePC]
  BY CpusetAssumption DEF IInv, TypeOK, Procs, TasksOf
<1>1. ASSUME pc'[t] = "new" PROVE loc'[t] = Gone
  <2>1. ~ForkTask(s, t)
    BY <1>0, <1>1 DEF ForkTask
  <2>2. pc[t] = "new" /\ loc[t] = Gone
    BY <1>1, <2>1, TaskPc DEF ForkInv
  <2>3. ~TaskExit(t)
    BY <2>2 DEF TaskExit
  <2> QED BY <2>1, <2>2, <2>3, TaskMoves
<1>2. ASSUME pc'[s] = "gone" PROVE loc'[s] = Gone
  BY <1>0, <1>2, GoneStep DEF ForkInv
<1>3. ASSUME pc'[t] = "forked"
      PROVE  /\ (pc'[s] = "forked" /\ loc'[t] = loc'[s]) \/ pc'[s] = "gone"
             /\ \A x \in TasksOf(s) : pc'[x] = "forked" => x = t
  <2>a. ASSUME NEW x \in TasksOf(s), pc'[x] = "forked" PROVE pc[x] = "forked" \/ ForkTask(s, x)
    BY <2>a, TaskPc DEF TasksOf
  <2>1. CASE ForkTask(s, t)
    <3>1. pc'[s] = "forked" /\ loc'[t] = loc'[s]
      BY <1>0, <1>3, <2>1 DEF ForkTask
    <3>2. ASSUME NEW x \in TasksOf(s), pc'[x] = "forked", x # t PROVE FALSE
      <4>0. x \in Procs /\ x # s
        BY <1>0, CpusetAssumption DEF TasksOf, Procs
      <4>1. pc[x] = "forked"
        BY <1>0, <2>1, <3>2, <4>0 DEF ForkTask
      <4>2. pc[s] # "running"
        BY <4>1 DEF ForkInv, TasksOf
      <4> QED BY <2>1, <4>2 DEF ForkTask
    <3> QED BY <3>1, <3>2
  <2>2. CASE ~ForkTask(s, t)
    <3>1. pc[t] = "forked"
      BY <1>3, <2>2, TaskPc
    <3>2. (pc'[s] = "forked" /\ loc'[t] = loc'[s]) \/ pc'[s] = "gone"
      BY <1>3, <3>1, ForkedStep
    <3>3. ASSUME NEW x \in TasksOf(s), pc'[x] = "forked" PROVE x = t
      <4>1. pc[s] # "running"
        BY <3>1 DEF ForkInv
      <4>2. pc[x] = "forked"
        BY <2>a, <3>3, <4>1 DEF ForkTask
      <4> QED BY <3>1, <4>2 DEF ForkInv
    <3> QED BY <3>2, <3>3
  <2> QED BY <2>1, <2>2
<1>4. ASSUME lock' = s, Len(target') = 4, target'[4] = t, pc'[s] # "unlock_ok"
      PROVE  loc'[t] \in {loc'[s], Gone}
  BY <1>4, OwnCpusetStep
<1> QED BY <1>1, <1>2, <1>3, <1>4

-----------------------------------------------------------------------------
(* The theorems.                                                           *)

TaskInv == IInv /\ ConfInv /\ ForkInv

\* The invariant on tasks holds at first, when there are none.
LEMMA TaskInit ==
  ASSUME Init PROVE TaskInv
<1>1. IInv
  BY InitInv
<1>2. ASSUME NEW x \in Steps \cup Tasks PROVE loc[x] = Gone /\ pc[x] = "new" /\ x # lock
  BY CpusetAssumption DEF Init, Procs
<1>3. ConfInv
  BY <1>2 DEF ConfInv, Entered
<1>4. ASSUME NEW t \in Tasks PROVE TaskStep[t] \in Steps
  BY CpusetAssumption
<1>5. ForkInv
  BY <1>2, <1>4 DEF ForkInv
<1> QED BY <1>1, <1>3, <1>5 DEF TaskInv

\* It survives a step that changes nothing.
LEMMA TaskStutter ==
  ASSUME TaskInv, UNCHANGED vars PROVE TaskInv'
<1>0. UNCHANGED <<dirs, cpus, loc, pc, lock, target>>
  BY DEF vars, held
<1>1. IInv'
  BY StutterInv DEF TaskInv
<1>2. ConfInv'
  <2>1. \A x, s : Confined(loc[x], s)' = Confined(loc[x], s)
    BY <1>0 DEF Confined, IsJobOf, IsStepOf, IsTaskOf, TasksOf, JobTop
  <2>2. \A s : Entered(s)' = Entered(s)
    BY <1>0 DEF Entered
  <2> QED BY <1>0, <2>1, <2>2 DEF TaskInv, ConfInv
<1>3. ForkInv'
  BY <1>0 DEF TaskInv, ForkInv, TasksOf
<1> QED BY <1>1, <1>2, <1>3 DEF TaskInv

\* In every reachable state, slurmstepd and the tasks it forked are where they
\* should be, whoever crashed, cleaned up or orphaned cpusets in between.
THEOREM TaskInvariance == Spec => []TaskInv
<1>1. Init => TaskInv
  BY TaskInit
<1>2. TaskInv /\ [Next]_vars => TaskInv'
  <2>1. ASSUME TaskInv, Next PROVE TaskInv'
    BY <2>1, NextInv, ConfStep, ForkStep DEF TaskInv
  <2> QED BY <2>1, TaskStutter
<1> QED BY <1>1, <1>2, PTL DEF Spec

\* A cpuset with CPUs that belongs to a step is that of its job, or below it:
\* under an orphan there are no CPUs.
LEMMA ConfinedInJob ==
  ASSUME IInv, NEW s \in Steps, NEW p, Confined(p, s)
  PROVE  p = JobPath(StepJob[s]) \/ Below(p, JobPath(StepJob[s]))
<1> DEFINE j == StepJob[s]
<1>0. j \in Jobs /\ JobPath(j) = <<JobTop(j, FALSE), j>> /\ Len(JobPath(j)) = 2
  BY CpusetAssumption, JobPathFacts DEF PathOfJob
<1>a. ASSUME Len(p) > 2, p[1] = JobTop(j, FALSE), p[2] = j PROVE Below(p, JobPath(j))
  <2>1. JobPath(j)[1] = JobTop(j, FALSE) /\ JobPath(j)[2] = j
    BY <1>0, TupleLen
  <2>2. \A i \in 1 .. 2 : i = 1 \/ i = 2
    OBVIOUS
  <2> QED BY <1>0, <1>a, <2>1, <2>2 DEF Below
<1>1. p # <<>> /\ ~p[1].orphan
  <2>1. Usable(p) /\ p \in Path /\ p # <<>>
    BY ConfinedUsable, InJobFacts DEF Usable
  <2>2. ~IsOrphan(p)
    BY <2>1 DEF IInv, TreeInv, Usable
  <2> QED BY <2>1, <2>2 DEF IsOrphan
<1>2. ASSUME NEW o \in BOOLEAN, p[1] = JobTop(j, o) PROVE o = FALSE
  BY <1>1, <1>2 DEF JobTop
<1>3. CASE IsJobOf(p, s)
  <2>1. PICK o \in BOOLEAN : p = <<JobTop(j, o), j>>
    BY <1>3 DEF IsJobOf
  <2>2. o = FALSE
    BY <1>2, <2>1
  <2> QED BY <1>0, <2>1, <2>2
<1>4. CASE IsStepOf(p, s)
  <2>1. PICK o \in BOOLEAN : p = <<JobTop(j, o), j, s>>
    BY <1>4 DEF IsStepOf
  <2>2. o = FALSE
    BY <1>2, <2>1
  <2>3. Len(p) = 3 /\ p[1] = JobTop(j, FALSE) /\ p[2] = j
    BY <2>1, <2>2, TupleLen
  <2> QED BY <1>a, <2>3
<1>5. CASE IsTaskOf(p, s)
  <2>1. PICK o \in BOOLEAN, t \in TasksOf(s) : p = <<JobTop(j, o), j, s, t>>
    BY <1>5 DEF IsTaskOf
  <2>2. o = FALSE
    BY <1>2, <2>1
  <2>3. Len(p) = 4 /\ p[1] = JobTop(j, FALSE) /\ p[2] = j
    BY <2>1, <2>2, TupleLen
  <2> QED BY <1>a, <2>3
<1> QED BY <1>3, <1>4, <1>5 DEF Confined

\* A user's task always runs inside the cpuset of its job, which exists and has
\* CPUs: slurmstepd forks only after migrate_job_to_cpuset succeeded (or gives
\* up), and nothing cleans, orphans or empties a cpuset with a task in it.
THEOREM ConfinedTasks == Spec => []TasksConfined
<1>1. TaskInv => TasksConfined
  <2> SUFFICES ASSUME TaskInv, NEW t \in Tasks, loc[t] # Gone
               PROVE  /\ loc[t] \in dirs /\ cpus[loc[t]] # {}
                      /\ LET p == JobPath(StepJob[TaskStep[t]]) IN loc[t] = p \/ Below(loc[t], p)
    BY DEF TasksConfined
  <2>1. Confined(loc[t], TaskStep[t]) /\ TaskStep[t] \in Steps
    BY CpusetAssumption DEF TaskInv, ConfInv
  <2>2. loc[t] \in dirs /\ cpus[loc[t]] # {}
    BY <2>1 DEF Confined
  <2> QED BY <2>1, <2>2, ConfinedInJob DEF TaskInv
<1> QED BY <1>1, TaskInvariance, PTL

\* What one step of any process does to the CPUs of a running task.
KeepsCpus(t) ==
  loc[t] # Gone /\ loc'[t] # Gone =>
    \/ loc'[t] = loc[t] /\ loc[t] \in dirs' /\ cpus'[loc[t]] = cpus[loc[t]]
    \/ Len(loc'[t]) = 4 /\ Parent(loc'[t]) = loc[t]

LEMMA TaskKeepsCpus ==
  ASSUME TaskInv, Next, NEW t \in Tasks PROVE KeepsCpus(t)
<1> SUFFICES ASSUME loc[t] # Gone, loc'[t] # Gone
             PROVE  \/ loc'[t] = loc[t] /\ loc[t] \in dirs' /\ cpus'[loc[t]] = cpus[loc[t]]
                    \/ Len(loc'[t]) = 4 /\ Parent(loc'[t]) = loc[t]
  BY DEF KeepsCpus
<1>0. /\ t \in Procs /\ TaskStep[t] \in Steps /\ loc \in [Procs -> Path \cup {Root, Gone}]
      /\ IInv /\ ConfInv /\ ForkInv
  BY CpusetAssumption DEF TaskInv, IInv, TypeOK, Procs
<1>1. CASE loc'[t] = loc[t]
  <2>1. Usable(loc[t]) /\ Members(loc, loc[t]) # {}
    BY <1>0, ConfinedUsable DEF ConfInv, Members
  <2> QED BY <1>0, <1>1, <2>1, InUseKept DEF Kept
<1>2. CASE TaskExit(t)
  BY <1>0, <1>2 DEF TaskExit
<1>3. CASE loc'[t] = target /\ \E s \in Steps :
             Migrate(s) /\ CanEnter(target) /\ Len(target) = 4 /\ target[4] = t
  <2>1. PICK s \in Steps : Migrate(s) /\ Len(target) = 4 /\ target[4] = t
    BY <1>3
  <2>2. lock = s /\ pc[s] \in {"migrate", "migrate2"}
    BY <2>1 DEF Migrate
  <2>3. IsTaskOf(target, s) /\ WorkingOn(s) /\ s = TaskStep[t]
    BY <1>0, <2>1, <2>2, TargetShape DEF TasksOf
  <2>4. target # JobPath(StepJob[s]) /\ ~IsStepOf(target, s)
    <3>1. StepJob[s] \in Jobs
      BY CpusetAssumption
    <3>2. Len(JobPath(StepJob[s])) = 2
      BY <3>1, JobPathFacts
    <3>3. IsStepOf(target, s) => Len(target) = 3
      BY ShapeFacts
    <3> QED BY <2>1, <3>2, <3>3
  <2>5. loc[s] = Parent(target)
    BY <2>3, <2>4 DEF WorkingOn
  <2>6. loc[t] = loc[s]
    BY <1>0, <2>1, <2>2, <2>3 DEF ForkInv
  <2> QED BY <1>3, <2>1, <2>5, <2>6
<1> QED BY <1>0, <1>1, <1>2, <1>3, TaskMoves

\* Nobody takes a running task's CPUs away: slurm_cpuset_clean, the release
\* agent, user_cpuset_update and other steps leave it in its cpuset with the
\* CPUs that had; its own slurmstepd moves it once, into its task cpuset.
THEOREM RunningTasksKeepCpus == Spec => RunningKeepsCpus
<1>1. TaskInv /\ [Next]_vars =>
        [\A t \in Tasks :
           loc[t] # Gone /\ loc'[t] # Gone =>
             \/ loc'[t] = loc[t] /\ loc[t] \in dirs' /\ cpus'[loc[t]] = cpus[loc[t]]
             \/ Len(loc'[t]) = 4 /\ Parent(loc'[t]) = loc[t]]_vars
  BY TaskKeepsCpus DEF KeepsCpus
<1> QED BY <1>1, TaskInvariance, PTL DEF Spec, RunningKeepsCpus

-----------------------------------------------------------------------------
(* kill-orphs.                                                             *)

\* A user cpuset that is renamed takes the logins of its user along, and the
\* others nowhere.
LEMMA RenameLogins ==
  ASSUME LoginPlace, NEW u \in Users, NEW o \in BOOLEAN, Rename(TopOf(u, o), TopOf(u, ~o))
  PROVE  LoginPlace'
<1> SUFFICES ASSUME NEW l \in Logins
             PROVE  loc'[l] \in {Root, Gone, TopOf(LoginUser[l], FALSE), TopOf(LoginUser[l], TRUE)}
  BY TopDef DEF LoginPlace
<1> DEFINE v == LoginUser[l]
<1>0. v \in Users /\ l \in Procs
  BY CpusetAssumption DEF Procs
<1>1. loc[l] \in {Root, Gone} \/ \E w \in BOOLEAN : loc[l] = TopOf(v, w)
  BY <1>0, TopDef DEF LoginPlace
<1>2. loc'[l] = IF loc[l] \in {Root, Gone} THEN loc[l]
                ELSE Renamed(loc[l], TopOf(u, o), TopOf(u, ~o))
  BY <1>0 DEF Rename
<1>3. ASSUME NEW w \in BOOLEAN, loc[l] = TopOf(v, w)
      PROVE  loc'[l] \in {Root, Gone, TopOf(v, FALSE), TopOf(v, TRUE)}
  <2>1. CASE loc[l] \in {Root, Gone}
    BY <1>2, <2>1
  <2>2. CASE loc[l] \notin {Root, Gone} /\ TopOf(v, w)[1] # TopOf(u, o)[1]
    <3>1. loc'[l] = TopOf(v, w)
      BY <1>2, <1>3, <2>2 DEF Renamed
    <3> QED BY <3>1
  <2>3. CASE loc[l] \notin {Root, Gone} /\ TopOf(v, w)[1] = TopOf(u, o)[1]
    <3>1. v = u /\ w = o
      BY <1>0, <2>3, TopInj
    <3>2. loc'[l] = [TopOf(u, o) EXCEPT ![1] = TopOf(u, ~o)[1]]
      BY <1>0, <1>2, <1>3, <2>3, <3>1, TopPath DEF Renamed
    <3>3. loc'[l] = TopOf(u, ~o)
      BY <3>2 DEF TopOf
    <3> QED BY <3>1, <3>3
  <2> QED BY <2>1, <2>2, <2>3
<1> QED BY <1>1, <1>2, <1>3

\* user_cpuset_update renames at most the cpuset of its user.
LEMMA UserUpdateLogins ==
  ASSUME LoginPlace, NEW h, NEW u \in Users, NEW used, NEW n1, NEW n2,
         UserCpusetUpdate(h, u, used, n1, n2)
  PROVE  LoginPlace'
<1>1. CASE loc' = loc
  BY <1>1 DEF LoginPlace, Top, OrphanOf
<1>2. CASE Rename(Top(u), OrphanOf(u))
  <2>1. Rename(TopOf(u, FALSE), TopOf(u, ~FALSE))
    BY <1>2, TopDef
  <2> QED BY <2>1, RenameLogins
<1> QED BY <1>1, <1>2 DEF UserCpusetUpdate, OrphanUser, KillOrphan, UserCpusetOrphan

\* What the holder of the lock does with its own or another's place.
LEMMA HolderLogins ==
  ASSUME IInv, LoginPlace, NEW h \in Procs, Holder(h) PROVE LoginPlace'
<1>0. /\ loc \in [Procs -> Path \cup {Root, Gone}]
      /\ Logins \subseteq Procs /\ Steps \cap Logins = {} /\ Tasks \cap Logins = {}
  BY CpusetAssumption DEF IInv, TypeOK, Procs
<1>1. CASE loc' = loc
  BY <1>1 DEF LoginPlace, Top, OrphanOf
<1>2. CASE UpdateUserCpusets(h)
  <2>1. PICK u \in pending : UserCpusetUpdate(h, u, KidCpus(Top(u)), pc[h], pc[h])
    BY <1>2 DEF UpdateUserCpusets
  <2>2. u \in Users
    BY DEF IInv, TypeOK
  <2> QED BY <2>1, <2>2, UserUpdateLogins
<1>3. CASE UserCpusetDir(h) \/ UserCpusetModify(h)
  <2>1. lock = h /\ pc[h] \in {"userdir", "usermod"}
    BY <1>3 DEF UserCpusetDir, UserCpusetModify
  <2>2. PICK j \in Jobs : target = JobPath(j)
    BY <2>1, StepTarget
  <2>3. target[1].uid \in Users
    BY <2>2, JobPathFacts
  <2>4. CASE UserCpusetModify(h)
    <3>1. PICK used : UserCpusetUpdate(h, target[1].uid, used, "mkdir", CreateFailed(h))
      BY <2>4 DEF UserCpusetModify
    <3> QED BY <2>3, <3>1, UserUpdateLogins
  <2>5. CASE Rename(OrphanOf(target[1].uid), Top(target[1].uid))
    <3>1. Rename(TopOf(target[1].uid, TRUE), TopOf(target[1].uid, ~TRUE))
      BY <2>5, TopDef
    <3> QED BY <2>3, <3>1, RenameLogins
  <2> QED BY <1>1, <1>3, <2>4, <2>5 DEF UserCpusetDir
<1>4. CASE Migrate(h)
  <2>1. ASSUME Len(target) = 4, NEW l \in Logins PROVE target[4] # l
    BY <1>0, <1>4, <2>1, TargetShape DEF Migrate, TasksOf
  <2>2. \A l \in Logins : loc'[l] = loc[l]
    BY <1>0, <1>4, <2>1 DEF Migrate
  <2> QED BY <2>2 DEF LoginPlace, Top, OrphanOf
<1>5. CASE Unlock(h)
  BY <1>0, <1>5 DEF Unlock, LoginPlace, Top, OrphanOf
<1>6. CASE h \in Logins /\ ScanDone(h)
  BY <1>0, <1>6 DEF ScanDone, LoginPlace, Top, OrphanOf
<1>7. CASE InitSlurm(h) \/ SlurmCpusetClean(h) \/ CleanDone(h) \/ UpdateDone(h)
           \/ CreateCpuset(h) \/ JobCpusetCreate(h) \/ LoadJobs(h) \/ ScanJob(h)
  BY <1>1, <1>7 DEF InitSlurm, SlurmCpusetClean, CleanDone, UpdateDone, CreateCpuset,
                    JobCpusetCreate, LoadJobs, ScanJob
<1> QED BY <1>2, <1>3, <1>4, <1>5, <1>6, <1>7 DEF Holder

\* Every step keeps the logins in their places.
LEMMA LoginsStep ==
  ASSUME IInv, LoginPlace, Next PROVE LoginPlace'
<1>0. /\ loc \in [Procs -> Path \cup {Root, Gone}]
      /\ Logins \subseteq Procs /\ Steps \cap Logins = {} /\ Tasks \cap Logins = {}
      /\ Agent \notin Logins
  BY CpusetAssumption DEF IInv, TypeOK, Procs
<1>1. CASE \E h \in Procs : Holder(h)
  BY <1>1, HolderLogins
<1>2. ASSUME \A l \in Logins : loc'[l] = loc[l] \/ loc'[l] \in {Root, Gone} PROVE LoginPlace'
  BY <1>2 DEF LoginPlace, Top, OrphanOf
<1>3. ASSUME NEW h \in Procs, Dies(h) PROVE LoginPlace'
  BY <1>0, <1>2, <1>3 DEF Dies
<1>4. ASSUME NEW s \in Steps, NEW t \in Tasks,
             ForkTask(s, t) \/ SpankTaskPostFork(s, t) \/ SpankTaskExit(s, t)
      PROVE  LoginPlace'
  BY <1>0, <1>2, <1>4 DEF ForkTask, SpankTaskPostFork, SpankTaskExit
<1>5. ASSUME NEW s \in Steps, SpankInit(s) \/ SpankInitPostOpt(s) PROVE LoginPlace'
  BY <1>0, <1>2, <1>5 DEF SpankInit, SpankInitPostOpt
<1>6. ASSUME NEW x \in Steps \cup Logins, Exit(x) PROVE LoginPlace'
  BY <1>0, <1>2, <1>6 DEF Exit
<1>7. ASSUME NEW t \in Tasks, TaskExit(t) PROVE LoginPlace'
  BY <1>0, <1>2, <1>7 DEF TaskExit
<1>8. ASSUME NEW l \in Logins, PamAcctMgmt(l) PROVE LoginPlace'
  BY <1>0, <1>2, <1>8 DEF PamAcctMgmt
<1>9. CASE AgentStart \/ \E j \in Jobs : JobStart(j) \/ JobEnd(j)
  BY <1>2, <1>9 DEF AgentStart, JobStart, JobEnd
<1> QED BY <1>1, <1>3, <1>4, <1>5, <1>6, <1>7, <1>8, <1>9 DEF Next, Crash, GiveUp

\* What one step does to a login whose user has a task running.
SparesLogin(l) ==
  pc[l] = "granted" /\ pc'[l] = "killed" =>
    \A t \in Tasks : Owner[StepJob[TaskStep[t]]] = LoginUser[l] => loc[t] = Gone

\* user_cpuset_update kills in the cpuset of its user, and only when no cpuset
\* below has CPUs.
LEMMA UserUpdateSpares ==
  ASSUME TaskInv, LoginPlace, NEW h \in Procs, NEW u \in Users, NEW used, NEW n1, NEW n2,
         used = {} => KidCpus(Top(u)) = {}, UserCpusetUpdate(h, u, used, n1, n2),
         NEW l \in Logins, h # l \/ n1 # "killed", h # l \/ n2 # "killed"
  PROVE  SparesLogin(l)
<1> SUFFICES ASSUME pc[l] = "granted", pc'[l] = "killed",
                    NEW t \in Tasks, Owner[StepJob[TaskStep[t]]] = LoginUser[l], loc[t] # Gone
             PROVE  FALSE
  BY DEF SparesLogin
<1>0. /\ IInv /\ TreeOK /\ l \in Procs /\ LoginUser[l] \in Users
      /\ TaskStep[t] \in Steps /\ StepJob[TaskStep[t]] \in Jobs
      /\ pc \in [Procs -> HolderPC \cup FreePC]
  BY CpusetAssumption, IInvTree DEF TaskInv, IInv, TypeOK, Procs
<1>1. used = {} /\ loc[l] = Top(u)
  BY <1>0 DEF UserCpusetUpdate, OrphanUser, KillOrphan, Goto
<1>2. u = LoginUser[l]
  <2>1. Top(u) \in Path
    BY TopDef, TopPath
  <2>2. \E w \in BOOLEAN : TopOf(u, FALSE) = TopOf(LoginUser[l], w)
    BY <1>0, <1>1, <2>1, TopDef, LocationAssumption DEF LoginPlace
  <2> QED BY <1>0, <2>2, TopInj
<1>3. Confined(loc[t], TaskStep[t]) /\ Usable(loc[t])
  BY <1>0, ConfinedUsable DEF TaskInv, ConfInv
<1>4. loc[t][1] = Top(u)[1]
  <2> DEFINE q == JobPath(StepJob[TaskStep[t]])
  <2>1. q[1] = Top(u)[1] /\ Len(q) = 2
    BY <1>0, <1>2, JobPathFacts
  <2>2. loc[t] = q \/ Below(loc[t], q)
    BY <1>0, <1>3, ConfinedInJob
  <2> HIDE DEF q
  <2> QED BY <2>1, <2>2 DEF Below
<1>5. loc[t] \in Path /\ Len(loc[t]) # 1
  BY <1>0, <1>3, ConfinedUsable, InJobFacts DEF Usable
<1>6. Top(u) = TopOf(u, FALSE) /\ loc[t] # Top(u)
  BY <1>5, TopDef, TopPath
<1> QED BY <1>0, <1>1, <1>3, <1>4, <1>5, <1>6, NoCpusBelow DEF Usable

LEMMA LoginSpared ==
  ASSUME TaskInv, LoginPlace, Next, NEW l \in Logins PROVE SparesLogin(l)
<1> SUFFICES ASSUME pc[l] = "granted", pc'[l] = "killed" PROVE SparesLogin(l)
  BY DEF SparesLogin
<1>0. /\ IInv /\ PcOK /\ l \in Procs /\ l \notin Steps /\ l \notin Tasks /\ l # Agent
      /\ pc \in [Procs -> HolderPC \cup FreePC] /\ Nobody \notin Procs
  BY CpusetAssumption, NobodyFacts DEF TaskInv, IInv, TypeOK, PcOK, Procs
<1>1. lock # l
  BY <1>0 DEF PcOK, HolderPC
<1>2. ASSUME NEW h \in Procs, Holder(h) PROVE SparesLogin(l)
  <2>0. h # l /\ lock = h
    BY <1>1, <1>2, HolderLock
  <2>1. CASE UpdateUserCpusets(h)
    <3>1. PICK u \in pending : UserCpusetUpdate(h, u, KidCpus(Top(u)), pc[h], pc[h])
      BY <2>1 DEF UpdateUserCpusets
    <3>2. u \in Users
      BY <1>0 DEF IInv, TypeOK
    <3> QED BY <2>0, <3>1, <3>2, UserUpdateSpares
  <2>2. CASE UserCpusetModify(h)
    <3> DEFINE u == target[1].uid
               used == (IF unorphan THEN {} ELSE KidCpus(Top(u))) \cup alloc
    <3>1. UserCpusetUpdate(h, u, used, "mkdir", CreateFailed(h)) /\ pc[h] = "usermod"
      BY <2>2 DEF UserCpusetModify
    <3>2. PICK j \in Jobs : target = JobPath(j)
      BY <1>0, <2>0, <3>1, StepTarget
    <3>3. u \in Users
      BY <3>2, JobPathFacts
    <3>4. used = {} => KidCpus(Top(u)) = {}
      BY <1>0, <3>1 DEF IInv, AllocInv
    <3> HIDE DEF used, u
    <3> QED BY <2>0, <3>1, <3>3, <3>4, UserUpdateSpares
  <2>3. CASE pc' = pc \/ \E p : Goto(h, p)
    BY <1>0, <2>0, <2>3 DEF Goto
  <2> QED BY <1>2, <2>1, <2>2, <2>3 DEF Holder, InitSlurm, SlurmCpusetClean, CleanDone, UpdateDone,
        CreateCpuset, UserCpusetDir, JobCpusetCreate, Migrate, Unlock, LoadJobs, ScanJob, ScanDone
<1>3. ASSUME NEW h \in Procs, Dies(h) PROVE FALSE
  BY <1>0, <1>3 DEF Dies, Goto
<1>4. ASSUME NEW s \in Steps, SpankInit(s) \/ SpankInitPostOpt(s) PROVE FALSE
  BY <1>0, <1>4 DEF SpankInit, SpankInitPostOpt, SlurmCpusetCreate, Goto
<1>5. ASSUME NEW s \in Steps, NEW t \in Tasks,
             ForkTask(s, t) \/ SpankTaskPostFork(s, t) \/ SpankTaskExit(s, t)
      PROVE  FALSE
  BY <1>0, <1>5 DEF ForkTask, SpankTaskPostFork, SpankTaskExit
<1>6. ASSUME NEW x, TaskExit(x) \/ Exit(x) PROVE FALSE
  BY <1>0, <1>6 DEF TaskExit, Exit, Goto
<1>7. ASSUME NEW x \in Logins, PamAcctMgmt(x) PROVE FALSE
  BY <1>0, <1>7 DEF PamAcctMgmt, SlurmCpusetCreate, Goto
<1>8. ~AgentStart /\ ~\E j \in Jobs : JobStart(j) \/ JobEnd(j)
  BY <1>0 DEF AgentStart, SlurmCpusetCreate, Goto, JobStart, JobEnd
<1> QED BY <1>2, <1>3, <1>4, <1>5, <1>6, <1>7, <1>8 DEF Next, Crash, GiveUp

\* With kill-orphs, user_cpuset_update kills no login of a user who has a task
\* running, whatever other daemons and agents clean, rename or update: the
\* task's cpuset keeps its CPUs, so the user's is not without any.
THEOREM WorkersNotKilled == Spec => KillsNoWorker
<1>1. Init => LoginPlace
  <2>1. ASSUME Init, NEW l \in Logins PROVE loc[l] \in {Root, Gone}
    BY <2>1, CpusetAssumption DEF Init, Procs
  <2> QED BY <2>1 DEF LoginPlace
<1>2. TaskInv /\ LoginPlace /\ [Next]_vars => LoginPlace'
  <2>1. TaskInv /\ LoginPlace /\ Next => LoginPlace'
    BY LoginsStep DEF TaskInv
  <2>2. LoginPlace /\ UNCHANGED vars => LoginPlace'
    BY DEF vars, LoginPlace, Top, OrphanOf
  <2> QED BY <2>1, <2>2
<1>3. TaskInv /\ LoginPlace /\ [Next]_vars =>
        [\A l \in Logins :
           pc[l] = "granted" /\ pc'[l] = "killed" =>
             \A t \in Tasks : Owner[StepJob[TaskStep[t]]] = LoginUser[l] => loc[t] = Gone]_vars
  BY LoginSpared DEF SparesLogin
<1> QED BY <1>1, <1>2, <1>3, TaskInvariance, PTL DEF Spec, KillsNoWorker

=============================================================================
