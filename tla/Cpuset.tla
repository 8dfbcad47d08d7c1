------------------------------- MODULE Cpuset -------------------------------
(***************************************************************************)
(* The cpuset plugin on one compute node: slurmstepd (cpuset.c), the PAM   *)
(* login module (pam_slurm_cpuset.c) and the kernel's release agent        *)
(* (release-agent.c) share the tree of cpusets below /dev/cpuset/slurm.    *)
(* They serialise on a lock file; tasks, exiting daemons and the SLURM     *)
(* controller do not take that lock and interleave with its holder.        *)
(*                                                                         *)
(* A cpuset is named by its path below /slurm: <<>> is /slurm itself,      *)
(* <<uid>> a user cpuset (or its "orphan:" twin), and job, step and task   *)
(* cpusets follow as <<uid, job>>, <<uid, job, step>>, and so on.          *)
(***************************************************************************)
EXTENDS Integers, Sequences, FiniteSets

CONSTANTS
  CPU,            \* the CPUs of the node (those of the root cpuset)
  Users,          \* user ids
  Jobs,           \* SLURM job ids
  Owner,          \* the user of each job
  JobCpus,        \* CPUs the controller allocated to each job on this node
  Steps,          \* slurmstepd processes, one per job step
  StepJob,        \* the job of each step
  StepOpt,        \* --use-cpusets: "none", "bare" (no =args), "args", "tasks"
  CpusPerTask,    \* SLURM_CPUS_PER_TASK of each step, -1 when it is not set
  Tasks,          \* user task processes
  TaskStep,       \* the step of each task
  Logins,         \* login sessions that go through the PAM stack
  LoginUser,      \* the user of each login
  Agent,          \* the release agent process
  Nobody,         \* no process holds the lock
  Root,           \* the root cpuset, outside /slurm
  Gone,           \* "location" of a process that does not exist
  KillOrphans,    \* kill-orphs in slurm-cpuset.conf
  HasPostOpt,     \* this SLURM calls slurm_spank_init_post_opt
  AgentInstalled, \* /sbin/cpuset_release_agent is the plugin's
  CtldFails,      \* queries to slurmctld may fail
  SlurmReady,     \* /slurm was set up before the first step of the model
  SetupFails,     \* making or configuring /slurm may fail
  MayCrash        \* a process may die at any step

Procs == Steps \cup Tasks \cup Logins \cup {Agent}

ASSUME CpusetAssumption ==
  /\ IsFiniteSet(CPU)
  /\ Owner \in [Jobs -> Users]
  /\ JobCpus \in [Jobs -> Nat \ {0}]
  /\ StepJob \in [Steps -> Jobs]
  /\ StepOpt \in [Steps -> {"none", "bare", "args", "tasks"}]
  /\ CpusPerTask \in [Steps -> Int]
  /\ TaskStep \in [Tasks -> Steps]
  /\ LoginUser \in [Logins -> Users]
  /\ Steps \cap Tasks = {} /\ Steps \cap Logins = {} /\ Tasks \cap Logins = {}
  /\ Agent \notin Steps \cup Tasks \cup Logins
  /\ Nobody \notin Steps \cup Tasks \cup Logins \cup {Agent}
  /\ {KillOrphans, HasPostOpt, AgentInstalled, CtldFails, SlurmReady, SetupFails,
      MayCrash} \subseteq BOOLEAN

VARIABLES
  dirs,      \* the cpusets that exist, as paths
  cpus,      \* the CPUs of each cpuset, {} where there is none
  loc,       \* the cpuset each process is in
  job,       \* the controller's state of each job
  pc,        \* where each process is in its program
  lock,      \* holder of /var/lock/slurm-cpuset
  released,  \* cpusets whose release agent the kernel spawned, not yet locked
  sweep,     \* holder: cpusets slurm_cpuset_clean has still to visit
  pending,   \* holder: users update_user_cpusets has still to visit
  target,    \* holder: path of the cpuset being created
  alloc,     \* holder: CPUs nodemap_allocate returned
  unorphan,  \* holder: user_cpuset_unorphan renamed a cpuset
  snap,      \* login: running jobs still to look at
  count      \* login: total_cpus of create_all_job_cpusets

held == <<sweep, pending, target, alloc, unorphan, snap, count>>
vars == <<dirs, cpus, loc, job, pc, lock, released, held>>

-----------------------------------------------------------------------------
(* Paths.                                                                  *)

Top(u)      == <<[uid |-> u, orphan |-> FALSE]>>
OrphanOf(u) == <<[uid |-> u, orphan |-> TRUE]>>

TopName == [uid : Users, orphan : BOOLEAN]
JobTop(j, o) == [uid |-> Owner[j], orphan |-> o]
Path ==
  {<<>>} \cup {<<n>> : n \in TopName}
    \cup {<<JobTop(j, o), j>> : j \in Jobs, o \in BOOLEAN}
    \cup {<<JobTop(StepJob[s], o), StepJob[s], s>> : s \in Steps, o \in BOOLEAN}
    \cup {<<JobTop(StepJob[TaskStep[t]], o), StepJob[TaskStep[t]], TaskStep[t], t>> :
             t \in Tasks, o \in BOOLEAN}

ASSUME LocationAssumption == Root \notin Path /\ Gone \notin Path /\ Root # Gone

Parent(p)    == [i \in 1 .. (Len(p) - 1) |-> p[i]]
IsOrphan(p)  == p # <<>> /\ p[1].orphan
Kids(p)      == {q \in dirs : q # <<>> /\ Parent(q) = p}
Below(p, q)  == Len(q) < Len(p) /\ \A i \in 1 .. Len(q) : p[i] = q[i]
InJob(p)     == Len(p) > 1   \* a job, step or task cpuset
JobPath(j)   == Append(Top(Owner[j]), j)
TasksOf(s)   == {t \in Tasks : TaskStep[t] = s}

-----------------------------------------------------------------------------
(* The kernel: what a cpuset file system lets a process do.                *)

Members(l, p) == {x \in Procs : l[x] = p}
Busy(d, l, p) ==
  \/ Members(l, p) # {}
  \/ \E q \in d : q # <<>> /\ Parent(q) = p

\* Every cpuset that do_cpuset_create configured has notify_on_release set;
\* a user cpuset that was only made by mkdir has neither CPUs nor the flag.
NotifyOnRelease(p) == Len(p) > 1 \/ (Len(p) = 1 /\ cpus[p] # {})

\* cpuset_move: a task enters a cpuset that exists and has CPUs.
CanEnter(p) == p \in dirs /\ cpus[p] # {}

\* The step's change of dirs and loc makes the kernel spawn a release agent
\* for each cpuset that has just lost its last task or child.
Release ==
  released' = IF AgentInstalled
              THEN released \cup
                     {p \in dirs \cap dirs' : /\ NotifyOnRelease(p)
                                              /\ Busy(dirs, loc, p)
                                              /\ ~Busy(dirs', loc', p)}
              ELSE released

\* rename(2) of a user cpuset takes the whole subtree along.
Renamed(p, from, to) ==
  IF p # <<>> /\ p[1] = from[1] THEN [p EXCEPT ![1] = to[1]] ELSE p
CanRename(from, to) == from \in dirs /\ to \notin dirs

Rename(from, to) ==
  /\ dirs' = {Renamed(p, from, to) : p \in dirs}
  /\ cpus' = [p \in Path |->
                IF p # <<>> /\ p[1] = to[1] THEN cpus[Renamed(p, to, from)]
                ELSE IF p # <<>> /\ p[1] = from[1] THEN {}
                ELSE cpus[p]]
  /\ loc' = [x \in Procs |-> IF loc[x] \in {Root, Gone} THEN loc[x]
                             ELSE Renamed(loc[x], from, to)]

-----------------------------------------------------------------------------
(* The lock, slurm_cpuset_create and slurm_cpuset_clean.                   *)

Goto(h, l) == pc' = [pc EXCEPT ![h] = l]

\* What the holder does once the tree is clean.
AfterClean(h) ==
  IF h \in Steps THEN "migrate" ELSE IF h \in Logins THEN "load" ELSE "update2"

\* Faulty variant: a lock that is held is ignored (F_SETLK for F_SETLKW).
SlurmCpusetCreateNoWait(h) ==
  /\ lock' = h
  /\ <<>> \in dirs
  /\ sweep' = dirs \ {<<>>}
  /\ Goto(h, "clean")
  /\ UNCHANGED <<dirs, cpus, pending, alloc, unorphan, snap, count>>

\* create_and_lock_cpuset_dir: lock, then mkdir /slurm, or find it there. If it
\* fails the lock file stays open: the callers, who return an error too, do not
\* have its descriptor.
SlurmCpusetCreate(h) ==
  /\ lock = Nobody
  /\ lock' = h
  /\ \/ /\ <<>> \in dirs
        /\ sweep' = dirs \ {<<>>}
        /\ Goto(h, "clean")
        /\ UNCHANGED dirs
     \/ /\ <<>> \notin dirs
        /\ dirs' = dirs \cup {<<>>}
        /\ Goto(h, "initslurm")
        /\ UNCHANGED sweep
     \/ /\ SetupFails /\ <<>> \notin dirs
        /\ Goto(h, "failing")
        /\ UNCHANGED <<dirs, sweep>>
  /\ UNCHANGED <<cpus, pending, alloc, unorphan, snap, count>>

\* ... and, if it made /slurm, give it all CPUs of the root cpuset.
InitSlurm(h) ==
  /\ lock = h /\ pc[h] = "initslurm"
  /\ \/ cpus' = [cpus EXCEPT ![<<>>] = CPU] /\ Goto(h, AfterClean(h))
     \/ SetupFails /\ Goto(h, "failing") /\ UNCHANGED cpus
  /\ UNCHANGED <<dirs, loc, job, lock, released, held>>

\* slurm_jobid_is_valid: a controller that cannot be reached counts as "yes".
JobidIsValid(j) == {job[j] = "running"} \cup (IF CtldFails THEN {TRUE} ELSE {})

\* Faulty variants: the jobid is never checked, or the user's tasks are not.
CleanPathAnyJob(p, valid) ==
  LET keep == Len(p) = 2 /\ ~IsOrphan(p) /\ Members(loc, Parent(p)) # {}
  IN IF keep \/ Busy(dirs, loc, p)
     THEN UNCHANGED <<dirs, cpus>>
     ELSE dirs' = dirs \ {p} /\ cpus' = [cpus EXCEPT ![p] = {}]
CleanPathUnused(p, valid) ==
  IF Busy(dirs, loc, p)
  THEN UNCHANGED <<dirs, cpus>>
  ELSE dirs' = dirs \ {p} /\ cpus' = [cpus EXCEPT ![p] = {}]

\* slurm_cpuset_clean_path: rmdir, which the kernel refuses for a busy cpuset,
\* unless this is the cpuset of a valid job whose user has tasks of his own.
CleanPath(p, valid) ==
  LET keep == /\ Len(p) = 2 /\ ~IsOrphan(p)
              /\ Members(loc, Parent(p)) # {}
              /\ valid
  IN IF keep \/ Busy(dirs, loc, p)
     THEN UNCHANGED <<dirs, cpus>>
     ELSE dirs' = dirs \ {p} /\ cpus' = [cpus EXCEPT ![p] = {}]

\* slurm_cpuset_clean: children before their parents.
SlurmCpusetClean(h) ==
  /\ lock = h /\ pc[h] = "clean"
  /\ \E p \in sweep :
       /\ \A q \in sweep : ~Below(q, p)
       /\ sweep' = sweep \ {p}
       /\ \E valid \in (IF Len(p) = 2 THEN JobidIsValid(p[2]) ELSE {FALSE}) :
            CleanPath(p, valid)
  /\ UNCHANGED <<loc, job, pc, lock, pending, target, alloc, unorphan, snap, count>>
  /\ Release

UsersListed == {u \in Users : Top(u) \in dirs}

CleanDone(h) ==
  /\ lock = h /\ pc[h] = "clean" /\ sweep = {}
  /\ pending' = UsersListed
  /\ Goto(h, "update")
  /\ UNCHANGED <<dirs, cpus, loc, job, lock, released, sweep, target, alloc,
                 unorphan, snap, count>>

-----------------------------------------------------------------------------
(* User cpusets.                                                           *)

\* Faulty variant: only cpusets with tasks of their own count as in use.
KidCpusActive(p) == UNION {cpus[q] : q \in {k \in Kids(p) : Members(loc, k) # {}}}

\* used_cpus_bitmask_path (path, 1).
KidCpus(p) == UNION {cpus[q] : q \in Kids(p)}

\* cpuset_modify, as the kernel answers it.
ModifyResult(p, set) ==
  IF ~(KidCpus(p) \subseteq set) THEN "EBUSY"
  ELSE IF ~(set \subseteq cpus[Parent(p)]) THEN "EACCES" ELSE "ok"

\* kill_orphan: SIGKILL to every process in the user cpuset.
KillOrphan(h, u, next) ==
  /\ pc' = [x \in Procs |-> IF x = h THEN next
                            ELSE IF loc[x] = Top(u) THEN "killed" ELSE pc[x]]
  /\ UNCHANGED <<dirs, cpus, loc>>

\* user_cpuset_orphan: move it out of the way, ignoring failure.
UserCpusetOrphan(u) ==
  IF CanRename(Top(u), OrphanOf(u)) THEN Rename(Top(u), OrphanOf(u))
  ELSE UNCHANGED <<dirs, cpus, loc>>

\* The branch of user_cpuset_update for a user who has no CPUs left.
OrphanUser(h, u, next) ==
  \/ KillOrphans /\ KillOrphan(h, u, next)
  \/ ~KillOrphans /\ Goto(h, next) /\ UserCpusetOrphan(u)

\* user_cpuset_update from `used' on, for the holder h.
UserCpusetUpdate(h, u, used, next, failed) ==
  \/ used = {} /\ OrphanUser(h, u, next)
  \/ /\ used # {}
     /\ UNCHANGED <<dirs, loc>>
     /\ LET rc == ModifyResult(Top(u), used) IN
        /\ Goto(h, CASE rc = "ok" -> next [] rc = "EACCES" -> failed
                     [] OTHER -> pc[h])
        /\ cpus' = IF rc = "ok" THEN [cpus EXCEPT ![Top(u)] = used] ELSE cpus

\* update_user_cpusets: one pass over the users' directories. `used' is the
\* union of the children here, so cpuset_modify cannot answer EBUSY.
UpdateUserCpusets(h) ==
  /\ lock = h /\ pc[h] \in {"update", "update2"}
  /\ \E u \in pending :
       /\ pending' = pending \ {u}
       /\ UserCpusetUpdate(h, u, KidCpus(Top(u)), pc[h], pc[h])
  /\ UNCHANGED <<job, lock, released, sweep, target, alloc, unorphan, snap, count>>

\* The release agent makes a second pass of its own before it unlocks.
UpdateDone(h) ==
  /\ lock = h /\ pc[h] \in {"update", "update2"} /\ pending = {}
  /\ Goto(h, IF pc[h] = "update2" THEN "unlock_ok" ELSE AfterClean(h))
  /\ pending' = IF pc[h] = "update" /\ AfterClean(h) = "update2" THEN UsersListed ELSE {}
  /\ UNCHANGED <<dirs, cpus, loc, job, lock, released, sweep, target, alloc,
                 unorphan, snap, count>>

-----------------------------------------------------------------------------
(* create_cpuset, for the job, step or task cpuset named by target.        *)

\* query_ncpus_per_node: what the controller allocated to the job here, or -1
\* when a step's query fails. (A login has the number from its list of jobs.)
QueryNcpusPerNode(h, j) ==
  {JobCpus[j]} \cup (IF CtldFails /\ h \in Steps THEN {-1} ELSE {})

\* job_step_ncpus, a negative number if SLURM_CPUS_PER_TASK is not set.
JobStepNcpus(s) == CpusPerTask[s] * Cardinality(TasksOf(s))

\* The ncpus that create_cpuset is called with.
Requested(h) ==
  CASE Len(target) = 2 -> QueryNcpusPerNode(h, target[2])
    [] Len(target) = 3 -> {JobStepNcpus(h)}
    [] OTHER           -> {CpusPerTask[h]}

\* Where create_cpuset goes on when it fails.
CreateFailed(h) == IF h \in Logins THEN "scan" ELSE "unlock_fail"

\* Faulty variant: only cpusets with tasks of their own count as in use.
FreeActive(h) ==
  LET cur == IF loc[h] = Root THEN <<>> ELSE loc[h]
  IN cpus[cur] \ UNION {cpus[q] : q \in {k \in Kids(cur) : Members(loc, k) # {}}}

\* used_cpus_bitmask_path (NULL, 0), complemented: the CPUs of the current
\* cpuset (/slurm for a process in the root) that no child holds. Orphans
\* are skipped.
Free(h) ==
  LET cur == IF loc[h] = Root THEN <<>> ELSE loc[h]
  IN cpus[cur] \ UNION {cpus[q] : q \in {k \in Kids(cur) : ~IsOrphan(k)}}

\* nodemap_allocate: which free CPUs it takes is the policy's choice (module
\* Nodemap); a count that is not positive takes none.
NodemapAllocate(free, n) ==
  {a \in SUBSET free : Cardinality(a) = IF n > 0 THEN n ELSE 0}

CreateCpuset(h) ==
  /\ lock = h /\ pc[h] = "create"
  /\ \E n \in Requested(h) :
       \/ /\ n > Cardinality(Free(h))
          /\ alloc' = {}
          /\ Goto(h, CreateFailed(h))
       \/ /\ n <= Cardinality(Free(h))
          /\ alloc' \in NodemapAllocate(Free(h), n)
          /\ Goto(h, IF Len(target) = 2 THEN "userdir" ELSE "mkdir")
  /\ UNCHANGED <<dirs, cpus, loc, job, lock, released, sweep, pending, target,
                 unorphan, snap, count>>

\* Faulty variant: the orphan is left where it is.
UserCpusetDirOnly(h) ==
  /\ lock = h /\ pc[h] = "userdir"
  /\ dirs' = dirs \cup {Top(target[1].uid)}
  /\ Goto(h, "usermod")
  /\ UNCHANGED <<cpus, loc, job, lock, released, held>>

\* user_cpuset_unorphan, else user_cpuset_create.
UserCpusetDir(h) ==
  LET u == target[1].uid IN
  /\ lock = h /\ pc[h] = "userdir"
  /\ \/ /\ CanRename(OrphanOf(u), Top(u))
        /\ Rename(OrphanOf(u), Top(u))
        /\ unorphan' = TRUE
     \/ /\ ~CanRename(OrphanOf(u), Top(u))
        /\ dirs' = dirs \cup {Top(u)}
        /\ unorphan' = FALSE
        /\ UNCHANGED <<cpus, loc>>
  /\ Goto(h, "usermod")
  /\ UNCHANGED <<job, lock, released, sweep, pending, target, alloc, snap, count>>

\* Faulty variant: the CPUs of the user's other jobs are forgotten.
UserCpusetModifyAlone(h) ==
  /\ lock = h /\ pc[h] = "usermod"
  /\ UserCpusetUpdate(h, target[1].uid, alloc, "mkdir", CreateFailed(h))
  /\ UNCHANGED <<job, lock, released, held>>

\* The rest of user_cpuset_update, with the CPUs of the new job added.
UserCpusetModify(h) ==
  LET u    == target[1].uid
      used == (IF unorphan THEN {} ELSE KidCpus(Top(u))) \cup alloc
  IN
  /\ lock = h /\ pc[h] = "usermod"
  /\ UserCpusetUpdate(h, u, used, "mkdir", CreateFailed(h))
  /\ UNCHANGED <<job, lock, released, held>>

\* job_cpuset_create. Its rc is never set when cpuset_create fails, so the
\* caller may see either outcome.
JobCpusetCreate(h) ==
  LET ok == /\ target \notin dirs /\ Parent(target) \in dirs
            /\ alloc \subseteq cpus[Parent(target)]
      Created == IF h \in Logins
                 THEN count' = count + JobCpus[target[2]] /\ Goto(h, "scan")
                 ELSE count' = count /\ Goto(h, "migrate2")
  IN
  /\ lock = h /\ pc[h] = "mkdir"
  /\ \/ /\ ok
        /\ dirs' = dirs \cup {target}
        /\ cpus' = [cpus EXCEPT ![target] = alloc]
        /\ Created
     \/ ~ok /\ Created /\ UNCHANGED <<dirs, cpus>>
     \/ ~ok /\ Goto(h, CreateFailed(h)) /\ UNCHANGED <<dirs, cpus, count>>
  /\ UNCHANGED <<loc, job, lock, released, sweep, pending, target, alloc,
                 unorphan, snap>>

\* Faulty variant: a task cpuset takes all the tasks of its step.
MigrateAll(h) ==
  LET xs == IF Len(target) = 4 THEN {t \in TasksOf(h) : loc[t] # Gone} ELSE {h} IN
  /\ lock = h /\ h \in Steps /\ pc[h] \in {"migrate", "migrate2"}
  /\ CanEnter(target)
  /\ loc' = [x \in DOMAIN loc |-> IF x \in xs THEN target ELSE loc[x]]
  /\ Goto(h, "unlock_ok")
  /\ UNCHANGED <<dirs, cpus, job, lock, held>>
  /\ Release

\* migrate_job_to_cpuset: the daemon itself, or the task of a task cpuset.
Migrate(h) ==
  LET x  == IF Len(target) = 4 THEN target[4] ELSE h
      ok == CanEnter(target) /\ loc[x] # Gone
  IN
  /\ lock = h /\ h \in Steps /\ pc[h] \in {"migrate", "migrate2"}
  /\ \/ ok /\ loc' = [loc EXCEPT ![x] = target] /\ Goto(h, "unlock_ok")
     \/ /\ ~ok
        /\ Goto(h, IF pc[h] = "migrate" THEN "create" ELSE "unlock_fail")
        /\ UNCHANGED loc
  /\ UNCHANGED <<dirs, cpus, job, lock, held>>
  /\ Release

-----------------------------------------------------------------------------
(* slurm_cpuset_unlock, and what each process does next.                   *)

\* A step gets a cpuset of its own when slurm_spank_init_post_opt finds
\* user_options set, which only --use-cpusets=args does; in a SLURM without
\* that callback, the option handler itself creates it.
WantsStep(s) ==
  IF HasPostOpt THEN StepOpt[s] \in {"args", "tasks"} ELSE StepOpt[s] # "none"

\* Faulty variant: a step goes on after slurm_spank_init failed.
AfterUnlockAnyway(h) ==
  CASE h \in Logins -> IF pc[h] = "unlock_ok" THEN "granted" ELSE "denied"
    [] h \in Steps  -> IF pc[h] = "unlock_ok" /\ Len(target) = 2 /\ WantsStep(h)
                       THEN "inited" ELSE "running"
    [] OTHER -> "idle"

\* slurmstepd gives up when a callback fails (the plugin is "required"), but a
\* task whose own cpuset cannot be made runs in the step's.
AfterUnlock(h) ==
  CASE h \in Logins -> IF pc[h] = "unlock_ok" THEN "granted" ELSE "denied"
    [] h \in Steps  ->
         IF pc[h] = "unlock_fail" /\ Len(target) # 4 THEN "failed"
         ELSE IF Len(target) = 2 /\ WantsStep(h) THEN "inited" ELSE "running"
    [] OTHER -> "idle"

ResetHeld ==
  /\ sweep' = {} /\ pending' = {} /\ target' = <<>> /\ alloc' = {}
  /\ unorphan' = FALSE /\ snap' = {} /\ count' = 0

Unlock(h) ==
  /\ lock = h /\ pc[h] \in {"unlock_ok", "unlock_fail"}
  /\ lock' = Nobody
  /\ Goto(h, AfterUnlock(h))
  /\ ResetHeld
  /\ loc' = IF AfterUnlock(h) = "denied" THEN [loc EXCEPT ![h] = Gone] ELSE loc
  /\ UNCHANGED <<dirs, cpus, job, released>>

-----------------------------------------------------------------------------
(* slurmstepd.                                                             *)

\* slurm_spank_init: slurmstepd starts in the root cpuset.
SpankInit(s) ==
  /\ pc[s] = "new" /\ job[StepJob[s]] = "running"
  /\ target' = JobPath(StepJob[s])
  /\ loc' = [loc EXCEPT ![s] = Root]
  /\ SlurmCpusetCreate(s)
  /\ UNCHANGED <<job, released>>

\* slurm_spank_init_post_opt (or parse_user_option): a cpuset for the step.
SpankInitPostOpt(s) ==
  /\ pc[s] = "inited" /\ lock = Nobody
  /\ lock' = s
  /\ target' = Append(loc[s], s)
  /\ Goto(s, "create")
  /\ UNCHANGED <<dirs, cpus, loc, job, released, sweep, pending, alloc, unorphan,
                 snap, count>>

\* slurmstepd forks a task, which starts in the daemon's cpuset; if each task
\* is to have its own, slurm_spank_task_post_fork runs next.
ForkTask(s, t) ==
  /\ TaskStep[t] = s /\ pc[s] = "running" /\ pc[t] = "new"
  /\ loc' = [loc EXCEPT ![t] = loc[s]]
  /\ pc' = IF StepOpt[s] = "tasks" THEN [pc EXCEPT ![t] = "forked", ![s] = "forked"]
                                  ELSE [pc EXCEPT ![t] = "user"]
  /\ UNCHANGED <<dirs, cpus, job, lock, released, held>>

\* slurm_spank_task_post_fork, for the task forked last.
SpankTaskPostFork(s, t) ==
  /\ TaskStep[t] = s /\ pc[s] = "forked" /\ pc[t] = "forked" /\ lock = Nobody
  /\ lock' = s
  /\ target' = Append(loc[s], t)
  /\ pc' = [pc EXCEPT ![s] = "create", ![t] = "user"]
  /\ UNCHANGED <<dirs, cpus, loc, job, released, sweep, pending, alloc, unorphan,
                 snap, count>>

TaskExit(t) ==
  /\ pc[t] \in {"user", "forked"}
  /\ pc[TaskStep[t]] = "gone" \/ pc[t] = "user"
  /\ pc' = [pc EXCEPT ![t] = "exited"]
  /\ loc' = [loc EXCEPT ![t] = Gone]
  /\ UNCHANGED <<dirs, cpus, job, lock, held>>
  /\ Release

\* slurm_spank_task_exit, for every task slurmstepd reaps. After the last one
\* it moves to the user cpuset, without the lock and ignoring failure.
SpankTaskExit(s, t) ==
  LET last == \A x \in TasksOf(s) : x # t => pc[x] = "reaped"
      u    == Owner[StepJob[s]]
  IN
  /\ TaskStep[t] = s /\ pc[s] = "running" /\ pc[t] = "exited"
  /\ pc' = [pc EXCEPT ![t] = "reaped", ![s] = IF last THEN "done" ELSE @]
  /\ loc' = IF last /\ CanEnter(Top(u)) THEN [loc EXCEPT ![s] = Top(u)] ELSE loc
  /\ UNCHANGED <<dirs, cpus, job, lock, held>>
  /\ Release

\* A process ends: slurmstepd after its step, a user who logs out, whatever
\* kill_orphan killed.
Exit(x) ==
  /\ \/ x \in Steps /\ pc[x] \in {"done", "failed", "killed"}
     \/ x \in Logins /\ pc[x] \in {"granted", "killed"}
  /\ Goto(x, "gone")
  /\ loc' = [loc EXCEPT ![x] = Gone]
  /\ UNCHANGED <<dirs, cpus, job, lock, held>>
  /\ Release

\* A process dies. If it holds the lock, the kernel drops it with the file.
Dies(h) ==
  /\ \/ lock = h /\ lock' = Nobody /\ ResetHeld
     \/ /\ h \in Steps /\ pc[h] \in {"inited", "running", "forked"}
        /\ UNCHANGED <<lock, held>>
  /\ Goto(h, IF h = Agent THEN "idle" ELSE "gone")
  /\ loc' = [loc EXCEPT ![h] = IF h = Agent THEN Root ELSE Gone]
  /\ UNCHANGED <<dirs, cpus, job>>
  /\ Release

Crash(h) == MayCrash /\ Dies(h)

\* A program that could not set up /slurm ends, with the lock file open.
GiveUp(h) == pc[h] = "failing" /\ Dies(h)

-----------------------------------------------------------------------------
(* pam_slurm_cpuset: sshd is in the root cpuset, so in_user_cpuset is 0.   *)

PamAcctMgmt(l) ==
  /\ pc[l] = "new"
  /\ loc' = [loc EXCEPT ![l] = Root]
  /\ SlurmCpusetCreate(l)
  /\ UNCHANGED <<job, released, target>>

\* create_all_job_cpusets: load the running jobs of the user.
LoadJobs(l) ==
  /\ lock = l /\ pc[l] = "load"
  /\ \/ /\ snap' = {j \in Jobs : Owner[j] = LoginUser[l] /\ job[j] = "running"}
        /\ Goto(l, "scan")
     \/ CtldFails /\ Goto(l, "unlock_fail") /\ UNCHANGED snap
  /\ UNCHANGED <<dirs, cpus, loc, job, lock, released, sweep, pending, target,
                 alloc, unorphan, count>>

\* Faulty variant: a job is counted before its cpuset is made, and again after.
ScanJobTwice(l) ==
  /\ lock = l /\ pc[l] = "scan"
  /\ \E j \in snap :
       /\ snap' = snap \ {j}
       /\ count' = count + JobCpus[j]
       /\ \/ JobPath(j) \in dirs /\ UNCHANGED <<pc, target>>
          \/ JobPath(j) \notin dirs /\ target' = JobPath(j) /\ Goto(l, "create")
  /\ UNCHANGED <<dirs, cpus, loc, job, lock, released, sweep, pending, alloc, unorphan>>

\* ... and see for each that it has a cpuset (job_cpuset_exists).
ScanJob(l) ==
  /\ lock = l /\ pc[l] = "scan"
  /\ \E j \in snap :
       /\ snap' = snap \ {j}
       /\ \/ /\ JobPath(j) \in dirs
             /\ count' = count + JobCpus[j]
             /\ UNCHANGED <<pc, target>>
          \/ /\ JobPath(j) \notin dirs
             /\ target' = JobPath(j)
             /\ Goto(l, "create")
             /\ UNCHANGED count
  /\ UNCHANGED <<dirs, cpus, loc, job, lock, released, sweep, pending, alloc, unorphan>>

\* Without CPUs the login is denied, else it enters the user cpuset.
ScanDone(l) ==
  LET u  == LoginUser[l]
      ok == count > 0 /\ CanEnter(Top(u))
  IN
  /\ lock = l /\ pc[l] = "scan" /\ snap = {}
  /\ Goto(l, IF ok THEN "unlock_ok" ELSE "unlock_fail")
  /\ loc' = IF ok THEN [loc EXCEPT ![l] = Top(u)] ELSE loc
  /\ UNCHANGED <<dirs, cpus, job, lock, released, held>>

-----------------------------------------------------------------------------
(* The release agent and the controller.                                   *)

AgentStart ==
  /\ pc[Agent] = "idle"
  /\ \E p \in released : released' = released \ {p}
  /\ SlurmCpusetCreate(Agent)
  /\ UNCHANGED <<loc, job, target>>

RunningJobs == {j \in Jobs : job[j] = "running"}

\* The CPUs given to the jobs S, each as a job and a number.
Grants(S) == UNION {{j} \X (1 .. JobCpus[j]) : j \in S}

\* select/cons_res never gives out more CPUs than the node has.
JobStart(j) ==
  /\ job[j] = "pending"
  /\ Cardinality(Grants(RunningJobs \cup {j})) <= Cardinality(CPU)
  /\ job' = [job EXCEPT ![j] = "running"]
  /\ UNCHANGED <<dirs, cpus, loc, pc, lock, released, held>>

\* A job completes when its tasks are gone and its steps have reported, which
\* they do after slurm_spank_task_exit; a daemon may still hang around.
JobEnd(j) ==
  /\ job[j] = "running"
  /\ \A s \in Steps : StepJob[s] = j =>
       /\ pc[s] \in {"new", "done", "killed", "gone"}
       /\ \A t \in TasksOf(s) : loc[t] = Gone
  /\ job' = [job EXCEPT ![j] = "done"]
  /\ UNCHANGED <<dirs, cpus, loc, pc, lock, released, held>>

-----------------------------------------------------------------------------
Init ==
  /\ dirs = IF SlurmReady THEN {<<>>} ELSE {}
  /\ cpus = [p \in Path |-> IF SlurmReady /\ p = <<>> THEN CPU ELSE {}]
  /\ loc = [x \in Procs |-> IF x = Agent THEN Root ELSE Gone]
  /\ job = [j \in Jobs |-> "pending"]
  /\ pc = [x \in Procs |-> IF x = Agent THEN "idle" ELSE "new"]
  /\ lock = Nobody /\ released = {}
  /\ sweep = {} /\ pending = {} /\ target = <<>> /\ alloc = {}
  /\ unorphan = FALSE /\ snap = {} /\ count = 0

\* What the lock holder does next; it never waits for anybody.
Holder(h) ==
  \/ InitSlurm(h) \/ SlurmCpusetClean(h) \/ CleanDone(h)
  \/ UpdateUserCpusets(h) \/ UpdateDone(h)
  \/ CreateCpuset(h) \/ UserCpusetDir(h) \/ UserCpusetModify(h)
  \/ JobCpusetCreate(h) \/ Migrate(h) \/ Unlock(h)
  \/ h \in Logins /\ LoadJobs(h)
  \/ h \in Logins /\ ScanJob(h)
  \/ h \in Logins /\ ScanDone(h)

Next ==
  \/ \E h \in Procs : Holder(h) \/ Crash(h) \/ GiveUp(h)
  \/ \E s \in Steps : SpankInit(s) \/ SpankInitPostOpt(s)
  \/ \E s \in Steps, t \in Tasks :
       ForkTask(s, t) \/ SpankTaskPostFork(s, t) \/ SpankTaskExit(s, t)
  \/ \E t \in Tasks : TaskExit(t)
  \/ \E x \in Steps \cup Logins : Exit(x)
  \/ \E l \in Logins : PamAcctMgmt(l)
  \/ AgentStart
  \/ \E j \in Jobs : JobStart(j) \/ JobEnd(j)

Spec == Init /\ [][Next]_vars

\* A process that holds the lock runs on, and the kernel runs the release
\* agents it spawned; daemons exit once they are done, and so does whoever could
\* not set up /slurm: slurmstepd without its required plugin, sshd after a denied
\* login, the agent. Nothing makes users log in or out, or tasks end.
Fairness ==
  /\ \A h \in Procs : WF_vars(Holder(h)) /\ WF_vars(GiveUp(h))
  /\ WF_vars(AgentStart)
  /\ \A s \in Steps : WF_vars(Exit(s))

FairSpec == Spec /\ Fairness

-----------------------------------------------------------------------------
(* Properties.                                                             *)

HolderPC == {"initslurm", "clean", "update", "update2", "migrate", "create",
             "userdir", "usermod", "mkdir", "migrate2", "load", "scan",
             "unlock_ok", "unlock_fail", "failing"}
FreePC == {"new", "inited", "running", "forked", "user", "exited", "reaped",
           "done", "failed", "granted", "denied", "killed", "gone", "idle"}

\* The variables have their types, and exactly the process that holds the lock
\* file is between do_cpuset_lock and do_cpuset_unlock, or failed between them.
TypeOK ==
  /\ dirs \subseteq Path
  /\ cpus \in [Path -> SUBSET CPU]
  /\ loc \in [Procs -> Path \cup {Root, Gone}]
  /\ job \in [Jobs -> {"pending", "running", "done"}]
  /\ pc \in [Procs -> HolderPC \cup FreePC]
  /\ lock \in (Procs \ Tasks) \cup {Nobody}
  /\ \A x \in Procs : pc[x] \in HolderPC <=> lock = x
  /\ released \subseteq Path /\ sweep \subseteq Path /\ pending \subseteq Users
  /\ target \in Path /\ alloc \subseteq CPU /\ unorphan \in BOOLEAN
  /\ snap \subseteq Jobs /\ count \in Nat

\* No CPU is in two job cpusets, nor in two step cpusets, nor in two task
\* cpusets, whoever created them and whoever died on the way (the purpose of
\* used_cpus_bitmask_path under the lock).
Exclusive ==
  \A p, q \in dirs :
    InJob(p) /\ Len(p) = Len(q) /\ p # q => cpus[p] \cap cpus[q] = {}

\* A user never has a cpuset and an orphan cpuset at once: user_cpuset_update
\* would then neither find the orphaned session nor be able to orphan again.
NoOrphanTwin == \A u \in Users : ~(Top(u) \in dirs /\ OrphanOf(u) \in dirs)

-----------------------------------------------------------------------------
(* The inductive invariant behind Exclusive and NoOrphanTwin.              *)

\* The paths of a step's job, step and task cpusets, orphaned or not.
IsJobOf(p, s)  == \E o \in BOOLEAN : p = <<JobTop(StepJob[s], o), StepJob[s]>>
IsStepOf(p, s) == \E o \in BOOLEAN : p = <<JobTop(StepJob[s], o), StepJob[s], s>>
IsTaskOf(p, s) == \E o \in BOOLEAN, t \in TasksOf(s) :
                     p = <<JobTop(StepJob[s], o), StepJob[s], s, t>>

\* The tree: a cpuset lies within its parent, and under an orphan nobody has
\* a CPU.
TreeInv ==
  /\ \A p \in dirs : InJob(p) => Parent(p) \in dirs
  /\ \A p \in dirs : InJob(p) => cpus[p] \subseteq cpus[Parent(p)]
  /\ \A p \in dirs : InJob(p) /\ IsOrphan(p) => cpus[p] = {}
  /\ \A p \in Path : InJob(p) /\ p \notin dirs => cpus[p] = {}

StageTwo == {"create", "mkdir", "migrate2", "unlock_ok", "unlock_fail"}

\* What slurmstepd s, holding the lock, is working on, and where it is then.
WorkingOn(s) ==
  \/ /\ target = JobPath(StepJob[s])
     /\ pc[s] \notin {"load", "scan", "update2"}
     /\ loc[s] = IF pc[s] = "unlock_ok" THEN target ELSE Root
  \/ /\ IsStepOf(target, s) /\ WantsStep(s) /\ pc[s] \in StageTwo
     /\ loc[s] = IF pc[s] = "unlock_ok" THEN target ELSE Parent(target)
  \/ /\ IsTaskOf(target, s) /\ WantsStep(s) /\ pc[s] \in StageTwo
     /\ loc[s] = Parent(target)

\* ... and where it is when it does not hold the lock.
StepShape(s) ==
  /\ pc[s] = "inited" => IsJobOf(loc[s], s) /\ WantsStep(s)
  /\ pc[s] \in {"running", "forked"} /\ WantsStep(s) => IsStepOf(loc[s], s)
  /\ pc[s] = "forked" => StepOpt[s] = "tasks"
  /\ lock = s => WorkingOn(s)

LoginShape(l) ==
  lock = l =>
    /\ pc[l] \in {"create", "userdir", "usermod", "mkdir"} =>
         \E j \in Jobs : target = JobPath(j)
    /\ pc[l] \notin {"migrate", "migrate2", "update2"}
    /\ pc[l] # "unlock_ok" => loc[l] = Root

AgentShape ==
  lock = Agent => pc[Agent] \in {"initslurm", "clean", "update", "update2", "unlock_ok", "failing"}

\* The CPUs about to go to a new cpuset are in no cpuset of its depth.
AllocInv ==
  \A h \in Procs :
    /\ pc[h] \in {"userdir", "usermod", "mkdir"} =>
         \A p \in dirs : Len(p) = Len(target) => alloc \cap cpus[p] = {}
    /\ pc[h] = "usermod" /\ unorphan => KidCpus(Top(target[1].uid)) = {}

IInv ==
  /\ TypeOK
  /\ TreeInv /\ Exclusive /\ NoOrphanTwin
  /\ \A s \in Steps : StepShape(s)
  /\ \A l \in Logins : LoginShape(l)
  /\ AgentShape
  /\ AllocInv

-----------------------------------------------------------------------------
(* The inductive invariant behind TasksConfined and RunningKeepsCpus.      *)

\* A cpuset in which step s may run its tasks: it exists, has CPUs, and is that
\* of its job, of the step or of one of its tasks.
Confined(p, s) ==
  /\ p \in dirs /\ cpus[p] # {}
  /\ IsJobOf(p, s) \/ IsStepOf(p, s) \/ IsTaskOf(p, s)

\* slurmstepd has entered its cpuset and not left it.
Entered(s) ==
  \/ pc[s] \in {"inited", "running", "forked"}
  \/ lock = s /\ (Len(target) > 2 \/ pc[s] = "unlock_ok")

ConfInv ==
  /\ \A s \in Steps : Entered(s) => Confined(loc[s], s)
  /\ \A t \in Tasks : loc[t] # Gone => Confined(loc[t], TaskStep[t])

\* Between fork and slurm_spank_task_post_fork, and until it is moved to its
\* own cpuset, a task is where slurmstepd is; one task at a time.
ForkInv ==
  \A t \in Tasks :
    LET s == TaskStep[t] IN
    /\ pc[t] = "new" => loc[t] = Gone
    /\ pc[s] = "gone" => loc[s] = Gone
    /\ pc[t] = "forked" =>
         /\ (pc[s] = "forked" /\ loc[t] = loc[s]) \/ pc[s] = "gone"
         /\ \A x \in TasksOf(s) : pc[x] = "forked" => x = t
    /\ lock = s /\ Len(target) = 4 /\ target[4] = t /\ pc[s] # "unlock_ok" =>
         loc[t] \in {loc[s], Gone}

\* A login is outside /slurm, or in its user's cpuset, orphaned or not; with
\* TaskInv this is the inductive invariant behind KillsNoWorker.
LoginPlace ==
  \A l \in Logins : loc[l] \in {Root, Gone, Top(LoginUser[l]), OrphanOf(LoginUser[l])}

-----------------------------------------------------------------------------
(* The inductive invariant behind LoginCpus, for a controller that answers *)
(* (a step whose query fails makes a job cpuset without CPUs).             *)

\* A job cpuset has what the controller allocated.
FullJobs ==
  /\ \A p \in dirs : Len(p) = 2 => Cardinality(cpus[p]) = JobCpus[p[2]]
  /\ \A h \in Procs :
       pc[h] \in {"userdir", "usermod", "mkdir"} /\ Len(target) = 2 =>
         Cardinality(alloc) = JobCpus[target[2]]

Creating == {"create", "userdir", "usermod", "mkdir"}

\* When the user cpuset was changed it has room for the job, which has no
\* cpuset yet.
RoomFor(l) ==
  LET top == Top(LoginUser[l]) IN
  /\ pc[l] \in Creating =>
       target \notin dirs /\ target[1] = top[1] /\ \A j \in snap : target # JobPath(j)
  /\ pc[l] = "usermod" => top \in dirs
  /\ pc[l] = "mkdir" => top \in dirs /\ alloc \subseteq cpus[top]

\* The CPUs that a login has counted so far: they belong to jobs of the user,
\* and to none that is still to be looked at.
Counted(l) ==
  /\ \A j \in snap : Owner[j] = LoginUser[l]
  /\ \E S \in SUBSET KidCpus(Top(LoginUser[l])) :
       /\ Cardinality(S) = count
       /\ \A j \in snap : S \cap cpus[JobPath(j)] = {}

RoomInv  == \A l \in Logins : RoomFor(l)
CountInv == \A l \in Logins : pc[l] \in Creating \cup {"scan"} => Counted(l)

\* Only a login that has loaded the list of jobs has counted anything.
GrantInv ==
  count # 0 => \E l \in Logins : lock = l /\ pc[l] \notin {"initslurm", "failing", "clean", "update", "load"}

LInv == ~CtldFails => FullJobs /\ RoomInv /\ CountInv /\ GrantInv

-----------------------------------------------------------------------------
(* The inductive invariant behind GrantedFits, for a controller that       *)
(* answers, without kill-orphs (a killed user's cpuset keeps its CPUs for  *)
(* a while), and if nobody dies while making /slurm.                       *)

\* /slurm has all CPUs, unless it is being made.
RootInv ==
  /\ <<>> \notin dirs => lock = Nobody /\ dirs = {} /\ ~SlurmReady
  /\ \A h \in Procs : pc[h] = "initslurm" => dirs = {<<>>} /\ ~SlurmReady
  /\ \A h \in Procs : pc[h] # "failing"
  /\ <<>> \in dirs => cpus[<<>>] = CPU \/ \E h \in Procs : pc[h] = "initslurm"
  /\ <<>> \notin sweep /\ (sweep # {} => \E h \in Procs : pc[h] = "clean")

\* The node has the CPUs that the controller gave to the jobs S.
Fit(S) == IsFiniteSet(Grants(S)) /\ Cardinality(Grants(S)) <= Cardinality(CPU)

\* The running jobs have CPUs of their own; a job that was not started has no
\* cpuset, and nobody is about to make one.
StartedInv ==
  /\ Fit(RunningJobs)
  /\ \A p \in dirs \cup {target} : InJob(p) => job[p[2]] # "pending"
  /\ \A j \in snap : job[j] # "pending"

\* Who is in a job's cpuset is a step or a task of a running job.
PlaceInv ==
  /\ \A x \in Procs : pc[x] # "killed"
  /\ \A x \in Logins \cup {Agent} : loc[x] \in Path => ~InJob(loc[x])
  /\ \A s \in Steps :
       /\ pc[s] \notin {"new", "done", "gone"} => job[StepJob[s]] = "running"
       /\ loc[s] \in Path /\ InJob(loc[s]) =>
            pc[s] \notin {"new", "done", "gone"} /\ loc[s][2] = StepJob[s]
  /\ \A t \in Tasks : loc[t] # Gone => job[StepJob[TaskStep[t]]] = "running"

\* Jobs with a cpuset that the cleaning keeps: it went by, or the job runs.
Holding ==
  {j \in Jobs : \E p \in dirs : InJob(p) /\ p[2] = j /\ (p \notin sweep \/ job[j] = "running")}

\* From the lock to the allocation, the jobs that keep a cpuset and the step's
\* own were given CPUs of their own.
HoldInv ==
  \A s \in Steps :
    lock = s /\ Len(target) = 2 /\ pc[s] \in {"clean", "update", "migrate", "create"} =>
      Fit(Holding \cup {target[2]})

\* Once it was updated, a user cpuset has the CPUs of the jobs in it.
RefreshInv ==
  \A s \in Steps :
    lock = s /\ Len(target) = 2 /\ pc[s] \in {"update", "migrate", "create"} =>
      /\ \A u \in Users :
           Top(u) \in dirs =>
             (pc[s] = "update" /\ u \in pending) \/ cpus[Top(u)] \subseteq KidCpus(Top(u))
      /\ pc[s] = "create" => target \notin dirs

\* The controller answers, no user is killed, and /slurm exists or making it does
\* not fail and nobody dies over it; otherwise anybody may die anywhere.
Undisturbing == ~CtldFails /\ ~KillOrphans /\ (SlurmReady \/ ~(MayCrash \/ SetupFails))

FitsInv == Undisturbing => RootInv /\ StartedInv /\ PlaceInv /\ HoldInv /\ RefreshInv

-----------------------------------------------------------------------------
(* Further properties. TasksConfined, GrantedFits, LoginCpus (when the     *)
(* controller answers), RunningKeepsCpus and KillsNoWorker are proved too; *)
(* the others are for TLC.                                                 *)

\* Whatever failed before, a user's task runs inside its job's cpuset, and on
\* CPUs: a step that could not create or enter a cpuset starts no tasks.
TasksConfined ==
  \A t \in Tasks : loc[t] # Gone =>
    /\ loc[t] \in dirs /\ cpus[loc[t]] # {}
    /\ LET p == JobPath(StepJob[TaskStep[t]]) IN loc[t] = p \/ Below(loc[t], p)

\* A job the controller placed on this node finds its CPUs free: by the time
\* slurm_spank_init allocates, cleaning has returned the CPUs of every job
\* that completed before this one was started.
GrantedFits ==
  \A s \in Steps :
    pc[s] = "create" /\ Len(target) = 2
      => JobCpus[target[2]] <= Cardinality(Free(s))

\* A job cpuset without CPUs: what is left of a step whose query of the
\* controller failed (nodemap_allocate takes -1 for nothing to do).
EmptyJob(u) == \E j \in Jobs : Owner[j] = u /\ JobPath(j) \in dirs /\ cpus[JobPath(j)] = {}

\* A login is told how many CPUs it has ("Access granted ... with %d CPUs");
\* the user cpuset it enters has at least these. The one way to be told of too
\* many is that a step's query failed: the login counts that job by the number
\* the controller has of it, since it finds a cpuset of it.
LoginCpus ==
  \A l \in Logins :
    pc[l] = "unlock_ok" =>
      count <= Cardinality(cpus[Top(LoginUser[l])]) \/ (CtldFails /\ EmptyJob(LoginUser[l]))

\* Nobody takes a running task's CPUs away: from one step to the next it stays
\* in the same cpuset with the same CPUs, or moves into its own task cpuset.
\* In particular no cleaning removes its cpuset and no rename orphans it.
RunningKeepsCpus ==
  [][\A t \in Tasks :
       loc[t] # Gone /\ loc'[t] # Gone =>
         \/ loc'[t] = loc[t] /\ loc[t] \in dirs' /\ cpus'[loc[t]] = cpus[loc[t]]
         \/ Len(loc'[t]) = 4 /\ Parent(loc'[t]) = loc[t]]_vars

\* slurm-cpuset(8), kill-orphs: only "those logins for which there are no
\* longer any SLURM jobs running" are killed.
KillsOrphansOnly ==
  [][\A l \in Logins :
       pc[l] = "granted" /\ pc'[l] = "killed" =>
         \A j \in Jobs : Owner[j] = LoginUser[l] => job[j] # "running"]_vars

\* With kill-orphs, no login is killed while a task of its user runs, whatever
\* daemons, agents and logins do to the tree meanwhile.
KillsNoWorker ==
  [][\A l \in Logins :
       pc[l] = "granted" /\ pc'[l] = "killed" =>
         \A t \in Tasks : Owner[StepJob[TaskStep[t]]] = LoginUser[l] => loc[t] = Gone]_vars

\* Whoever takes the lock gives it back, in the error returns of
\* create_and_lock_cpuset_dir by ending, as they leave it open; and cpuset_modify
\* is never retried forever on EBUSY by user_cpuset_update.
LockReleased == (lock # Nobody) ~> (lock = Nobody)

\* cpuset/README: the release agent frees a job's cpuset when the last task
\* in it has exited.
JobCpusetFreed ==
  \A j \in Jobs :
    (JobPath(j) \in dirs /\ job[j] = "done" /\ \A x \in Procs : loc[x] # JobPath(j))
      ~> (JobPath(j) \notin dirs)

\* util.c: if /slurm exists when a process locks, it can be used as it is.
SlurmUsable ==
  \A h \in Procs : pc[h] = "clean" => cpus[<<>>] = CPU

=============================================================================
