# Verification of slurm-spank-plugins

TLA+ models of the parts of slurm-spank-plugins whose correctness depends on
the order of events, checked with TLC on small instances and, where the
prover reaches, proved with TLAPS for all instances. `PROJECT.json` lists components, runs,
mutants, the correspondence between definitions and source lines, findings,
hazards and theorems.

## 1. Inventory

The repository is a set of SPANK plugins: shared objects that `srun` and
`slurmstepd` load and call at fixed points of a job step (`slurm_spank_init`,
option handlers, `slurm_spank_init_post_opt`, `task_post_fork`, `task_init`,
`task_exit`, `exit`).

| Component | State | Operations | What is hard | What makes it correct |
|---|---|---|---|---|
| **cpuset plugin** (`cpuset/cpuset.c`, `create.c`, `util.c`) | the tree `/dev/cpuset/slurm/UID/JOB/STEP/TASK`, a lock file | create job, step and task cpusets, migrate, clean, update user cpusets | several daemons, logins and agents share the tree; any of them may die; tasks and daemons move without the lock; slurmctld may not answer | exclusive CPUs, confined tasks, nothing running loses its CPUs, the lock comes back |
| **PAM module** (`pam_slurm_cpuset.c`) | the same tree | admit a login, create missing job cpusets, enter the user cpuset | the list of jobs may be stale | the CPUs the login is told of are there |
| **release agent** (`release-agent.c`) | the same tree | clean and update when the kernel reports an empty cpuset | runs at any time, once per event | finished jobs' CPUs come back |
| **CPU allocation** (`nodemap.c`) | NUMA nodes with used CPUs, a sorted list | best-, first-, worst-fit; order; idle nodes first | two usage masks, successive sorts, arithmetic at zero and at equality | exactly the CPUs asked for, all free; documented placement; termination |
| cpuset configuration (`conf.c`, `conf-parser.*`) | policy, order, use-idle, kill-orphs, file name | the system file, `conf=` files, arguments, words of `--use-cpusets=` | three programs read the sources in different orders; errors in the middle | the last setting wins |
| list (`lib/list.c`) | linked nodes, iterators | insert, remove, iterate, sort | iterators open across changes | behaves as a sequence |
| hostlist (`lib/hostlist.c`) | array of host ranges, iterators | push, pop, delete, sort, uniq, insert, iterate | ranges split and joined in place, zero padding, iterators open across changes | stands for the same sequence of hosts |
| overcommit-memory | a shared file with a semaphore and users | register, unregister, restore the kernel's mode | created, used and unlinked by unsynchronised processes that may die | the last user, and only the last, restores |
| system-safe | a socket pair between a preloaded library and a forked server | `system()` by proxy | either side may die, a signal may end a read | each call returns, with its own result and never another's |
| pty | terminal relay, window size thread | relay, resize, notice exit | signals, closed descriptors | a resize arrives, the relay ends with its child |
| use-env | parser of an environment language, scopes | conditionals, includes, assignments | nesting | what is set is what the file says |
| auto-affinity | options, CPU positions, masks of tasks | choose each task's mask | other plugins change the CPUs in between; odd numbers of CPUs, tasks, cores | disjoint masks of CPUs the step has |
| lua | scripts with option and callback tables | load, register, dispatch | scripts that fail, options that are refused | every callback reaches every script; an option reaches its owner |
| lua-schedutils | CPU sets as strings and masks | parse, print, set operations | ranges, strides | printing and parsing are inverse |
| oom-detect, preserve-env, private-mount | small tables and environment entries | report kills; save and restore variables; private mounts | limits, `=` in values, order of options | nothing reported twice; round trip |
| small plugins (renice, setsched, iotrace, tmpdir, iorelay, addr-no-randomize) | an option or two | set one attribute or run one command | option against default | the option wins |

The components interact through SLURM only, with one exception that is the
core of this project: the cpuset plugin, the PAM module and the release agent
are three programs over one shared tree, compiled from the same `create.c`,
`util.c` and `nodemap.c`, and synchronised by an advisory lock.

## 2. Modules

### `Cpuset`: the cpuset tree of one node

**State.** `dirs` are the cpusets that exist, as paths below `/slurm` (`<<>>`
is `/slurm`, then user, job, step, task; a user's component carries the
`orphan:` mark that `user_cpuset_orphan` puts on the directory name). `cpus`
are their CPUs, `loc` the cpuset each process is in, `job` what slurmctld
thinks of each job, `lock` the holder of `/var/lock/slurm-cpuset`, `released`
the cpusets for which the kernel has spawned a release agent. `pc` is where
each process is; the rest are locals of the lock holder (`held`): one copy is
enough because only the holder uses them, and they are reset on unlock.

**Actions.** Every system call of the holder that another process could see,
or that could see another process, is a step of its own, so that tasks,
daemons, the controller and crashes come in between:

| Action | Code |
|---|---|
| `SpankInit`, `PamAcctMgmt`, `AgentStart` with `SlurmCpusetCreate`, `InitSlurm` | the three programs' entry; `create_and_lock_cpuset_dir` |
| `SlurmCpusetClean`, `CleanDone` | `slurm_cpuset_clean`, one cpuset at a time, children first |
| `UpdateUserCpusets`, `UpdateDone` | `update_user_cpusets`, one user at a time; the agent's second pass |
| `CreateCpuset`, `UserCpusetDir`, `UserCpusetModify`, `JobCpusetCreate` | `create_cpuset`: allocate, unorphan or make the user cpuset, enlarge it, make the job cpuset |
| `Migrate` | `migrate_job_to_cpuset` |
| `LoadJobs`, `ScanJob`, `ScanDone` | `create_all_job_cpusets` and the login's migration |
| `Unlock` | `slurm_cpuset_unlock` and the return of the callback |
| `SpankInitPostOpt`, `SpankTaskPostFork`, `SpankTaskExit` | the later callbacks |
| `ForkTask`, `TaskExit`, `Exit`, `Crash`, `GiveUp`, `JobStart`, `JobEnd` | external: slurmstepd's fork, processes that end or die, slurmctld |

The kernel (external) is modelled by what the code relies on: `rmdir` fails
on a busy cpuset, `rename` takes the subtree and its tasks along, a task
enters only a cpuset with CPUs, a cpuset's CPUs lie within its parent's and
contain its children's, and a cpuset with `notify_on_release` gets an agent
when its last task or child leaves.

**Decisions.**

- The plugin is taken to be `required` in `plugstack.conf`: a callback that
  fails stops the step. Only `task_post_fork` differs, where the task was
  forked already and stays in the step's cpuset.
- Making or configuring `/slurm` may fail (`SetupFails`). Those error returns
  leave the lock file open, and the callers return an error without its
  descriptor: the process is then in `"failing"`, holding the lock, until it ends
  (`GiveUp`).
- `job_cpuset_create` returns an uninitialised `rc` if `cpuset_create` fails:
  `JobCpusetCreate` offers both outcomes.
- `slurm_jobid_is_valid` asks slurmctld once per pass and answers from that
  list. The model reads the controller's state when each job is visited; the
  order of visits and of `JobEnd` is free, so the answer of an earlier moment is
  among the behaviours as long as the job ends later in the pass.
- In `update_user_cpusets` the user's directory exists, so
  `user_cpuset_unorphan` fails and `mkdir` finds it there; neither appears.
- `nodemap_allocate` is its contract here: any set of free CPUs of the right
  size. Module `Nodemap` shows that contract.
- Taking the lock does not fail, waiting for it is not interrupted by signals, and a login starts
  outside `/slurm` (`in_user_cpuset` is 0).
- Memory nodes, modes and messages are left out.

### `Nodemap`: which CPUs

One behaviour is one call of `nodemap_create` and `nodemap_allocate` from any
configuration, current cpuset, CPUs in use and request. One step is one node
visited by `alloc_idle_nodes` or `do_allocation`, or one CPU taken by
`allocation_worst_fit`. Both usage masks of the code are state (`nodeused`
per node by local number, `usedcpus` by global number) and so is the list,
which is sorted in place as in the code; `ListSort` is stable, as `list_sort`
is. The conversion of local to global numbers is the code's (first CPU of the
node plus the local number).

### `List` and `ListSpec`: the list and its iterators

`List` has the memory of `lib/list.c`: the `next` pointer of the list and of
each node, `tail`, `count`, and `pos` and `prev` of each iterator. `prev` and
`tail` are addresses of `next` pointers, as in the code (`ListHead` is
`&l->head`, a node stands for `&p->next`). Each call holds the list's mutex
from beginning to end and is one action; `NodeCreate` and `NodeDestroy` are
`list_node_create` and `list_node_destroy`, which repair the iterators.
`free` are the nodes of `list_free_nodes`; which of them is handed out, and
what they contain, is left open. When none is left, calls fail as without
memory. `due` is a history variable: the nodes each iterator has had before
it since it last started.

- `list_push` and `list_enqueue`, `list_dequeue` are `list_prepend`,
  `list_append` and `list_pop` under other names. `list_find` is a sequence of
  `list_next`, `list_delete` a `list_remove`; the deletion function `fDel` is
  left out.
- A client adds each object once at a time, as the plugins do.
- `ListFindF` and `ListCmpF` are a key per item; two items compare equal.

`ListSpec` is what clients may rely on: a sequence of items, and a cursor per
iterator with the index of the item it returns next and a flag that says
whether the item before it is the one it returned last. With `AsDocumented` it
says what `list.h` says: sorting restarts every iterator, and `list_remove` takes
out the item the iterator returned last. Without it, it makes the two exceptions of
the code: if somebody removes the item *after* the one an iterator returned
last, the iterator forgets which that was (`list_remove` then removes nothing),
because `list_node_destroy` moves `prev` (`list.c:713`); and `list_sort` restarts
iterators only if the list has more than one item (`list.c:411`). `Implements`
maps pointers to indexes and is about the second, `ImplementsListH` about the
first, which the code does not keep (run `ListDoc`). `ListSpec` says in one formula
what `list_delete_all` and `list_sort` return and leave; in `List` they are the
rounds of the loops in the code (`DeleteStep`, `SortStep`), as functions of the
number of rounds.

### `HostRange` and `Hostlist`: host names in ranges

`HostRange` has the pure functions of `lib/hostlist.c` on names and ranges. A
prefix is a number, since the code only compares prefixes; a name is prefix,
value of the suffix and number of digits. Padding is modelled by what `%0*lu`
prints and what `hostname_create` reads: `NameAt` and `numstr` give the number
of digits that come out, `width_equiv` and `CommonWidth` are `_width_equiv` and
what it writes through its pointers (a search may adjust the width of the
range it finds). `ULongMax` stands for `(unsigned long) -1`, so that the empty
range that `hostrange_pop` leaves behind is recognised as in the code.

`Hostlist` is a list or a set with one iterator: `hl.hr` is the array,
`hl.nhosts` the count kept beside it, `hl.it` index and depth of the iterator
and whether its pointer still is the one into the array. Host strings are
sequences of tokens (a name, a prefix with ranges, the same with a suffix);
cutting the string is left out. `coalesce`, `collapse` and `join_all` are the
loops of `hostlist_coalesce`, `hostlist_collapse` and `hostlist_uniq`, as
recursive functions of the array. `qsort` may leave equal ranges in any order:
`Sorted` is the set of outcomes. A hole in the array (`Null`), which
`hostlist_pop_range` and `hostlist_shift_range` leave when ranges they collect
are joined, ends the behaviour: every call that walks the array then aborts.
`hostlist_delete_nth` takes any index its assertion admits, up to the count:
past the last host it deletes nothing and counts one off all the same. `missed`
is a history variable that says so; the properties then expect a count that is one
short.

### `AutoAffinity`: CPU masks

The callbacks of `auto-affinity.c` in SLURM's order, over a node given by
package and core of each CPU, a step, the plugin's arguments and the words of
`--auto-affinity=`. Each task runs `slurm_spank_task_init` on its own copy of
the variables, in any order; `ChangeCpus` is the cpuset plugin, or anybody
else, changing the CPUs of the step in between. A read beyond the end of the
position map is a nondeterministic choice. Everything a mask is computed from is
an argument, so that two tasks can be compared: the set of CPUs a task finds,
the CPUs per task, the number available and the task (`MasksFor`).
`Automatic` says when the plugin chooses itself: no list of CPUs or masks, and
numbers for `cpt=` and `start=` (what is no number becomes -1, and the error of
a word is lost if another word follows).

### `SpankLua`: scripts

One step per script of each loop: `LoadScript`, `load_spank_options_table`,
`CallScript`. A script is what it defines, whether it loads, its option table
and an option it registers itself. SLURM is external: which callbacks follow
each other, and that an option name is accepted once. A script whose option is
refused is dropped, also when it is its own table that has the name twice, or a
script that was itself dropped that has the name: what SLURM accepted is not taken
back (`Refused`). `opt.fail_on_error` is
never set without the `failonerror` argument and may be anything. The jump of
`spank_atpanic` into a function that has returned, and the use of a script
that was freed, end in stage `"undefined"`.

### `Pty`, `SystemSafe`, `Overcommit`, `CpusetConf`

- `Pty`: srun's thread (signal mask, handler, `accept`, the loop around `poll`)
  and the node's relay, connected by `wire`. One step per system call of the
  thread where a signal may come in between: reading the size, `winch = 0` and
  blocking in `poll` are three, and a signal handled before the thread blocks does
  not end the `poll` that follows; a turn of the relay's loop is
  `Poll` and `Turn`. Buffers of output and input are counted.
- `SystemSafe`: the plugin, the constructor with the fork, the client and the
  server; a request is three parts, each written and read on its own. Which
  processes hold which end of the socket pair open is state (`clientEnd`,
  `serverEnd`), because that decides who notices whose death. A call's status is
  the number of the call.
- `Overcommit`: files that were created, the one the name stands for, and the
  kernel's mode and ratio. A process keeps the file it opened. The write lock is
  tried for, not waited for, as in the code. Steps, the epilog's `--cleanup`,
  `--list-users`, `--force-reset` and crashes; a crash gives back the lock and
  not the semaphore.
- `CpusetConf`: the sources of the settings as sequences of statements, read one
  word at a time by the plugin, `srun`, the PAM module and the release agent,
  each in its order. The scanner keeps what an aborted `yyparse` left in its
  buffer. `Order` is the manual's order of the sources, `ReadOrder` the code's,
  which differs in the PAM module.

### Instances: `MCCpuset`, `MCPlacement`, `MCList`, `MCHostlist`, `MCSession`

The `MC` modules give constants their values. `MCPlacement` puts `Nodemap` and
`AutoAffinity` side by side, which choose CPUs by the layout of the machine, and holds the
sample sessions of `slurm-cpuset(8)` as a property; a behaviour is about one of
the two (about the tasks' masks once a call of `Nodemap` for a full machine has failed).
`MCSession` puts `Pty`,
`SystemSafe`, `Overcommit`, `SpankLua` and `CpusetConf` side by side: they share
no state and SLURM runs them independently of each other, so a behaviour
is about one of them.

### Proofs: `CpusetProofs`, `CpusetTaskProofs`, `CpusetCountProofs`, `NodemapProofs`, `AutoAffinityProofs`, `ListProofs`, `SessionProofs`, `Ranks`

Each holds the theorems about the module it is named after and the lemmas they
need. `CpusetTaskProofs` (tasks) and `CpusetCountProofs`
(the CPUs of logins and jobs) build on
`CpusetProofs`. `SessionProofs` is about `Overcommit`, `SystemSafe`,
`SpankLua` and `CpusetConf`. `Ranks` has lemmas about "the n-th" and "the first n"
of a finite set under an order, about quotients and remainders, the least and the
greatest element of a set of numbers, and an induction over the rounds of a loop,
shared by `NodemapProofs`, `AutoAffinityProofs`, `ListProofs` and `SessionProofs`.
The inductive invariants are defined in the modules of the components.

## 3. Runs

| Run | Instance | Properties |
|---|---|---|
| `CpusetRivals` | 3 CPUs; two users with a job of 2 CPUs, a step and a task each; a login; agent | `TypeOK`, `GrantedFits` |
| `CpusetMates` | one user, two jobs of 1 CPU, the second's step with `--use-cpusets` and no `--cpus-per-task` (-1 CPUs), a SLURM without `slurm_spank_init_post_opt`; a login; slurmctld may fail, so may making `/slurm`; anybody may die; fairness | `Exclusive`, `NoOrphanTwin`, `TasksConfined`, `LoginCpus`, `LockReleased` |
| `CpusetNested` | one job of 3 CPUs; a step with a cpuset per task, a step with one of its own; a login; `kill-orphs`; anybody may die | `RunningKeepsCpus`, `KillsNoWorker` |
| `Placement` | 4 nodes of 2 CPUs, or any cpuset of one CPU of a node of 2 and of nodes of 1 and 3; every set in use, every configuration, requests -1, 1, 2, 3, 4; fairness. Nodes of 4 CPUs numbered in different ways; steps of 1 to 4 tasks; one change of the CPUs | `Conserved`, `WorstFitSpreads`, `ManualExamples`, `IdleNodesFirst`, `BestFitPacks`, `Returns`; `TasksApart`, `MasksFresh`, `FullShares`, `OnePackage` |
| `ListIter` | 3 nodes, 3 items of which two compare equal, 2 iterators | `Shape`, `VisitsAll`, `Implements` |
| `Hostlist` | names with and without padding around the carry from 9 to 10; up to `MaxHosts` hosts; one iterator | `CountRight`, `StringsReadBack`, `ActsAsSequence`, `SortKeepsHosts`, `UniqKeepsOne`, `InsertAddsMembers`, `IteratorBound`, `IteratorWalk` |
| `Session` | see below | `OwnResult`, `CleanupRestores`, `EachCalledOnce`, `BrokenScriptsAlone`, `OptionOwner`, `LastSettingWins`, `RelayEnds`, `ResizeReaches`, `CallsReturn`, `ServerEnds` |

What the properties say:

- `Exclusive`: no CPU is in two job cpusets, two step cpusets or two task
  cpusets, whoever made them and whoever died on the way.
- `NoOrphanTwin`: a user cpuset and its orphan never exist together; if they
  did, sessions in the orphan could never be taken back.
- `TasksConfined`: a running task is in its job's cpuset or below and has
  CPUs, whatever failed before it was forked.
- `RunningKeepsCpus`: no cleaning, update, rename or crash takes a running
  task's cpuset or changes its CPUs.
- `GrantedFits`: the CPUs that the controller gives to a job are free on the
  node by the time the job's first step allocates them.
- `LoginCpus`: a login that is told "Access granted with n CPUs" enters a
  cpuset with at least n, unless a step's query of the controller failed and left
  the user a job cpuset without CPUs: the login counts that job all the same.
- `LockReleased`: whoever takes the lock gives it back, by unlocking or, where
  setting up `/slurm` failed, by ending.
- `KillsNoWorker`: kill-orphs kills no login while a task of its user runs.
  (`KillsOrphansOnly`, that it kills none of a user with a running job, is false,
  see `CpusetKillRace`.)
- `Conserved`, `Returns`: what `nodemap_allocate` takes was free,
  is counted once, is exactly what was asked for, and the loops end.
- `ManualExamples`, `BestFitPacks`, `WorstFitSpreads`, `IdleNodesFirst`: the
  documented placements.
- `Shape`: the assertions of `list_node_create` and `list_node_destroy`
  about every iterator, and what they rest on: no iterator points to a free
  node, `tail` and `count` agree with the chain.
- `VisitsAll`: a loop over `list_next` misses no node that was there when it
  began and still is, whatever is inserted and removed around it.
- `Implements`: every call returns and leaves what `ListSpec` says, with the
  two exceptions above.
- `ActsAsSequence`, `SortKeepsHosts`, `UniqKeepsOne`, `InsertAddsMembers`: each
  call on ranges does to the hosts what it should do to a sequence or a set of
  names; `CountRight`: the count kept beside the array is their number (one
  less after a deletion past the last host);
  `StringsReadBack`: a printed list reads back as the same hosts.
- `IteratorBound`, `IteratorWalk`: an open iterator points into the array, and
  a walk returns the hosts after it, whatever is deleted and shifted before it.
- `TasksApart`, `FullShares`, `OnePackage`: tasks share no CPU, get what they
  should and stay on one package; `MasksFresh`: they ask for CPUs that the step
  has when they start.
- `EachCalledOnce`, `BrokenScriptsAlone`, `OptionOwner`: every script that is
  kept runs once per callback in order; a script that does not load costs no other
  its place and leaves no option behind, one that does is dropped only for a refused
  option, and the plugin fails to start only over one of these; an
  option leads to the script that registered it.
- `LastSettingWins`: in each program every setting is the last one given, in the
  manual's order of its sources. The one exception is named in the property: what
  the system file and the PAM module's arguments both give.
- `CleanupRestores`: once the epilog has cleaned up the kernel is in its default
  mode, wherever a step died, if no more than one process was killed: the
  cleanup removes one entry of its job and ends, so that the entry of a second
  process that was killed stays in the file.
- `OwnResult`: until a signal ends a read, a call of `system()` that does not
  return its own command's status found the server gone; it then fails, or returns an
  `rc` that nobody set, and so does every call after it, but none ever returns the
  status of another. `CallsReturn`, `ServerEnds`: every call
  returns, and the server does not outlive the task.
- `RelayEnds`, `ResizeReaches`: the relay ends with the task; a resize whose
  signal finds the thread blocked in `poll` reaches the task's terminal. (The relay
  wakes because the last process on the task's terminal has gone: a background
  process that keeps it open is not modelled.)

**Bounds.** Two processes of each kind that compete, and one of each that
observes, are the smallest instances in which every pair of programs meets in
every order; three CPUs for two jobs of two make the second job wait for the
first one's CPUs. There is no bound on the length of a behaviour: each process
runs once and the state spaces are exhausted.
`CpusetNested` is checked up to permutation of CPUs, which no definition tells
apart. Together the runs take every action; the branch of `UserCpusetOrphan`
in which the rename fails is unreachable, which is `NoOrphanTwin`. Four nodes
of two CPUs are the machine of the manual's examples; nodes of three sizes
cover the comparisons of a request with a node that is smaller, equal and
larger. Three nodes are enough for an iterator to have a node before it, one
it returned and one after it, and for memory to run out; two iterators are the
one that changes the list and the one that looks on. Nodes and iterators are
interchangeable. Deadlock is not an error in the runs other than those of
the list and the hostlist: every process ends.

`Hostlist`: `MaxHosts` bounds the calls that add hosts, one less once the count is one
short; the history variable
`last`, which only the properties of steps read, is left out of the view; the names are the ones
around which padding matters; a count that is one short may reach -1. `Placement`: four CPUs make one, two and no
whole number of CPUs per task; one step has fewer CPUs than the node, for `exclusive_only`; `MaxChanges` bounds how often others change the
CPUs; other arguments of auto-affinity than none come with two lists of words.
`Session`: `MaxResize` and `MaxCalls` are one more than what it takes for
one event to come during another; `MaxInterrupts` is one signal; two steps, an
epilog, one other tool, `MaxFiles` two files and `MaxCrash` one crash for
overcommit-memory; up to three of eight scripts for lua (`MaxTasks` task exits), the one whose table
repeats a name, and the one that shares that name, with at most one other;
up to two words per source and a good, a bad or no file for the configuration.

**Fairness.** Weak fairness of the lock holder's next step (it waits for
nobody), of the release agents the kernel has spawned, and of the exit of a
slurmstepd whose step is over, and of the end of a program that could not set up
`/slurm` (`GiveUp`): slurmstepd ends without its required plugin, sshd after a denied
login, the agent after its error, and the kernel closes the lock file. Users need not log out, tasks need not end,
jobs need not start. In `Nodemap`, the one thread runs on. In
`Pty`, the kernel runs srun's thread and the relay whenever they are not
blocked; nobody need type, resize or end. In `SystemSafe`, task and server go
on whenever they are not blocked, and commands end; a task need not call
`system()` again. `Overcommit`, `SpankLua` and `CpusetConf` claim safety only.

### Disagreements with the documentation

These runs are expected to be violated; each finding in `PROJECT.json` quotes
the text.

| Run | What happens |
|---|---|
| `CpusetAgent` | The agent keeps a job's cpuset while slurmctld still lists the job and slurmstepd sits in the user cpuset; no agent comes again for it (`util.c:305`). A later step or login removes it. |
| `CpusetBoot` | A death between `mkdir` and `cpuset_modify` leaves `/slurm` without CPUs for good (`util.c:423`). |
| `CpusetKillRace` | The first step of a user's next job kills that user's login, because the tree is cleaned before the job cpuset is made (`create.c:358`). |
| `ListDoc` | `list_sort` of fewer than two items resets no iterator, and `list_remove` removes nothing once the item after the last one returned is gone (`list.c:411`, `list.c:713`; `list.h:171`, `list.h:266`). |
| `Overcommit` | The last step unlinks the shared file, then resets the kernel; a step that starts in between loses the mode it has just set (`overcommit.c:253`). |

Others were met on the way and are part of the models, where the properties
say what they exclude:

- cpuset: `--use-cpusets` without arguments creates no step cpuset
  (`cpuset.c:503`; `use-cpusets.1` says it does). With CPUs numbered round robin
  over the nodes `nodemap_allocate` returns fewer CPUs than asked for
  (`nodemap.c:359`); the machine of `MCPlacement` numbers CPUs node by node, which
  is the hypothesis `Contiguous` of the theorems. With
  `kill-orphs` the killed user's cpuset keeps its CPUs until the next pass, and
  `kill_orphan` also kills a slurmstepd that has just moved to the user cpuset
  (`create.c:281`). `use-idle = gt` compares with `>=` (`nodemap.c:313`).
  After the lock is taken, `create_and_lock_cpuset_dir` returns errors without
  giving it back (`util.c:433-436`, `444-447`, `451-454`), so that nobody else gets
  it until the program has ended. A step whose query of the controller fails
  gets a job cpuset without CPUs (`cpuset.c:171`, `cpuset.c:379`), and a login then
  counts the CPUs the controller has for that job (`pam_slurm_cpuset.c:261-267`).
- configuration: `policy=` in the arguments takes effect and is then reported as
  unknown (`conf.c:149-195`), so `srun` refuses it and the PAM module denies the
  login. What an aborted parse left in the scanner's buffer is read before the
  next file (`OneFault` excludes it). "All SLURM cpuset components will first attempt to read
  the systemwide config file" (`slurm-cpuset.8:92-93`), but the PAM module reads it after
  its arguments, unless one of them names a file (`pam_slurm_cpuset.c:125-135`), so
  the system file overrides the module's arguments (`SystemOverrides`). `use-idle = multiple` and `gt` choose the
  mode and do not switch idle nodes on.
- hostlist: with different paddings of the same suffixes `hostlist_sort` can fail
  its own assertion and `hostlist_uniq` leave duplicates; `hostset_insert`
  joins only one of the ranges that follow, and subtracts duplicates twice
  from the count; `hostlist_pop_range` and `hostlist_shift_range` leave holes
  when ranges join; `hostlist_remove` of the last host of a range sends the
  iterator back; an iterator at the end reads beyond the array after a push.
  `hostlist_delete_nth` "Returns 1 if successful 0 on error" (`hostlist.h:236`), and
  for `n` equal to the count it returns 1, deletes nothing and lowers the count
  (`hostlist.c:1838`, `1865-1867`); `hostlist_pop` and `hostlist_shift` then leave one
  host in the list, which they take for empty.
- auto-affinity: with one CPU per task the position is not wrapped around
  (`auto-affinity.c:768`), so `start=` can read beyond the map; with restricted
  CPUs a mask can come out partial or empty; only the last word's error counts;
  batch steps are meant to be left alone and stay enabled.
- lua: `fail_on_error` is uninitialised without its argument (`lua.c:1207-1219`), so that
  one script that does not load may keep the plugin from starting (`lua.c:1272`), where
  `spank-lua.8:56-58` promises that only with `failonerror`; the options a script had
  registered before it was dropped stay with SLURM (`lua.c:691-696`, `1131-1137`)
  and get a later script refused that uses the name; a pattern without
  a match aborts in a step; a missing option field jumps into a function that
  has returned; an option of a script that was dropped leads to freed memory.
- pty: a signal handled between `notify_winsize_change` and `winch = 0`, between
  `winch = 0` and the `poll` that follows (`pty.c:446-449`), or before the first `poll`, is
  lost until the next one; a task that is killed never ends the relay;
  the end of the input aborts it; output beyond one read is lost at the end.
- system-safe: if the server is gone `read` returns 0, and `system()` an `rc` that was
  never set (`system-safe-preload.c:304`, `316-322`), which the caller takes for a
  status; after a read that a signal ended every call returns the status
  of an earlier one; if `fork` fails `system()` never returns; an empty command
  ends the server; `--no-system-safe` changes nothing.
- overcommit-memory: two processes may both initialise the file; after a
  conflict the semaphore is posted twice; a process that dies with the
  semaphore, or `--list-users` without users, blocks all others; a cleanup that
  finds no file sets the ratio to 0; `--cleanup`, which is to "Cleanup any
  overcommit-memory usage by a SLURM job" (`util.c:57`), removes the first entry
  of the job only (`overcommit.c:78`), so that two killed steps leave one behind
  and the kernel keeps the job's mode.

## 4. Proofs

Every theorem is about the same definitions that the runs check, for every
value of the constants that satisfies the assumptions. Each rests on an inductive
invariant, defined at the end of the component's module, that was checked with
TLC on the instances of section 3 before it was proved.

| Module | Theorem | States |
|---|---|---|
| `CpusetProofs` | `Invariance` | `[]IInv` |
| | `TypeCorrect` | `[]TypeOK`; exactly the lock's holder is between lock and unlock |
| | `ExclusiveCpus` | `[]Exclusive` |
| | `OneUserCpuset` | `[]NoOrphanTwin` |
| `CpusetTaskProofs` | `TaskInvariance` | `[]TaskInv` |
| | `ConfinedTasks` | `[]TasksConfined` |
| | `RunningTasksKeepCpus` | `RunningKeepsCpus`, an action property |
| | `WorkersNotKilled` | `KillsNoWorker`, an action property |
| `CpusetCountProofs` | `LoginInvariance`, `LoginHasItsCpus` | `[]LoginInv`, `[](~CtldFails => LoginCpus)` |
| | `GrantsFit` | `[](Undisturbing => GrantedFits)` |
| `NodemapProofs` | `NodemapInvariance`, `AllocatesExactly` | `[]NodemapInv`, `[]Conserved` |
| | `FitInvariance`, `WorstFitIsEven`, `BestFitIsTight` | `[]FitInv`, `[]WorstFitSpreads`, `[]BestFitPacks` |
| | `WholeInvariance`, `IdleNodesGoFirst` | `[]WholeInv`, `[]IdleNodesFirst` |
| `AutoAffinityProofs` | `AffinityInvariance`, `OnlyFreshCpus` | `[]AffinityInv`, `[]MasksFresh` |
| | `NoCpuTwice`, `SharesAreFull` | `[]TasksApart`, `[]FullShares` |
| | `NoStraddling` | `[]OnePackage` |
| `ListProofs` | `ListInvAlways` | `[]ListInv` |
| | `ShapeAlways`, `VisitsAllAlways` | `[]Shape`, `[]VisitsAll` |
| | `ListImplements` | `Implements`: `List` refines `ListSpec` |
| `SessionProofs` | `OcInvariance`, `CleanupRestoresMode` | `[]OcInv`, `[]CleanupRestores` of `Overcommit` |
| | `SafeInvariance`, `StatusIsOwn` | `[]SafeInv`, `[]OwnResult` of `SystemSafe` |
| | `LuaInvariance` | `[]LuaInv` of `SpankLua` |
| | `CallsInOrder`, `BrokenCostNobody`, `OptionsLeadHome` | `[]EachCalledOnce`, `[]BrokenScriptsAlone`, `[]OptionOwner` |
| | `ConfInvariance`, `LastOneWins` | `[]ConfInv`, `[]LastSettingWins` of `CpusetConf` |

**Assumptions.** `CpusetAssumption`, `LocationAssumption`: processes, paths and
places are different things, CPUs are finite, each job has CPUs and an owner.
`NodemapAssumption`: a finite machine whose nodes share no CPU and together have
all of them. The theorems about `Nodemap` also have the hypothesis `Contiguous`
(a node's CPUs are numbered without gaps), because `node_cpu_to_global` adds a
local number to the node's first CPU; without it `Conserved` is false. It is a
hypothesis and no assumption, and the instance of the run satisfies it
(`MachineContiguous`). `AffinityAssumption`: CPUs are numbered from 0, packages
and cores have numbers, a step has tasks. `OcAssumption`: steps, cleaners and
tools are different processes. `ListAssumption`: finitely many nodes and iterators,
a number as the key of each item; `NULL` and the list's head are no nodes.
`LuaAssumption`: what scripts and options are made of; the pattern matches a file
once; `Nil` is none of these. `ConfAssumption`: texts and lists of words are
sequences. `SystemSafe` needs none. No theorem uses a bound
(`MaxCrash`, `MaxFiles`, `MaxCalls`, `MaxChanges` ...): they hold for any.

**The tree** (`IInv`). `Exclusive` is not inductive. `create_cpuset` chooses CPUs
in one step and makes the cpuset several steps later, and its choice is based on
the *children* of the cpuset it is in, while `Exclusive` speaks of all cpusets
of a depth. `IInv` adds what closes the gap:

- `TreeInv`: a cpuset lies within its parent, so that CPUs no user holds are
  in no user's jobs; under an orphan nobody has CPUs, so that skipping
  orphans in `used_cpus_bitmask_path` is safe;
- `StepShape`, `LoginShape`, `AgentShape`: where each process is, so that
  "the current cpuset" is `/slurm` for a job, the job's cpuset for a step and
  the step's for a task;
- `AllocInv`: the CPUs chosen are in no cpuset of the depth about to be made,
  until it is made; and a user cpuset that was just taken back from its
  orphan holds no CPUs in its jobs, which justifies that `user_cpuset_update`
  leaves them out.

The proof has one lemma per action, and under it one step per conjunct that
the action can disturb; `Rename` has lemmas of its own.

**Tasks** (`TaskInv`: `IInv`, `ConfInv`, `ForkInv`). A cpuset within a job that has
CPUs and a process in it is kept by every step (`HolderKeeps`): `rmdir` fails on
it, nothing modifies it, and the user cpuset above is renamed only when
nothing below has CPUs. It remains that slurmstepd is in such a cpuset
whenever it may fork (`ConfInv`) and that a task is where slurmstepd is until it
gets its own cpuset (`ForkInv`); the second is needed because slurmstepd moves the
task, by its pid, after others may have run. For `KillsNoWorker`, a login is only
ever in its user's cpuset, orphaned or not (`LoginPlace`); it is killed in a user
cpuset without CPUs in use below, and the user's tasks, if any runs, are in a job's
cpuset with CPUs (`ConfInv`).

**Logins** (`LInv`). `count` adds up what the controller says of each job, and the
promise is about the size of a set. While the controller answers, a job cpuset has
as many CPUs as the controller gave (`FullJobs`), and `CountInv` says that
there is a set of `count` CPUs below the user cpuset that has none of
the jobs still to come; each job that is counted adds its CPUs to it, disjoint
by `Exclusive`. `RoomInv` is what holds while the login makes a missing job
cpuset itself. If the controller may fail a step can make a job cpuset without
CPUs, so `FullJobs` does not hold, and what `LoginCpus` says then is left to TLC
(`CpusetMates`).

**Grants** (`FitsInv`, with `IInv`, `TaskInv` and `FullJobs`). `GrantedFits` is
about an argument that runs through four calls of one program while tasks, daemons
and the controller go on. The running jobs were given CPUs of their own
(`StartedInv`), and whoever is in a job's cpuset belongs to a job that runs
(`PlaceInv`); so the cleaning, for each cpuset it has passed, leaves those of running
jobs only, and together with the step's own job they fit on the node (`HoldInv`).
`update_user_cpusets` then leaves a user cpuset no CPUs but those of its jobs'
cpusets (`RefreshInv`), and `/slurm` has all CPUs (`RootInv`). The CPUs that are not
free are therefore those of jobs that were given CPUs beside this one. They are
counted without a sum: each is mapped to a pair of a job and a number up to what the
job was given, one-to-one because of `Exclusive`, and `Grants` has at most as many
pairs as the node has CPUs.

`GrantsFit` has the hypothesis `Undisturbing`, and `GrantedFits` is false without any
part of it; on the instance of `CpusetRivals`, which satisfies it, TLC finds
a counterexample for each: if slurmctld does not answer (`CtldFails`), the cleaning
keeps the cpusets of finished jobs; with `kill-orphs` (`KillOrphans`), a killed user's
cpuset keeps its CPUs until its processes are gone; and if a process dies
between the `mkdir` of `/slurm` and giving it CPUs, or fails to give it any (`MayCrash` or
`SetupFails` without `SlurmReady`), there are none to give (`CpusetBoot`). Every other crash is allowed.

**CPU allocation** (`NodemapInv`, `FitInv`, `WholeInv`). The two masks of used CPUs agree
(`MasksAgree`), therefore a node has as many CPUs to give as it says and
`node_allocate_n` takes as many as it counts; sorting loses no node, and
`do_allocation` visits all of them, therefore nothing is left at the end
(`LeftOK`). For the fits: best-fit goes through the list from the fullest node on
and leaves a node only when it is empty (`Packing`); worst-fit takes one CPU
from a node that has most, which keeps the nodes that gave one within one of the
others (`Spread`), and sorts again. For the idle nodes: `alloc_idle_nodes` takes nodes
whole or not at all, so what is left is the request less the size of a node for each
node taken, and it leaves an idle node behind only when less than a node is left
(`WholeInv`); at the end of the loop it has therefore taken all idle nodes or as many
as the quotient says, and what comes after it gives nothing back.

**Masks** (`AffinityInv`). A mask is a function of the plugin's variables, which
stay as they are once tasks start, and of the CPUs the task had. Positions are
taken modulo the CPUs available; shares that fit have different remainders; the
position map and `mask_to_available` are one-to-one on positions. For `OnePackage`: the
map is sorted by package, so the positions of a package are next to each other and as
many as its CPUs; if the share divides the size of every package, it divides every
position where a package begins (a least one that it does not would follow a package
that it does not divide either), and a task whose positions begin at a multiple of the
share meets no such position on its way.

**overcommit-memory** (`OcInv`). A process keeps its file open whatever happens to
the name (`Opened`), the steps with an entry are those that registered and did not
unregister (`Registered`), a dead step has one only if it was killed
(`DeadEntries`), and the epilog starts after the steps (`Epilog`). That at most
one process may have been killed came out of the proof: the invariant is not
inductive for two, and with two steps killed (`MaxCrash = 2`) TLC finds the epilog done
and the kernel still in the job's mode.

**system-safe** (`SafeInv`). Until a signal ends a read, what is in the socket is a
prefix of the one request under way, or its result (`InTransit`), whoever dies. A call
that gets no answer has met the end of the file, which the server leaves only when it is
gone; nothing is then on its way, and nothing comes any more.

**The list** (`ListInv`). The state of the code is pointers, the properties speak of
sequences. `Holds` connects the two: the pointers lead through the nodes of a
sequence, each once (`Links`), `tail` and `count` belong to it, and `prev` and `pos`
of each open iterator are the places that its cursor says. One lemma per call shows
that the memory it leaves holds the sequence and the cursors that `ListSpec` gives,
so the invariant and the refinement come from the same lemmas; `Shape` follows. For
`VisitsAll` the invariant also has that the nodes due to an iterator are at or
behind its cursor. `list_delete_all` and `list_sort` are loops, and the
lemma about each is an induction over its rounds (well-founded induction on the
naturals, with a formula for what is done after n rounds): a prefix of the chain is
free of matching nodes, and the iterators were cut back by exactly those that went;
or a prefix is sorted and stable, and each round takes the next node to its place
or leaves it there. That the result is *the* stable sort of the items then follows
from the order being total on the pairs of key and old index.

**lua** (`LuaInv`). In every loop over the scripts what is still to do is a suffix of
the list (`LoopInv`), so that dropping the script just visited takes the right one
out; what became of those that were passed is `ScriptsInv`. Options are pushed at the
front and numbered by the length of the list, so an option's number is its place
from the end (`OptsInv`) and stays so when others are pushed. `TableInv` says which
names of the table that is being registered SLURM has accepted. `RanInv` has the
calls so far as an order-preserving map to the scripts passed that have the function
(`Called`). Why the plugin fails to start is an invariant of its own
(`FailedInv`). The proof of `BrokenScriptsAlone` found a case that its first statement
left out: a table that has one name twice is refused although no other script has it.

**Configuration** (`ConfInv` of `CpusetConf`). At every word the settings are those of
what the program has been told so far (`SoFar`), which ends as the whole of its
sources in the order the code reads them (`ReadOrder`); that is the manual's, except in
the PAM module, and there the order only matters for what both sources give. That a
text's statements, applied one after the other,
leave the last value of each setting is shown from a formula for what they have
done after n of them, which determines the fold; words are spelled out one by one, so
the next word's statements come after those of the words before it. An aborted parse
leaves its rest in the scanner's buffer, and the next file, whichever source
names it, starts with that: `BufferInv` says that under `OneFault` the buffer is
empty as long as a file is still to come, also when the PAM module reads the system
file last, because no word named one.

Only model-checked:

- liveness, which needs fairness: `LockReleased`, `Returns`, `RelayEnds`,
  `ResizeReaches`, `CallsReturn`, `ServerEnds`;
- everything about `Hostlist`, whose recursive operators and functions of the array,
  and `qsort`, need an induction over data that the library's theorems do not give;
- `LoginCpus` for a controller that fails;
- `ManualExamples`, which are examples.

## 5. Not modelled, and the plan

Left out of the components that are modelled: several threads that call
`system()` at once (their requests mix byte by byte), a login from inside a user
cpuset (`in_user_cpuset`), memory nodes, a stride of 0 in `cpus=` (the parser
does not return), the table of 64 users of overcommit-memory, cutting host
strings into tokens, and buffers that are too small for a printed list.

Not modelled:

- use-env: a parser and interpreter of environment files, in one process and
  without failures to recover from; what could be said of it is its grammar.
- oom-detect: depends on a kernel patch that is not in the repository.
- preserve-env, private-mount, lua-schedutils, the small plugins: one or a few
  library calls in a row in one process.
- message texts (`log.c`, `log_msg.c`), generated lexers, the manual test driver
  `cpuset/test.c`, the report script `slurm-cpuset-info`, and the site scripts in
  `lua/` and `iorelay/`.

Next, in this order:

1. An abstract specification of CPU ownership that `Cpuset` implements, and of
   a CPU grant that `Nodemap` implements, with their proofs.
2. Two threads in `SystemSafe`; `in_user_cpuset` in `Cpuset`.
