----------------------------- MODULE Overcommit -----------------------------
(***************************************************************************)
(* overcommit-memory: the job steps of a node that choose a memory         *)
(* overcommit mode share a file in /tmp that counts them. The first one    *)
(* creates and initialises it, the last one removes it and puts the kernel *)
(* back; a semaphore in the file protects the count. A process that has    *)
(* the file open keeps it when it is removed.                              *)
(***************************************************************************)
EXTENDS Integers, Sequences

CONSTANTS
  Steps,    \* processes of job steps that ask for a mode
  Cleaners, \* processes of overcommit-memory --cleanup, which the epilog of
            \*   the job runs for its step
  Tools,    \* processes of overcommit-memory --list-users or --force-reset
  Modes,    \* the modes that they ask for: 0, 1 or 2
  MaxFiles, \* bound: files created
  MaxCrash, \* bound: processes killed
  None

VARIABLES
  mode,   \* the mode each step asks for
  tool,   \* what each tool is asked for
  path,   \* the file the name stands for, or None
  files,  \* the files: contents, and who has the lock
  kernel, \* the kernel's mode and ratio
  at,     \* where each process is
  my,     \* the file it has open
  crashes

ocvars == <<mode, tool, path, files, kernel, at, my, crashes>>

Procs == Steps \cup Cleaners \cup Tools

ASSUME OcAssumption ==
  Steps \cap Cleaners = {} /\ Steps \cap Tools = {} /\ Cleaners \cap Tools = {}

\* A new file is empty; ftruncate makes it full of zeros.
Zeros == [sized |-> FALSE, sem |-> 0, users |-> {}, value |-> 0, ratio |-> 0, lock |-> None]

OcInit ==
  /\ mode \in [Steps -> Modes] /\ tool \in [Tools -> {"list-users", "force-reset"}]
  /\ path = None /\ files = <<>> /\ kernel = [mode |-> 0, ratio |-> 50]
  /\ at = [p \in Procs |-> "start"]
  /\ my = [p \in Procs |-> None] /\ crashes = 0

Goes(p, where) == at' = [at EXCEPT ![p] = where]

-----------------------------------------------------------------------------
(* overcommit_shared_ctx_create and overcommit_shared_ctx_attach.          *)

\* open with O_EXCL creates the file or finds that it exists.
Create(p) ==
  /\ p \in Steps \cup Cleaners /\ at[p] = "start"
  /\ p \in Cleaners => \A s \in Steps : at[s] \in {"done", "dead"}
  /\ \/ /\ path # None /\ Goes(p, "open") /\ UNCHANGED <<path, files, my>>
     \/ /\ path = None /\ Len(files) < MaxFiles
        /\ files' = Append(files, Zeros)
        /\ path' = Len(files) + 1 /\ my' = [my EXCEPT ![p] = Len(files) + 1]
        /\ Goes(p, "lock")
  /\ UNCHANGED <<mode, tool, kernel, crashes>>

\* If it was removed in between, overcommit_shared_ctx_destroy follows a null
\* pointer.
Open(p) ==
  /\ at[p] = "open"
  /\ IF path = None THEN Goes(p, "dead") /\ UNCHANGED my
     ELSE Goes(p, "lock") /\ my' = [my EXCEPT ![p] = path]
  /\ UNCHANGED <<mode, tool, path, files, kernel, crashes>>

\* overcommit_shared_ctx_attach opens a file that exists.
Attach(p) ==
  /\ p \in Tools /\ tool[p] = "list-users" /\ at[p] = "start"
  /\ IF path = None THEN Goes(p, "done") /\ UNCHANGED my
     ELSE Goes(p, "lock") /\ my' = [my EXCEPT ![p] = path]
  /\ UNCHANGED <<mode, tool, path, files, kernel, crashes>>

\* The lock is tried for, not waited for, and its failure is no reason to stop.
Lock(p) ==
  LET f == my[p] IN
  /\ at[p] = "lock"
  /\ files' = [files EXCEPT ![f].lock = IF @ = None THEN p ELSE @]
  /\ Goes(p, IF files[f].sized THEN "unlock" ELSE "truncate")
  /\ UNCHANGED <<mode, tool, path, kernel, my, crashes>>

Truncate(p) ==
  /\ at[p] = "truncate"
  /\ files' = [files EXCEPT ![my[p]].sized = TRUE]
  /\ Goes(p, "memset")
  /\ UNCHANGED <<mode, tool, path, kernel, my, crashes>>

\* memset and sem_init, whatever another process has put there.
InitShared(p) ==
  /\ at[p] = "memset"
  /\ files' = [files EXCEPT ![my[p]] = 
       [Zeros EXCEPT !.sized = TRUE, !.sem = 1, !.lock = files[my[p]].lock]]
  /\ Goes(p, "unlock")
  /\ UNCHANGED <<mode, tool, path, kernel, my, crashes>>

Unlock(p) ==
  /\ at[p] = "unlock"
  /\ files' = [files EXCEPT ![my[p]].lock = IF @ = p THEN None ELSE @]
  /\ Goes(p, "wait")
  /\ UNCHANGED <<mode, tool, path, kernel, my, crashes>>

SemWait(p) ==
  /\ at[p] \in {"wait", "exit"} /\ files[my[p]].sem > 0
  /\ files' = [files EXCEPT ![my[p]].sem = @ - 1]
  /\ Goes(p, CASE at[p] = "exit" \/ p \in Cleaners -> "unregister"
               [] at[p] = "wait" /\ p \in Steps -> "check"
               [] OTHER -> "list")
  /\ UNCHANGED <<mode, tool, path, kernel, my, crashes>>

-----------------------------------------------------------------------------
(* A step: set_overcommit_policy and slurm_spank_exit.                     *)

\* overcommit_in_use. On a conflict the context is destroyed, with a second
\* sem_post; the step runs without its mode, and follows a stale pointer when it
\* exits.
overcommit_in_use(p) ==
  LET f == files[my[p]]
      first == f.users = {} IN
  /\ at[p] = "check"
  /\ \/ /\ ~first /\ f.value # mode[p]
        /\ files' = [files EXCEPT ![my[p]].sem = @ + 1]
        /\ Goes(p, "destroy")
     \/ /\ first \/ f.value = mode[p]
        /\ files' = [files EXCEPT ![my[p]] =
             [f EXCEPT !.sem = @ + 1, !.users = @ \cup {p},
                       !.value = IF first THEN mode[p] ELSE @,
                       !.ratio = IF first THEN kernel.ratio ELSE @]]
        /\ Goes(p, "set")
  /\ UNCHANGED <<mode, tool, path, kernel, my, crashes>>

\* overcommit_memory_set_current_state and overcommit_ratio_set.
SetMode(p) ==
  /\ at[p] = "set"
  /\ kernel' = [mode |-> mode[p], ratio |-> 100]
  /\ Goes(p, "run")
  /\ UNCHANGED <<mode, tool, path, files, my, crashes>>

slurm_spank_exit(p) ==
  /\ at[p] = "run"
  /\ Goes(p, "exit")
  /\ UNCHANGED <<mode, tool, path, files, kernel, my, crashes>>

\* Faulty variant: the entry has to be that of the process.
unregister_jobOwn(p) ==
  /\ at[p] = "unregister"
  /\ files' = [files EXCEPT ![my[p]].users = @ \ {p}]
  /\ Goes(p, "destroy")
  /\ UNCHANGED <<mode, tool, path, kernel, my, crashes>>

\* unregister_job; a cleaner, which has no step id, takes the first entry of its
\* job that it finds.
unregister_job(p) ==
  LET mine == files[my[p]].users \cap (IF p \in Steps THEN {p} ELSE Steps) IN
  /\ at[p] = "unregister"
  /\ \/ mine = {} /\ UNCHANGED files
     \/ \E u \in mine : files' = [files EXCEPT ![my[p]].users = @ \ {u}]
  /\ Goes(p, "destroy")
  /\ UNCHANGED <<mode, tool, path, kernel, my, crashes>>

\* overcommit_shared_ctx_destroy: the last one removes whatever file has the
\* name and puts the kernel back.
Unlink(p) ==
  /\ at[p] = "destroy"
  /\ \/ files[my[p]].users # {} /\ Goes(p, "post") /\ UNCHANGED path
     \/ files[my[p]].users = {} /\ Goes(p, "reset") /\ path' = None
  /\ UNCHANGED <<mode, tool, files, kernel, my, crashes>>

Reset(p) ==
  /\ at[p] = "reset"
  /\ kernel' = [mode |-> 0, ratio |-> files[my[p]].ratio]
  /\ Goes(p, "post")
  /\ UNCHANGED <<mode, tool, path, files, my, crashes>>

SemPost(p) ==
  /\ at[p] = "post"
  /\ files' = [files EXCEPT ![my[p]].sem = @ + 1]
  /\ Goes(p, "done")
  /\ UNCHANGED <<mode, tool, path, kernel, my, crashes>>

-----------------------------------------------------------------------------
(* --list-users, --force-reset, and faults.                                *)

\* If there are no users the process ends and keeps the semaphore.
overcommit_shared_list_users(p) ==
  /\ at[p] = "list"
  /\ Goes(p, IF files[my[p]].users = {} THEN "done" ELSE "destroy")
  /\ UNCHANGED <<mode, tool, path, files, kernel, my, crashes>>

overcommit_force_cleanup(p) ==
  /\ p \in Tools /\ tool[p] = "force-reset" /\ at[p] = "start"
  /\ path' = None
  /\ kernel' = [kernel EXCEPT !.mode = 0]
  /\ Goes(p, "done")
  /\ UNCHANGED <<mode, tool, files, my, crashes>>

\* The kernel gives back a dead process's lock, not its semaphore.
Crash(p) ==
  /\ crashes < MaxCrash /\ at[p] \notin {"done", "dead"}
  /\ crashes' = crashes + 1
  /\ files' = [f \in DOMAIN files |->
                 [files[f] EXCEPT !.lock = IF @ = p THEN None ELSE @]]
  /\ Goes(p, "dead")
  /\ UNCHANGED <<mode, tool, path, kernel, my>>

OcNext ==
  \E p \in Procs :
    \/ Create(p) \/ Open(p) \/ Attach(p) \/ Lock(p) \/ Truncate(p) \/ InitShared(p) \/ Unlock(p)
    \/ SemWait(p) \/ overcommit_in_use(p) \/ SetMode(p) \/ slurm_spank_exit(p)
    \/ unregister_job(p) \/ Unlink(p) \/ Reset(p) \/ SemPost(p)
    \/ overcommit_shared_list_users(p) \/ overcommit_force_cleanup(p) \/ Crash(p)

OcSpec == OcInit /\ [][OcNext]_ocvars

-----------------------------------------------------------------------------
(* What the administrator relies on.                                       *)

\* Wherever a step of the job died, once its epilog has cleaned up the kernel is
\* back in its default mode. (The epilog does not end if the step died with
\* the semaphore; the ratio is set to 0 if it finds no file. It removes one entry
\* of its job, so that a second process that was killed stays in the file.)
CleanupRestores ==
  crashes <= 1 => \A p \in Cleaners : at[p] = "done" => kernel.mode = 0

\* "Removes shared memory file and resets overcommit_memory to default if no
\* more references to overcommit-memory exist": the kernel is not put back while
\* a step runs that asked for its mode.
ResetLast ==
  [][kernel.mode # 0 /\ kernel'.mode = 0 => \A p \in Steps : at[p] # "run"]_ocvars

-----------------------------------------------------------------------------
(* The inductive invariant behind CleanupRestores.                         *)

Places == {"start", "open", "lock", "truncate", "memset", "unlock", "wait", "check", "set", "run",
           "exit", "unregister", "destroy", "reset", "post", "list", "done", "dead"}
Contents == [sized : BOOLEAN, sem : Int, users : SUBSET Steps, value : Modes \cup {0}, ratio : Int,
             lock : Procs \cup {None}]

OcTypeOK ==
  /\ mode \in [Steps -> Modes]
  /\ files \in Seq(Contents) /\ path \in {None} \cup DOMAIN files
  /\ kernel \in [mode : Modes \cup {0}, ratio : Int]
  /\ at \in [Procs -> Places] /\ my \in [Procs -> {None} \cup Nat] /\ crashes \in Nat

\* Whoever got past the opening has a file open; only a step registers.
Opened ==
  \A p \in Procs :
    /\ at[p] \notin {"start", "open", "done", "dead"} => my[p] \in DOMAIN files
    /\ at[p] \in {"check", "set", "run", "exit"} => p \in Steps
    /\ at[p] = "unregister" => p \in Steps \cup Cleaners
    /\ at[p] = "list" => p \in Tools

\* An entry is that of a step that has this file open and is not through with
\* unregister_job.
Registered ==
  \A f \in DOMAIN files : \A s \in files[f].users :
    my[s] = f /\ at[s] \in {"set", "run", "exit", "unregister", "dead"}

\* A dead step left an entry behind only if it was killed.
DeadEntries ==
  LET Dead(s, f) == s \in files[f].users /\ at[s] = "dead" IN
  /\ crashes = 0 => \A f \in DOMAIN files : \A s \in Steps : ~Dead(s, f)
  /\ crashes <= 1 => \A f, g \in DOMAIN files : \A s, t \in Steps :
                       Dead(s, f) /\ Dead(t, g) => s = t

\* The epilog runs when the steps are over, and finds at most one entry.
Epilog ==
  \A p \in Cleaners :
    /\ at[p] \notin {"start", "dead"} => \A s \in Steps : at[s] \in {"done", "dead"}
    /\ crashes <= 1 /\ at[p] \in {"destroy", "reset"} => files[my[p]].users = {}
    /\ crashes <= 1 /\ at[p] \in {"post", "done"} => kernel.mode = 0

OcInv == OcTypeOK /\ Opened /\ Registered /\ DeadEntries /\ Epilog

=============================================================================
