--------------------------- MODULE SessionProofs ----------------------------
(***************************************************************************)
(* Proofs about three plugins of a job step that keep no cpusets and share *)
(* no state, overcommit-memory, system-safe and lua, and about the reading *)
(* of slurm-cpuset's configuration.                                        *)
(***************************************************************************)
EXTENDS Overcommit, SystemSafe, SpankLua, CpusetConf, Ranks, SequenceTheorems

-----------------------------------------------------------------------------
(* overcommit-memory: the epilog's cleanup puts the kernel back            *)
(* (CleanupRestores), for every set of steps, cleaners and tools and every *)
(* bound on files and crashes. Most actions move one process and edit the  *)
(* file it has open so that no entry appears: the lemmas about Moves do    *)
(* them together.                                                          *)

\* A step that moves process p to place w and leaves every file with some of
\* the entries it had.
Moves(p, w) ==
  /\ p \in Procs /\ w \in Places /\ at[p] \notin {"done", "dead"}
  /\ at' = [at EXCEPT ![p] = w]
  /\ my' \in [Procs -> {None} \cup Nat]
  /\ \A q \in Procs \ {p} : my'[q] = my[q]
  /\ my'[p] = my[p] \/ at[p] \in {"start", "open"}
  /\ files' \in Seq(Contents) /\ DOMAIN files \subseteq DOMAIN files'
  /\ \A f \in DOMAIN files : files'[f].users \subseteq files[f].users
  /\ \A f \in DOMAIN files' \ DOMAIN files : files'[f].users = {}
  /\ UNCHANGED mode

-----------------------------------------------------------------------------
(* Files and their contents.                                               *)

LEMMA FileOK ==
  ASSUME OcTypeOK, NEW f \in DOMAIN files
  PROVE  files[f] \in Contents /\ files[f].users \subseteq Steps
<1>1. files[f] \in Contents
  BY DEF OcTypeOK
<1> QED
  BY <1>1 DEF Contents

\* A file is edited, and the others stay.
LEMMA Edit ==
  ASSUME NEW fs \in Seq(Contents), NEW i \in DOMAIN fs, NEW c \in Contents,
         NEW gs, gs = [fs EXCEPT ![i] = c]
  PROVE  /\ gs \in Seq(Contents) /\ DOMAIN gs = DOMAIN fs /\ gs[i] = c
         /\ \A j \in DOMAIN fs : j # i => gs[j] = fs[j]
OBVIOUS

\* A file is created.
LEMMA Grow ==
  ASSUME NEW fs \in Seq(Contents), NEW c \in Contents, NEW gs, gs = Append(fs, c)
  PROVE  /\ gs \in Seq(Contents) /\ DOMAIN gs = DOMAIN fs \cup {Len(fs) + 1}
         /\ gs[Len(fs) + 1] = c /\ \A j \in DOMAIN fs : gs[j] = fs[j]
         /\ Len(fs) + 1 \in Nat /\ Len(fs) + 1 \notin DOMAIN fs
OBVIOUS

-----------------------------------------------------------------------------
(* What the invariant's parts need of a move.                              *)

\* The places that presuppose an open file, or one kind of process.
LEMMA OpenedMoves ==
  ASSUME OcTypeOK, Opened, NEW p, NEW w, Moves(p, w),
         w \notin {"start", "open", "done", "dead"} => my'[p] \in DOMAIN files',
         w \in {"check", "set", "run", "exit"} => p \in Steps,
         w = "unregister" => p \in Steps \cup Cleaners,
         w = "list" => p \in Tools
  PROVE  Opened'
BY DEF OcTypeOK, Opened, Moves

\* No entry appears, and p keeps one only where a registered step may be.
LEMMA RegisteredMoves ==
  ASSUME OcTypeOK, Registered, NEW p, NEW w, Moves(p, w),
         \/ w \in {"set", "run", "exit", "unregister", "dead"}
         \/ \A f \in DOMAIN files' : p \notin files'[f].users
  PROVE  Registered'
<1> SUFFICES ASSUME NEW f \in DOMAIN files', NEW s \in files'[f].users
             PROVE  my'[s] = f /\ at'[s] \in {"set", "run", "exit", "unregister", "dead"}
  BY DEF Registered
<1>1. f \in DOMAIN files /\ s \in files[f].users
  BY DEF Moves
<1>2. my[s] = f /\ at[s] \in {"set", "run", "exit", "unregister", "dead"}
  BY <1>1 DEF Registered
<1>3. s \in Procs
  BY <1>1, FileOK DEF Procs
<1>4. my'[s] = my[s]
  BY <1>2, <1>3 DEF Moves
<1>5. CASE s = p
  BY <1>2, <1>4, <1>5 DEF Moves, OcTypeOK
<1>6. CASE s # p
  BY <1>2, <1>3, <1>4, <1>6 DEF Moves, OcTypeOK
<1> QED
  BY <1>5, <1>6

\* A process that does not die leaves no entry behind.
LEMMA DeadMoves ==
  ASSUME OcTypeOK, DeadEntries, NEW p, NEW w, Moves(p, w), UNCHANGED crashes,
         \/ w # "dead"
         \/ \A f \in DOMAIN files' : p \notin files'[f].users
  PROVE  DeadEntries'
<1>1. \A f \in DOMAIN files' : \A s \in Steps :
        s \in files'[f].users /\ at'[s] = "dead" =>
          f \in DOMAIN files /\ s \in files[f].users /\ at[s] = "dead"
  BY DEF Moves, OcTypeOK, Procs
<1> QED
  BY <1>1 DEF DeadEntries

\* A cleaner that has started sees no step move. 
LEMMA EpilogMoves ==
  ASSUME OcAssumption, OcTypeOK, Opened, Epilog, NEW p, NEW w, Moves(p, w), UNCHANGED crashes,
         kernel'.mode = kernel.mode \/ kernel'.mode = 0 \/ p \in Steps,
         p \in Cleaners =>
           /\ \A s \in Steps : at[s] \in {"done", "dead"}
           /\ crashes <= 1 /\ w \in {"destroy", "reset"} => files'[my'[p]].users = {}
           /\ crashes <= 1 /\ w \in {"post", "done"} => kernel'.mode = 0
  PROVE  Epilog'
<1> SUFFICES ASSUME NEW c \in Cleaners
             PROVE  /\ at'[c] \notin {"start", "dead"} =>
                         \A s \in Steps : at'[s] \in {"done", "dead"}
                    /\ crashes' <= 1 /\ at'[c] \in {"destroy", "reset"} =>
                         files'[my'[c]].users = {}
                    /\ crashes' <= 1 /\ at'[c] \in {"post", "done"} => kernel'.mode = 0
  BY DEF Epilog
<1>0. c \in Procs /\ Steps \subseteq Procs
  BY DEF Procs
<1>1. CASE p \in Steps
  <2>1. at'[c] = at[c] /\ at[c] \in {"start", "dead"}
    BY <1>0, <1>1, OcAssumption DEF Moves, OcTypeOK, Epilog
  <2> QED
    BY <2>1
<1>2. CASE p = c
  <2>1. at'[c] = w
    BY <1>2 DEF Moves, OcTypeOK
  <2>2. \A s \in Steps : at'[s] = at[s]
    BY <1>0, <1>2, OcAssumption DEF Moves, OcTypeOK
  <2> QED
    BY <1>2, <2>1, <2>2
<1>3. CASE p \notin Steps /\ p # c
  <2>1. at'[c] = at[c] /\ my'[c] = my[c]
    BY <1>0, <1>3 DEF Moves, OcTypeOK
  <2>2. \A s \in Steps : at'[s] = at[s]
    BY <1>0, <1>3 DEF Moves, OcTypeOK
  <2>3. at[c] \in {"destroy", "reset"} => my[c] \in DOMAIN files
    BY <1>0 DEF Opened
  <2>4. crashes' <= 1 /\ at'[c] \in {"destroy", "reset"} => files'[my'[c]].users = {}
    BY <2>1, <2>3 DEF Epilog, Moves
  <2> QED
    BY <1>3, <2>1, <2>2, <2>4 DEF Epilog
<1> QED
  BY <1>1, <1>2, <1>3

\* A process that is not where a registered step may be has no entry.
LEMMA NoEntry ==
  ASSUME Registered, NEW p, at[p] \notin {"set", "run", "exit", "unregister", "dead"}
  PROVE  \A f \in DOMAIN files : p \notin files[f].users
BY DEF Registered

-----------------------------------------------------------------------------
(* The actions.                                                            *)

\* The whole invariant after a move that does not set the kernel's mode and
\* reaches none of the places that promise something.
LEMMA PlainMoves ==
  ASSUME OcAssumption, OcInv, OcTypeOK', NEW p, NEW w, Moves(p, w),
         UNCHANGED <<crashes, kernel>>,
         at[p] \notin {"set", "run", "exit", "unregister"},
         w \notin {"start", "open", "done", "dead"} => my'[p] \in DOMAIN files',
         w \in {"check", "set", "run", "exit"} => p \in Steps,
         w = "unregister" => p \in Steps \cup Cleaners,
         w = "list" => p \in Tools,
         p \in Cleaners => /\ \A s \in Steps : at[s] \in {"done", "dead"}
                           /\ w \notin {"destroy", "reset", "post"}
                           /\ w = "done" => at[p] = "post"
  PROVE  OcInv'
<1>1. \A f \in DOMAIN files' : p \notin files'[f].users
  BY NoEntry DEF OcInv, Moves
<1>2. Opened'
  BY OpenedMoves DEF OcInv
<1>3. Registered'
  BY <1>1, RegisteredMoves DEF OcInv
<1>4. DeadEntries'
  BY <1>1, DeadMoves DEF OcInv
<1>5. p \in Cleaners /\ crashes <= 1 /\ w = "done" => kernel'.mode = 0
  BY DEF OcInv, Epilog
<1>6. Epilog'
  BY <1>5, EpilogMoves DEF OcInv
<1> QED
  BY <1>2, <1>3, <1>4, <1>6 DEF OcInv

LEMMA CreateInv ==
  ASSUME OcAssumption, OcInv, NEW p \in Procs, Create(p)
  PROVE  OcInv'
<1> USE DEF OcInv
<1>1. CASE path # None /\ Goes(p, "open") /\ UNCHANGED <<path, files, my>>
  <2>1. Moves(p, "open") /\ OcTypeOK'
    BY <1>1 DEF Create, Goes, Moves, OcTypeOK, Places
  <2> QED
    BY <1>1, <2>1, PlainMoves DEF Create
<1>2. CASE /\ path = None /\ files' = Append(files, Zeros) /\ path' = Len(files) + 1
           /\ my' = [my EXCEPT ![p] = Len(files) + 1] /\ Goes(p, "lock")
  <2>1. Zeros \in Contents /\ Zeros.users = {}
    BY DEF Zeros, Contents
  <2>2. /\ files' \in Seq(Contents) /\ DOMAIN files' = DOMAIN files \cup {Len(files) + 1}
        /\ files'[Len(files) + 1] = Zeros /\ \A j \in DOMAIN files : files'[j] = files[j]
        /\ Len(files) + 1 \in Nat
    BY <1>2, <2>1, Grow DEF OcTypeOK
  <2>3. my' \in [Procs -> {None} \cup Nat] /\ my'[p] = Len(files) + 1
        /\ \A q \in Procs \ {p} : my'[q] = my[q]
    BY <1>2, <2>2 DEF OcTypeOK
  <2>4. Moves(p, "lock")
    BY <1>2, <2>1, <2>2, <2>3 DEF Create, Goes, Moves, Places
  <2>5. OcTypeOK'
    BY <1>2, <2>2, <2>3 DEF Create, Goes, OcTypeOK, Places
  <2> QED
    BY <2>2, <2>3, <2>4, <2>5, PlainMoves DEF Create
<1> QED
  BY <1>1, <1>2 DEF Create

\* A cleaner that is past its start has seen the steps end.
LEMMA StepsOver ==
  ASSUME Epilog, NEW p \in Cleaners, at[p] \notin {"start", "dead"}
  PROVE  \A s \in Steps : at[s] \in {"done", "dead"}
BY DEF Epilog

LEMMA OpenInv ==
  ASSUME OcAssumption, OcInv, NEW p \in Procs, Open(p)
  PROVE  OcInv'
<1> USE DEF OcInv
<1>0. p \in Cleaners => \A s \in Steps : at[s] \in {"done", "dead"}
  BY StepsOver DEF Open
<1>1. CASE path = None
  <2>1. Moves(p, "dead") /\ OcTypeOK'
    BY <1>1 DEF Open, Goes, Moves, OcTypeOK, Places
  <2> QED
    BY <1>0, <1>1, <2>1, PlainMoves DEF Open
<1>2. CASE path # None
  <2>1. path \in DOMAIN files /\ path \in Nat
    BY <1>2 DEF OcTypeOK
  <2>2. Moves(p, "lock") /\ OcTypeOK'
    BY <1>2, <2>1 DEF Open, Goes, Moves, OcTypeOK, Places
  <2>3. my'[p] \in DOMAIN files'
    BY <1>2, <2>1 DEF Open, OcTypeOK
  <2> QED
    BY <1>0, <1>2, <2>2, <2>3, PlainMoves DEF Open
<1> QED
  BY <1>1, <1>2

LEMMA AttachInv ==
  ASSUME OcAssumption, OcInv, NEW p \in Procs, Attach(p)
  PROVE  OcInv'
<1> USE DEF OcInv
<1>0. p \notin Cleaners
  BY OcAssumption DEF Attach
<1>1. CASE path = None
  <2>1. Moves(p, "done") /\ OcTypeOK'
    BY <1>1 DEF Attach, Goes, Moves, OcTypeOK, Places
  <2> QED
    BY <1>0, <1>1, <2>1, PlainMoves DEF Attach
<1>2. CASE path # None
  <2>1. path \in DOMAIN files /\ path \in Nat
    BY <1>2 DEF OcTypeOK
  <2>2. Moves(p, "lock") /\ OcTypeOK'
    BY <1>2, <2>1 DEF Attach, Goes, Moves, OcTypeOK, Places
  <2>3. my'[p] \in DOMAIN files'
    BY <1>2, <2>1 DEF Attach, OcTypeOK
  <2> QED
    BY <1>0, <1>2, <2>2, <2>3, PlainMoves DEF Attach
<1> QED
  BY <1>1, <1>2

\* A process edits the file it has open and adds no entry.
LEMMA EditMoves ==
  ASSUME OcInv, NEW p \in Procs, NEW w \in Places, NEW c \in Contents,
         at[p] \notin {"start", "open", "done", "dead"}, Goes(p, w),
         files' = [files EXCEPT ![my[p]] = c], c.users \subseteq files[my[p]].users,
         UNCHANGED <<mode, path, kernel, my, crashes>>
  PROVE  Moves(p, w) /\ OcTypeOK' /\ my'[p] \in DOMAIN files' /\ files'[my'[p]] = c
<1>1. my[p] \in DOMAIN files /\ files \in Seq(Contents)
  BY DEF OcInv, OcTypeOK, Opened
<1>2. /\ files' \in Seq(Contents) /\ DOMAIN files' = DOMAIN files /\ files'[my[p]] = c
      /\ \A j \in DOMAIN files : j # my[p] => files'[j] = files[j]
  BY <1>1, Edit
<1>3. Moves(p, w)
  BY <1>1, <1>2 DEF Moves, Goes, OcInv, OcTypeOK
<1>4. OcTypeOK'
  BY <1>2 DEF Goes, OcInv, OcTypeOK
<1> QED
  BY <1>1, <1>2, <1>3, <1>4

\* The fields of an open file.
LEMMA OpenFile ==
  ASSUME OcInv, NEW p \in Procs, at[p] \notin {"start", "open", "done", "dead"}
  PROVE  /\ my[p] \in DOMAIN files /\ files[my[p]] \in Contents
         /\ files[my[p]].users \subseteq Steps
<1>1. my[p] \in DOMAIN files
  BY DEF OcInv, Opened
<1> QED
  BY <1>1, FileOK DEF OcInv

LEMMA LockInv ==
  ASSUME OcAssumption, OcInv, NEW p \in Procs, Lock(p)
  PROVE  OcInv'
<1> DEFINE f == files[my[p]]
           c == [f EXCEPT !.lock = IF @ = None THEN p ELSE @]
           w == IF f.sized THEN "unlock" ELSE "truncate"
<1>1. my[p] \in DOMAIN files /\ f \in Contents
  BY OpenFile DEF Lock
<1>2. c \in Contents /\ c.users = f.users
  BY <1>1 DEF Contents
<1>3. files' = [files EXCEPT ![my[p]] = c]
  BY <1>1 DEF Lock
<1>4. w \in {"unlock", "truncate"} /\ w \in Places
  BY DEF Places
<1>5. Moves(p, w) /\ OcTypeOK' /\ my'[p] \in DOMAIN files'
  <2> HIDE DEF c, w
  <2> QED
    BY <1>2, <1>3, <1>4, EditMoves DEF Lock, w
<1> HIDE DEF w
<1>6. p \in Cleaners => \A s \in Steps : at[s] \in {"done", "dead"}
  BY StepsOver DEF Lock, OcInv
<1> QED
  BY <1>4, <1>5, <1>6, PlainMoves DEF Lock

LEMMA TruncateInv ==
  ASSUME OcAssumption, OcInv, NEW p \in Procs, Truncate(p)
  PROVE  OcInv'
<1> DEFINE c == [files[my[p]] EXCEPT !.sized = TRUE]
<1>1. my[p] \in DOMAIN files /\ files[my[p]] \in Contents
  BY OpenFile DEF Truncate
<1>2. c \in Contents /\ c.users = files[my[p]].users
  BY <1>1 DEF Contents
<1>3. files' = [files EXCEPT ![my[p]] = c]
  BY <1>1 DEF Truncate
<1>4. Moves(p, "memset") /\ OcTypeOK' /\ my'[p] \in DOMAIN files'
  <2> HIDE DEF c
  <2> QED
    BY <1>2, <1>3, EditMoves DEF Truncate, Places
<1>5. p \in Cleaners => \A s \in Steps : at[s] \in {"done", "dead"}
  BY StepsOver DEF Truncate, OcInv
<1> QED
  BY <1>4, <1>5, PlainMoves DEF Truncate

LEMMA InitSharedInv ==
  ASSUME OcAssumption, OcInv, NEW p \in Procs, InitShared(p)
  PROVE  OcInv'
<1> DEFINE c == [Zeros EXCEPT !.sized = TRUE, !.sem = 1, !.lock = files[my[p]].lock]
<1>1. my[p] \in DOMAIN files /\ files[my[p]] \in Contents
  BY OpenFile DEF InitShared
<1>2. c \in Contents /\ c.users = {}
  <2> DEFINE l == files[my[p]].lock
             z1 == [Zeros EXCEPT !.sized = TRUE]
             z2 == [z1 EXCEPT !.sem = 1]
             z3 == [z2 EXCEPT !.lock = l]
  <2>1. l \in Procs \cup {None}
    BY <1>1 DEF Contents
  <2>2. Zeros \in Contents /\ Zeros.users = {}
    BY DEF Contents, Zeros
  <2>3. c = z3
    BY <2>2 DEF Contents
  <2>4. z1 \in Contents /\ z1.users = {}
    BY <2>2 DEF Contents
  <2> HIDE DEF z1
  <2>5. z2 \in Contents /\ z2.users = {}
    BY <2>4 DEF Contents
  <2> HIDE DEF z2
  <2>6. z3 \in Contents /\ z3.users = {}
    BY <2>1, <2>5 DEF Contents
  <2> QED
    BY <2>3, <2>6
<1>3. files' = [files EXCEPT ![my[p]] = c]
  BY <1>1 DEF InitShared
<1>4. Moves(p, "unlock") /\ OcTypeOK' /\ my'[p] \in DOMAIN files'
  <2> HIDE DEF c
  <2> QED
    BY <1>2, <1>3, EditMoves DEF InitShared, Places
<1>5. p \in Cleaners => \A s \in Steps : at[s] \in {"done", "dead"}
  BY StepsOver DEF InitShared, OcInv
<1> QED
  BY <1>4, <1>5, PlainMoves DEF InitShared

LEMMA UnlockInv ==
  ASSUME OcAssumption, OcInv, NEW p \in Procs, Unlock(p)
  PROVE  OcInv'
<1> DEFINE c == [files[my[p]] EXCEPT !.lock = IF @ = p THEN None ELSE @]
<1>1. my[p] \in DOMAIN files /\ files[my[p]] \in Contents
  BY OpenFile DEF Unlock
<1>2. c \in Contents /\ c.users = files[my[p]].users
  BY <1>1 DEF Contents
<1>3. files' = [files EXCEPT ![my[p]] = c]
  BY <1>1 DEF Unlock
<1>4. Moves(p, "wait") /\ OcTypeOK' /\ my'[p] \in DOMAIN files'
  <2> HIDE DEF c
  <2> QED
    BY <1>2, <1>3, EditMoves DEF Unlock, Places
<1>5. p \in Cleaners => \A s \in Steps : at[s] \in {"done", "dead"}
  BY StepsOver DEF Unlock, OcInv
<1> QED
  BY <1>4, <1>5, PlainMoves DEF Unlock

\* A step that waits for the semaphore to unregister still has its entry.
LEMMA SemWaitInv ==
  ASSUME OcAssumption, OcInv, NEW p \in Procs, SemWait(p)
  PROVE  OcInv'
<1> DEFINE c == [files[my[p]] EXCEPT !.sem = @ - 1]
<1>0. at[p] \in {"wait", "exit"}
  BY DEF SemWait
<1>1. my[p] \in DOMAIN files /\ files[my[p]] \in Contents
  BY <1>0, OpenFile
<1>2. c \in Contents /\ c.users = files[my[p]].users
  BY <1>1 DEF Contents
<1>3. files' = [files EXCEPT ![my[p]] = c]
  BY <1>1 DEF SemWait
<1>4. PICK w \in Places :
        /\ Goes(p, w)
        /\ \/ w = "unregister" /\ (at[p] = "exit" \/ p \in Cleaners)
           \/ w = "check" /\ p \in Steps /\ at[p] = "wait"
           \/ w = "list" /\ p \notin Steps \cup Cleaners /\ at[p] = "wait"
  <2>1. CASE at[p] = "exit" \/ p \in Cleaners
    BY <2>1 DEF SemWait, Places
  <2>2. CASE at[p] = "wait" /\ p \in Steps
    <3>1. p \notin Cleaners
      BY <2>2, OcAssumption
    <3> QED
      BY <2>2, <3>1 DEF SemWait, Places
  <2>3. CASE at[p] = "wait" /\ p \notin Steps \cup Cleaners
    BY <2>3 DEF SemWait, Places
  <2> QED
    BY <1>0, <2>1, <2>2, <2>3
<1>5. Moves(p, w) /\ OcTypeOK' /\ my'[p] \in DOMAIN files'
  <2> HIDE DEF c
  <2> QED
    BY <1>0, <1>2, <1>3, <1>4, EditMoves DEF SemWait
<1>6. p \in Cleaners => \A s \in Steps : at[s] \in {"done", "dead"}
  BY <1>0, StepsOver DEF OcInv
<1>7. p \notin Steps \cup Cleaners => p \in Tools
  BY DEF Procs
<1>8. CASE at[p] = "wait"
  BY <1>4, <1>5, <1>6, <1>7, <1>8, PlainMoves DEF SemWait
<1>9. CASE at[p] = "exit"
  <2>1. p \in Steps /\ p \notin Cleaners /\ w = "unregister"
    BY <1>4, <1>9, OcAssumption DEF OcInv, Opened
  <2>2. Opened'
    BY <1>5, <2>1, OpenedMoves DEF OcInv
  <2>3. Registered'
    BY <1>5, <2>1, RegisteredMoves DEF OcInv
  <2>4. DeadEntries'
    BY <1>5, <2>1, DeadMoves DEF OcInv, SemWait
  <2>5. Epilog'
    BY <1>5, <2>1, EpilogMoves DEF OcInv, SemWait
  <2> QED
    BY <1>5, <2>2, <2>3, <2>4, <2>5 DEF OcInv
<1> QED
  BY <1>0, <1>8, <1>9

\* A step registers, or finds another mode and leaves.
LEMMA InUseInv ==
  ASSUME OcAssumption, OcInv, NEW p \in Procs, overcommit_in_use(p)
  PROVE  OcInv'
<1> DEFINE f == files[my[p]]
<1>0. at[p] = "check"
  BY DEF overcommit_in_use
<1>1. my[p] \in DOMAIN files /\ f \in Contents /\ f.users \subseteq Steps
  BY <1>0, OpenFile
<1>2. p \in Steps /\ p \notin Cleaners /\ mode[p] \in Modes /\ kernel.ratio \in Int
  BY <1>0, OcAssumption DEF OcInv, OcTypeOK, Opened
<1>3. CASE files' = [files EXCEPT ![my[p]].sem = @ + 1] /\ Goes(p, "destroy")
  <2> DEFINE c == [f EXCEPT !.sem = @ + 1]
  <2>1. c \in Contents /\ c.users = f.users
    BY <1>1 DEF Contents
  <2>2. files' = [files EXCEPT ![my[p]] = c]
    BY <1>1, <1>3
  <2>3. Moves(p, "destroy") /\ OcTypeOK' /\ my'[p] \in DOMAIN files'
    <3> HIDE DEF c
    <3> QED
      BY <1>0, <1>3, <2>1, <2>2, EditMoves DEF overcommit_in_use, Places
  <2> QED
    BY <1>0, <1>2, <2>3, PlainMoves DEF overcommit_in_use
<1>4. CASE /\ files' = [files EXCEPT ![my[p]] =
                 [f EXCEPT !.sem = @ + 1, !.users = @ \cup {p},
                           !.value = IF f.users = {} THEN mode[p] ELSE @,
                           !.ratio = IF f.users = {} THEN kernel.ratio ELSE @]]
           /\ Goes(p, "set")
  <2> DEFINE c == [f EXCEPT !.sem = @ + 1, !.users = @ \cup {p},
                            !.value = IF f.users = {} THEN mode[p] ELSE @,
                            !.ratio = IF f.users = {} THEN kernel.ratio ELSE @]
  <2>1. c \in Contents /\ c.users = f.users \cup {p}
    <3> DEFINE v == IF f.users = {} THEN mode[p] ELSE f.value
               r == IF f.users = {} THEN kernel.ratio ELSE f.ratio
               c1 == [f EXCEPT !.sem = @ + 1]
               c2 == [c1 EXCEPT !.users = f.users \cup {p}]
               c3 == [c2 EXCEPT !.value = v]
               c4 == [c3 EXCEPT !.ratio = r]
    <3>1. f.sem + 1 \in Int /\ v \in Modes \cup {0} /\ r \in Int
      BY <1>1, <1>2 DEF Contents
    <3>2. c = [f EXCEPT !.sem = f.sem + 1, !.users = f.users \cup {p}, !.value = v, !.ratio = r]
      BY <1>1 DEF Contents
    <3>7. c = c4
      BY <1>1, <3>2 DEF Contents
    <3> HIDE DEF v, r
    <3>3. c1 \in Contents
      BY <1>1, <3>1 DEF Contents
    <3> HIDE DEF c1
    <3>4. c2 \in Contents /\ c2.users = f.users \cup {p}
      BY <1>1, <1>2, <3>3 DEF Contents
    <3> HIDE DEF c2
    <3>5. c3 \in Contents /\ c3.users = f.users \cup {p}
      BY <3>1, <3>4 DEF Contents
    <3> HIDE DEF c3
    <3>6. c4 \in Contents /\ c4.users = f.users \cup {p}
      BY <3>1, <3>5 DEF Contents
    <3> QED
      BY <3>6, <3>7
  <2>2. files' = [files EXCEPT ![my[p]] = c]
    BY <1>4
  <2> HIDE DEF c
  <2>3. /\ files' \in Seq(Contents) /\ DOMAIN files' = DOMAIN files /\ files'[my[p]] = c
        /\ \A j \in DOMAIN files : j # my[p] => files'[j] = files[j]
    BY <1>1, <2>1, <2>2, Edit DEF OcInv, OcTypeOK
  <2>4. /\ UNCHANGED <<mode, path, kernel, my, crashes>>
        /\ at' = [at EXCEPT ![p] = "set"] /\ at'[p] = "set"
        /\ \A q \in Procs : q # p => at'[q] = at[q]
    BY <1>4 DEF overcommit_in_use, Goes, OcInv, OcTypeOK
  <2>5. OcTypeOK'
    BY <2>3, <2>4 DEF OcInv, OcTypeOK, Places
  <2>6. Opened'
    BY <1>1, <1>2, <2>3, <2>4 DEF OcInv, Opened
  <2>7. Registered'
    <3> SUFFICES ASSUME NEW g \in DOMAIN files', NEW s \in files'[g].users
                 PROVE  my'[s] = g /\ at'[s] \in {"set", "run", "exit", "unregister", "dead"}
      BY DEF Registered
    <3>1. s \in files[g].users \/ (s = p /\ g = my[p])
      BY <2>1, <2>3
    <3>2. CASE s = p /\ g = my[p]
      BY <2>4, <3>2
    <3>3. CASE s \in files[g].users
      <4>1. g \in DOMAIN files /\ s \in Procs
        BY <2>3, <3>3, FileOK DEF OcInv, Procs
      <4>2. my[s] = g /\ at[s] \in {"set", "run", "exit", "unregister", "dead"}
        BY <3>3, <4>1 DEF OcInv, Registered
      <4> QED
        BY <1>0, <2>4, <4>1, <4>2
    <3> QED
      BY <3>1, <3>2, <3>3
  <2>8. DeadEntries'
    <3>1. \A g \in DOMAIN files' : \A s \in Steps :
            s \in files'[g].users /\ at'[s] = "dead" =>
              g \in DOMAIN files /\ s \in files[g].users /\ at[s] = "dead"
      BY <2>1, <2>3, <2>4 DEF Procs
    <3> QED
      BY <2>4, <3>1 DEF OcInv, DeadEntries
  <2>9. Epilog'
    <3>1. \A q \in Cleaners : at'[q] = at[q] /\ at[q] \in {"start", "dead"}
      BY <1>0, <1>2, <2>4 DEF OcInv, Epilog, Procs
    <3> QED
      BY <3>1 DEF Epilog
  <2> QED
    BY <2>5, <2>6, <2>7, <2>8, <2>9 DEF OcInv
<1> QED
  BY <1>3, <1>4 DEF overcommit_in_use

\* A process moves and leaves the files alone.
LEMMA StayMoves ==
  ASSUME OcInv, NEW p \in Procs, NEW w \in Places,
         at[p] \notin {"done", "dead"}, Goes(p, w),
         UNCHANGED <<mode, files, my, crashes>>, path' \in {path, None},
         kernel' \in [mode : Modes \cup {0}, ratio : Int]
  PROVE  Moves(p, w) /\ OcTypeOK'
BY DEF Moves, Goes, OcInv, OcTypeOK

\* Only a step sets a mode, when no cleaner of its job has started.
LEMMA SetModeInv ==
  ASSUME OcAssumption, OcInv, NEW p \in Procs, SetMode(p)
  PROVE  OcInv'
<1>1. p \in Steps /\ p \notin Cleaners /\ my[p] \in DOMAIN files /\ mode[p] \in Modes
  BY OcAssumption DEF SetMode, OcInv, Opened, OcTypeOK
<1>2. kernel' \in [mode : Modes \cup {0}, ratio : Int]
  BY <1>1 DEF SetMode
<1>3. Moves(p, "run") /\ OcTypeOK'
  BY <1>2, StayMoves DEF SetMode, Places
<1>4. Opened'
  BY <1>1, <1>3, OpenedMoves DEF OcInv, SetMode
<1>5. Registered'
  BY <1>3, RegisteredMoves DEF OcInv
<1>6. DeadEntries'
  BY <1>3, DeadMoves DEF OcInv, SetMode
<1>7. Epilog'
  BY <1>1, <1>3, EpilogMoves DEF OcInv, SetMode
<1> QED
  BY <1>3, <1>4, <1>5, <1>6, <1>7 DEF OcInv

LEMMA ExitInv ==
  ASSUME OcAssumption, OcInv, NEW p \in Procs, slurm_spank_exit(p)
  PROVE  OcInv'
<1>1. p \in Steps /\ p \notin Cleaners /\ my[p] \in DOMAIN files
  BY OcAssumption DEF slurm_spank_exit, OcInv, Opened
<1>2. Moves(p, "exit") /\ OcTypeOK'
  BY StayMoves DEF slurm_spank_exit, Places, OcInv, OcTypeOK
<1>3. Opened'
  BY <1>1, <1>2, OpenedMoves DEF OcInv, slurm_spank_exit
<1>4. Registered'
  BY <1>2, RegisteredMoves DEF OcInv
<1>5. DeadEntries'
  BY <1>2, DeadMoves DEF OcInv, slurm_spank_exit
<1>6. Epilog'
  BY <1>1, <1>2, EpilogMoves DEF OcInv, slurm_spank_exit
<1> QED
  BY <1>2, <1>3, <1>4, <1>5, <1>6 DEF OcInv

\* A step removes its entry. A cleaner removes an entry of a dead step: if no
\* more than one process was killed, there was no other.
LEMMA UnregisterInv ==
  ASSUME OcAssumption, OcInv, NEW p \in Procs, unregister_job(p)
  PROVE  OcInv'
<1> DEFINE f == files[my[p]]
           mine == f.users \cap (IF p \in Steps THEN {p} ELSE Steps)
<1>0. at[p] = "unregister" /\ Goes(p, "destroy") /\ p \in Steps \cup Cleaners
  BY DEF unregister_job, OcInv, Opened
<1>1. my[p] \in DOMAIN files /\ f \in Contents /\ f.users \subseteq Steps
  BY <1>0, OpenFile
<1>2. PICK U : U \in SUBSET f.users /\ files' = [files EXCEPT ![my[p]] = [f EXCEPT !.users = U]]
               /\ ((U = f.users /\ mine = {}) \/ \E u \in mine : U = f.users \ {u})
  <2>1. CASE mine = {} /\ UNCHANGED files
    <3>1. files' = [files EXCEPT ![my[p]] = [f EXCEPT !.users = f.users]]
      BY <1>1, <2>1 DEF Contents, OcInv, OcTypeOK
    <3> QED
      BY <2>1, <3>1
  <2>2. CASE \E u \in mine : files' = [files EXCEPT ![my[p]].users = @ \ {u}]
    <3>1. PICK u \in mine : files' = [files EXCEPT ![my[p]].users = @ \ {u}]
      BY <2>2
    <3>2. files' = [files EXCEPT ![my[p]] = [f EXCEPT !.users = f.users \ {u}]]
      BY <1>1, <3>1
    <3> QED
      BY <3>1, <3>2
  <2> QED
    BY <2>1, <2>2 DEF unregister_job
<1>3. [f EXCEPT !.users = U] \in Contents /\ [f EXCEPT !.users = U].users = U
  BY <1>1, <1>2 DEF Contents
<1>4. /\ Moves(p, "destroy") /\ OcTypeOK' /\ my'[p] \in DOMAIN files' /\ files'[my'[p]].users = U
      /\ UNCHANGED <<my, kernel, crashes>>
  BY <1>0, <1>2, <1>3, EditMoves, ZenonT(40) DEF unregister_job, Places
<1>5. Opened'
  BY <1>4, OpenedMoves DEF OcInv
<1>6. \A g \in DOMAIN files' : p \notin files'[g].users
  <2> SUFFICES ASSUME NEW g \in DOMAIN files', p \in files'[g].users
               PROVE  FALSE
    OBVIOUS
  <2>1. g \in DOMAIN files /\ p \in files[g].users
    BY <1>4 DEF Moves
  <2>2. g = my[p] /\ p \in f.users /\ p \in Steps
    BY <1>1, <2>1 DEF OcInv, Registered
  <2>3. mine = {p}
    BY <2>2
  <2> QED
    BY <1>2, <1>4, <2>2, <2>3
<1>7. Registered'
  BY <1>4, <1>6, RegisteredMoves DEF OcInv
<1>8. DeadEntries'
  BY <1>4, <1>6, DeadMoves DEF OcInv
<1>9. p \in Cleaners /\ crashes <= 1 => U = {}
  <2> SUFFICES ASSUME p \in Cleaners, crashes <= 1, NEW s \in U
               PROVE  FALSE
    BY <1>2
  <2>1. p \notin Steps /\ mine = f.users
    BY <1>1, OcAssumption
  <2>2. PICK u \in f.users : U = f.users \ {u}
    BY <1>2, <2>1
  <2>3. s \in f.users /\ u \in f.users /\ s # u /\ s \in Steps /\ u \in Steps
    BY <1>1, <2>2
  <2>4. at[s] \in {"done", "dead"} /\ at[u] \in {"done", "dead"}
    BY <1>0, <2>3, StepsOver DEF OcInv
  <2>5. at[s] = "dead" /\ at[u] = "dead"
    BY <1>1, <2>3, <2>4 DEF OcInv, Registered
  <2> QED
    BY <1>1, <2>3, <2>5 DEF OcInv, DeadEntries
<1>10. p \in Cleaners => \A s \in Steps : at[s] \in {"done", "dead"}
  BY <1>0, StepsOver DEF OcInv
<1>11. Epilog'
  BY <1>4, <1>9, <1>10, EpilogMoves DEF OcInv
<1> QED
  BY <1>4, <1>5, <1>7, <1>8, <1>11 DEF OcInv

\* The same for a move past unregister_job, and for the tools.
LEMMA LateMoves ==
  ASSUME OcAssumption, OcInv, OcTypeOK', NEW p, NEW w, Moves(p, w), UNCHANGED crashes,
         at[p] \in {"destroy", "reset", "post", "list"} \/ (p \in Tools /\ at[p] = "start"),
         w \in {"destroy", "reset", "post", "done"},
         w # "done" => my'[p] \in DOMAIN files',
         kernel'.mode = kernel.mode \/ kernel'.mode = 0,
         p \in Cleaners /\ crashes <= 1 =>
           /\ w \in {"destroy", "reset"} => files'[my'[p]].users = {}
           /\ w \in {"post", "done"} => kernel'.mode = 0
  PROVE  OcInv'
<1>1. \A f \in DOMAIN files' : p \notin files'[f].users
  BY NoEntry DEF OcInv, Moves
<1>2. p \in Cleaners => \A s \in Steps : at[s] \in {"done", "dead"}
  BY StepsOver, OcAssumption DEF OcInv
<1>3. Opened'
  BY OpenedMoves DEF OcInv
<1>4. Registered'
  BY <1>1, RegisteredMoves DEF OcInv
<1>5. DeadEntries'
  BY <1>1, DeadMoves DEF OcInv
<1>6. Epilog'
  BY <1>2, EpilogMoves DEF OcInv
<1> QED
  BY <1>3, <1>4, <1>5, <1>6 DEF OcInv

\* A cleaner that destroys its context finds no users.
LEMMA UnlinkInv ==
  ASSUME OcAssumption, OcInv, NEW p \in Procs, Unlink(p)
  PROVE  OcInv'
<1>1. my[p] \in DOMAIN files /\ at[p] = "destroy" /\ UNCHANGED <<mode, files, kernel, my, crashes>>
  BY OpenFile DEF Unlink
<1>2. p \in Cleaners /\ crashes <= 1 => files[my[p]].users = {}
  BY <1>1 DEF OcInv, Epilog
<1>3. kernel' \in [mode : Modes \cup {0}, ratio : Int]
  BY <1>1 DEF OcInv, OcTypeOK
<1>4. CASE files[my[p]].users # {} /\ Goes(p, "post") /\ UNCHANGED path
  <2>1. Moves(p, "post") /\ OcTypeOK'
    BY <1>1, <1>3, <1>4, StayMoves DEF Places
  <2> QED
    BY <1>1, <1>2, <1>4, <2>1, LateMoves
<1>5. CASE files[my[p]].users = {} /\ Goes(p, "reset") /\ path' = None
  <2>1. Moves(p, "reset") /\ OcTypeOK'
    BY <1>1, <1>3, <1>5, StayMoves DEF Places
  <2> QED
    BY <1>1, <1>5, <2>1, LateMoves
<1> QED
  BY <1>4, <1>5 DEF Unlink

LEMMA ResetInv ==
  ASSUME OcAssumption, OcInv, NEW p \in Procs, Reset(p)
  PROVE  OcInv'
<1>1. my[p] \in DOMAIN files /\ files[my[p]] \in Contents
  BY OpenFile DEF Reset
<1>2. kernel' \in [mode : Modes \cup {0}, ratio : Int] /\ kernel'.mode = 0
  BY <1>1 DEF Reset, Contents
<1>3. Moves(p, "post") /\ OcTypeOK'
  BY <1>2, StayMoves DEF Reset, Places
<1> QED
  BY <1>1, <1>2, <1>3, LateMoves DEF Reset

LEMMA SemPostInv ==
  ASSUME OcAssumption, OcInv, NEW p \in Procs, SemPost(p)
  PROVE  OcInv'
<1> DEFINE c == [files[my[p]] EXCEPT !.sem = @ + 1]
<1>1. my[p] \in DOMAIN files /\ files[my[p]] \in Contents
  BY OpenFile DEF SemPost
<1>2. c \in Contents /\ c.users = files[my[p]].users
  BY <1>1 DEF Contents
<1>3. files' = [files EXCEPT ![my[p]] = c]
  BY <1>1 DEF SemPost
<1>4. Moves(p, "done") /\ OcTypeOK'
  <2> HIDE DEF c
  <2> QED
    BY <1>2, <1>3, EditMoves DEF SemPost, Places
<1>5. p \in Cleaners /\ crashes <= 1 => kernel'.mode = 0
  BY DEF SemPost, OcInv, Epilog
<1> QED
  BY <1>4, <1>5, LateMoves DEF SemPost

LEMMA ListUsersInv ==
  ASSUME OcAssumption, OcInv, NEW p \in Procs, overcommit_shared_list_users(p)
  PROVE  OcInv'
<1>1. p \in Tools /\ p \notin Cleaners /\ my[p] \in DOMAIN files
  BY OcAssumption DEF overcommit_shared_list_users, OcInv, Opened
<1>2. PICK w \in {"done", "destroy"} : Goes(p, w)
  BY DEF overcommit_shared_list_users
<1>3. Moves(p, w) /\ OcTypeOK'
  BY <1>2, StayMoves DEF overcommit_shared_list_users, Places, OcInv, OcTypeOK
<1> QED
  BY <1>1, <1>2, <1>3, LateMoves DEF overcommit_shared_list_users

LEMMA ForceInv ==
  ASSUME OcAssumption, OcInv, NEW p \in Procs, overcommit_force_cleanup(p)
  PROVE  OcInv'
<1>1. p \in Tools /\ p \notin Cleaners
  BY OcAssumption DEF overcommit_force_cleanup
<1>2. kernel' \in [mode : Modes \cup {0}, ratio : Int] /\ kernel'.mode = 0
  BY DEF overcommit_force_cleanup, OcInv, OcTypeOK
<1>3. Moves(p, "done") /\ OcTypeOK'
  BY <1>2, StayMoves DEF overcommit_force_cleanup, Places
<1> QED
  BY <1>1, <1>2, <1>3, LateMoves DEF overcommit_force_cleanup

\* A killed step may leave its entry: the only one if it is the first.
LEMMA CrashInv ==
  ASSUME OcAssumption, OcInv, NEW p \in Procs, Crash(p)
  PROVE  OcInv'
<1>0. crashes \in Nat /\ crashes' = crashes + 1 /\ at[p] \notin {"done", "dead"}
      /\ UNCHANGED <<mode, path, kernel, my>> /\ Goes(p, "dead")
  BY DEF Crash, OcInv, OcTypeOK
<1>1. /\ files' \in Seq(Contents) /\ DOMAIN files' = DOMAIN files
      /\ \A f \in DOMAIN files : files'[f].users = files[f].users
  <2>1. /\ DOMAIN files' = DOMAIN files
        /\ \A f \in DOMAIN files : files'[f] = [files[f] EXCEPT !.lock = IF @ = p THEN None ELSE @]
    BY DEF Crash
  <2>2. \A f \in DOMAIN files : files'[f] \in Contents /\ files'[f].users = files[f].users
    <3> TAKE f \in DOMAIN files
    <3>1. files[f] \in Contents
      BY FileOK DEF OcInv
    <3> QED
      BY <2>1, <3>1 DEF Contents
  <2>3. files' = [f \in 1 .. Len(files) |-> files'[f]] /\ Len(files) \in Nat
        /\ DOMAIN files = 1 .. Len(files)
    BY DEF Crash, OcInv, OcTypeOK
  <2>4. files' \in Seq(Contents)
    BY <2>2, <2>3
  <2> QED
    BY <2>1, <2>2, <2>4
<1>2. Moves(p, "dead")
  BY <1>0, <1>1 DEF Moves, Goes, Places, OcInv, OcTypeOK
<1>3. OcTypeOK'
  BY <1>0, <1>1 DEF Goes, Places, OcInv, OcTypeOK
<1>4. Opened'
  BY <1>2, OpenedMoves DEF OcInv
<1>5. Registered'
  BY <1>2, RegisteredMoves DEF OcInv
<1>6. DeadEntries'
  <2>1. crashes' <= 1 => \A f \in DOMAIN files' : \A s \in Steps :
          s \in files'[f].users /\ at'[s] = "dead" => s = p
    BY <1>0, <1>1 DEF OcInv, OcTypeOK, DeadEntries, Goes, Procs
  <2> QED
    BY <1>0, <2>1 DEF DeadEntries
<1>7. Epilog'
  <2> SUFFICES ASSUME NEW c \in Cleaners
               PROVE  /\ at'[c] \notin {"start", "dead"} =>
                           \A s \in Steps : at'[s] \in {"done", "dead"}
                      /\ crashes' <= 1 /\ at'[c] \in {"destroy", "reset"} =>
                           files'[my'[c]].users = {}
                      /\ crashes' <= 1 /\ at'[c] \in {"post", "done"} => kernel'.mode = 0
    BY DEF Epilog
  <2>1. at'[c] = at[c] \/ at'[c] = "dead"
    BY <1>0 DEF Goes, OcInv, OcTypeOK, Procs
  <2>2. \A s \in Steps : at'[s] = at[s] \/ at'[s] = "dead"
    BY <1>0 DEF Goes, OcInv, OcTypeOK, Procs
  <2>3. at[c] \in {"destroy", "reset"} => my[c] \in DOMAIN files
    BY DEF OcInv, Opened, Procs
  <2> QED
    BY <1>0, <1>1, <2>1, <2>2, <2>3 DEF OcInv, Epilog
<1> QED
  BY <1>3, <1>4, <1>5, <1>6, <1>7 DEF OcInv

-----------------------------------------------------------------------------
(* The theorems.                                                           *)

LEMMA OcStart == OcInit => OcInv
<1> SUFFICES ASSUME OcInit PROVE OcInv
  OBVIOUS
<1>1. at = [p \in Procs |-> "start"] /\ files = <<>> /\ DOMAIN files = {}
  BY DEF OcInit
<1>2. OcTypeOK
  BY <1>1 DEF OcInit, OcTypeOK, Places
<1>3. Opened /\ Registered /\ DeadEntries
  BY <1>1 DEF Opened, Registered, DeadEntries
<1>4. Epilog
  BY <1>1 DEF Epilog, Procs
<1> QED
  BY <1>2, <1>3, <1>4 DEF OcInv

LEMMA OcStep == OcAssumption /\ OcInv /\ [OcNext]_ocvars => OcInv'
<1> SUFFICES ASSUME OcAssumption, OcInv, [OcNext]_ocvars PROVE OcInv'
  OBVIOUS
<1>1. CASE UNCHANGED ocvars
  BY <1>1 DEF ocvars, OcInv, OcTypeOK, Opened, Registered, DeadEntries, Epilog
<1>2. CASE OcNext
  <2>1. PICK p \in Procs :
          \/ Create(p) \/ Open(p) \/ Attach(p) \/ Lock(p) \/ Truncate(p) \/ InitShared(p)
          \/ Unlock(p) \/ SemWait(p) \/ overcommit_in_use(p) \/ SetMode(p) \/ slurm_spank_exit(p)
          \/ unregister_job(p) \/ Unlink(p) \/ Reset(p) \/ SemPost(p)
          \/ overcommit_shared_list_users(p) \/ overcommit_force_cleanup(p) \/ Crash(p)
    BY <1>2 DEF OcNext
  <2> QED
    BY <2>1, CreateInv, OpenInv, AttachInv, LockInv, TruncateInv, InitSharedInv, UnlockInv,
       SemWaitInv, InUseInv, SetModeInv, ExitInv, UnregisterInv, UnlinkInv, ResetInv, SemPostInv,
       ListUsersInv, ForceInv, CrashInv
<1> QED
  BY <1>1, <1>2

\* Who has an entry in which file, and what a cleaner of the job finds, in every
\* reachable state: the invariant that the other theorem rests on.
THEOREM OcInvariance == OcSpec => []OcInv
BY OcAssumption, OcStart, OcStep, PTL DEF OcSpec

\* Once the cleanup of overcommit-memory's epilog has ended, the kernel is in its
\* default mode, if no more than one process was killed, whenever it was.
THEOREM CleanupRestoresMode == OcSpec => []CleanupRestores
<1>1. OcInv => CleanupRestores
  BY DEF OcInv, Epilog, CleanupRestores
<1> QED
  BY <1>1, OcInvariance, PTL

-----------------------------------------------------------------------------
(* system-safe: system() returns the status of its own command             *)
(* (OwnResult), for every number of calls and every death of task and      *)
(* server. Requests and results in transit are tuples of a few parts; the  *)
(* first lemmas say what writing and reading make of them.                 *)

-----------------------------------------------------------------------------
(* Tuples.                                                                 *)

LEMMA AppendTwo ==
  ASSUME NEW x, NEW y
  PROVE  Append(<<x>>, y) = <<x, y>>
<1> DEFINE s == Append(<<x>>, y)
           S == {x, y}
<1>1. <<x>> \in Seq(S) /\ Len(<<x>>) = 1
  OBVIOUS
<1>2. s \in Seq(S) /\ Len(s) = 2 /\ s[1] = x /\ s[2] = y
  BY <1>1
<1> HIDE DEF s, S
<1>3. s = <<x, y>>
  BY <1>2
<1> QED
  BY <1>3 DEF s

LEMMA AppendThree ==
  ASSUME NEW x, NEW y, NEW z
  PROVE  Append(<<x, y>>, z) = <<x, y, z>>
<1> DEFINE s == Append(<<x, y>>, z)
           S == {x, y, z}
<1>1. <<x, y>> \in Seq(S) /\ Len(<<x, y>>) = 2
  OBVIOUS
<1>2. s \in Seq(S) /\ Len(s) = 3 /\ s[1] = x /\ s[2] = y /\ s[3] = z
  BY <1>1
<1> HIDE DEF s, S
<1>3. s = <<x, y, z>>
  BY <1>2
<1> QED
  BY <1>3 DEF s

LEMMA AppendOne ==
  ASSUME NEW x
  PROVE  Append(<<>>, x) = <<x>>
OBVIOUS

LEMMA HeadTuple ==
  ASSUME NEW x, NEW y, NEW z
  PROVE  Head(<<x>>) = x /\ Head(<<x, y>>) = x /\ Head(<<x, y, z>>) = x
OBVIOUS

LEMMA TailTuple ==
  ASSUME NEW x, NEW y, NEW z
  PROVE  Tail(<<x>>) = <<>> /\ Tail(<<x, y>>) = <<y>> /\ Tail(<<x, y, z>>) = <<y, z>>
OBVIOUS

LEMMA SomeTuple ==
  ASSUME NEW x, NEW y, NEW z
  PROVE  <<x>> # <<>> /\ <<x, y>> # <<>> /\ <<x, y, z>> # <<>>
OBVIOUS

\* A sequence of results grows by one.
LEMMA GotMore ==
  ASSUME NEW s \in Seq(Int), NEW r \in Int, NEW t, t = Append(s, r)
  PROVE  /\ t \in Seq(Int) /\ Len(t) = Len(s) + 1 /\ t[Len(s) + 1] = r
         /\ DOMAIN t = DOMAIN s \cup {Len(s) + 1} /\ \A k \in DOMAIN s : t[k] = s[k]
OBVIOUS

-----------------------------------------------------------------------------
(* The plugin and the start.                                               *)

\* While no read has been ended by a signal.
Quiet == interrupts = 0 /\ GotOK /\ EndsOK /\ BeforeCalls /\ InTransit /\ OwnResult

\* It is enough to look at steps from good states to ones without a signal.
LEMMA GoodEnough ==
  ASSUME SafeInv, interrupts' \in Nat, interrupts' >= interrupts,
         Quiet /\ interrupts' = 0 => (GotOK /\ EndsOK /\ BeforeCalls /\ InTransit /\ OwnResult)'
  PROVE  SafeInv'
<1>1. interrupts \in Nat
  BY DEF SafeInv
<1>2. interrupts' = 0 => interrupts = 0
  BY <1>1
<1>3. interrupts = 0 => Quiet
  BY DEF SafeInv, Quiet
<1> QED
  BY <1>2, <1>3 DEF SafeInv

LEMMA PluginInv ==
  ASSUME SafeInv, NEW enabled, NEW words, SafeUserInit(enabled, words)
  PROVE  SafeInv'
BY DEF SafeInv, SafeUserInit, GotOK, EndsOK, BeforeCalls, InTransit, OwnResult, Parts, Calling

LEMMA ForkInv ==
  ASSUME SafeInv, fork_safe_init
  PROVE  SafeInv'
<1>0. interrupts' = interrupts /\ interrupts \in Nat
  BY DEF fork_safe_init, SafeInv
<1> SUFFICES ASSUME Quiet
             PROVE  (GotOK /\ EndsOK /\ BeforeCalls /\ InTransit /\ OwnResult)'
  BY <1>0, GoodEnough
<1>1. /\ caller = "none" /\ server = "none" /\ results = <<>> /\ requests = <<>>
      /\ calls = 0 /\ got = <<>>
  BY DEF Quiet, fork_safe_init, EndsOK, BeforeCalls, GotOK
<1>2. UNCHANGED <<requests, results, calls, got, interrupts, serving>>
  BY DEF fork_safe_init
<1>3. CASE /\ server' = "new" /\ caller' = "forked"
           /\ clientEnd' = {"task", "server"} /\ serverEnd' = {"task", "server"}
  BY <1>1, <1>2, <1>3 DEF Quiet, GotOK, EndsOK, BeforeCalls, InTransit, OwnResult, Calling
<1>4. CASE /\ server' = "not_made" /\ caller' = "idle"
           /\ clientEnd' = {"task"} /\ serverEnd' = {"task"}
  BY <1>1, <1>2, <1>4 DEF Quiet, GotOK, EndsOK, BeforeCalls, InTransit, OwnResult, Calling
<1> QED
  BY <1>3, <1>4 DEF fork_safe_init

LEMMA CreateServerInv ==
  ASSUME SafeInv, create_system_server
  PROVE  SafeInv'
<1>0. interrupts' = interrupts /\ interrupts \in Nat
  BY DEF create_system_server, SafeInv
<1> SUFFICES ASSUME Quiet
             PROVE  (GotOK /\ EndsOK /\ BeforeCalls /\ InTransit /\ OwnResult)'
  BY <1>0, GoodEnough
<1> QED
  BY DEF Quiet, create_system_server, GotOK, EndsOK, BeforeCalls, InTransit, OwnResult, Calling

LEMMA WaitInv ==
  ASSUME SafeInv, WaitForSetup
  PROVE  SafeInv'
<1>0. interrupts' = interrupts /\ interrupts \in Nat
  BY DEF WaitForSetup, SafeInv
<1> SUFFICES ASSUME Quiet
             PROVE  (GotOK /\ EndsOK /\ BeforeCalls /\ InTransit /\ OwnResult)'
  BY <1>0, GoodEnough
<1>1. /\ caller = "wait" /\ caller' = "idle" /\ requests = <<>> /\ calls = 0 /\ got = <<>>
      /\ UNCHANGED <<clientEnd, serverEnd, requests, calls, got, server, serving>>
  BY DEF Quiet, WaitForSetup, BeforeCalls, GotOK
<1>2. server \in {"command", "gone"} /\ results' = <<>>
  <2>1. CASE results = <<>>
    BY <1>1, <2>1 DEF Quiet, WaitForSetup, BeforeCalls, EndsOK
  <2>2. CASE results = <<Setup>>
    BY <1>1, <2>2, TailTuple, SomeTuple DEF Quiet, WaitForSetup, BeforeCalls, EndsOK
  <2> QED
    BY <1>1, <2>1, <2>2 DEF Quiet, BeforeCalls
<1>3. GotOK' /\ EndsOK' /\ BeforeCalls' /\ OwnResult'
  BY <1>1 DEF Quiet, GotOK, EndsOK, BeforeCalls, OwnResult, Calling
<1>4. \A empty \in BOOLEAN : Parts(empty)' = <<>>
  BY <1>1 DEF Parts
<1>5. InTransit'
  BY <1>1, <1>2, <1>4 DEF InTransit
<1> QED
  BY <1>3, <1>5

-----------------------------------------------------------------------------
(* A call.                                                                 *)

\* A task that is gone promises nothing.
LEMMA TaskGone ==
  ASSUME Quiet, caller # "none", caller' \in {"ended", "killed"},
         serverEnd' = serverEnd \ {"task"}, UNCHANGED <<results, calls, got, server>>
  PROVE  (GotOK /\ EndsOK /\ BeforeCalls /\ InTransit /\ OwnResult)'
BY DEF Quiet, GotOK, EndsOK, BeforeCalls, InTransit, OwnResult, Calling

\* What a write does: a server that lives gets the part.
LEMMA WriteEffect ==
  ASSUME Quiet, NEW part, NEW next, Write(part, next), caller \in {"idle"} \cup Calling
  PROVE  \/ caller' = "killed" /\ serverEnd' = serverEnd \ {"task"}
         \/ /\ caller' = next /\ UNCHANGED <<clientEnd, serverEnd>>
            /\ \/ server \in {"gone", "not_made"}
               \/ requests' = Append(requests, part)
<1>1. server \in {"new", "command", "path", "env", "run"} => serverEnd # {}
  BY DEF Quiet, EndsOK
<1>2. server \in {"gone", "not_made"} \/ server \in {"new", "command", "path", "env", "run"}
  BY DEF Quiet, EndsOK, Calling
<1> QED
  BY <1>1, <1>2 DEF Write

LEMMA WriteCommandInv ==
  ASSUME SafeInv, NEW e \in BOOLEAN, WriteCommand(e)
  PROVE  SafeInv'
<1>0. interrupts' = interrupts /\ interrupts \in Nat
  BY DEF WriteCommand, SafeInv
<1> SUFFICES ASSUME Quiet
             PROVE  (GotOK /\ EndsOK /\ BeforeCalls /\ InTransit /\ OwnResult)'
  BY <1>0, GoodEnough
<1> DEFINE part == [call |-> calls + 1, empty |-> e]
<1>1. /\ caller = "idle" /\ calls' = calls + 1 /\ Write(part, "path")
      /\ UNCHANGED <<results, got, interrupts, server, serving>>
  BY DEF WriteCommand
<1>2. /\ calls \in Nat /\ Len(got) = calls /\ results = <<>>
      /\ \/ server \in {"gone", "not_made"}
         \/ server = "command" /\ requests = <<>>
  BY <1>1 DEF Quiet, GotOK, InTransit, Parts, Calling
<1>3. CASE caller' = "killed" /\ serverEnd' = serverEnd \ {"task"}
  BY <1>1, <1>2, <1>3 DEF Quiet, GotOK, EndsOK, BeforeCalls, InTransit, OwnResult, Calling
<1>4. CASE /\ caller' = "path" /\ UNCHANGED <<clientEnd, serverEnd>>
           /\ server \in {"gone", "not_made"} \/ requests' = Append(requests, part)
  <2>1. (GotOK /\ EndsOK /\ BeforeCalls /\ OwnResult)'
    BY <1>0, <1>1, <1>2, <1>4 DEF Quiet, GotOK, EndsOK, BeforeCalls, OwnResult, Calling
  <2>2. Parts(e)' = <<part>>
    BY <1>1, <1>4 DEF Parts
  <2>3. server = "command" => requests' = Parts(e)'
    BY <1>2, <1>4, <2>2, AppendOne
  <2>4. InTransit'
    BY <1>1, <1>2, <1>4, <2>3 DEF InTransit
  <2> QED
    BY <2>1, <2>4
<1> QED
  BY <1>1, <1>3, <1>4, WriteEffect

LEMMA WritePathInv ==
  ASSUME SafeInv, WritePath
  PROVE  SafeInv'
<1>0. interrupts' = interrupts /\ interrupts \in Nat
  BY DEF WritePath, SafeInv
<1> SUFFICES ASSUME Quiet
             PROVE  (GotOK /\ EndsOK /\ BeforeCalls /\ InTransit /\ OwnResult)'
  BY <1>0, GoodEnough
<1>1. /\ caller = "path" /\ caller \in Calling /\ Write("path", "env")
      /\ UNCHANGED <<results, calls, got, interrupts, server, serving>>
  BY DEF WritePath, Calling
<1>2. CASE caller' = "killed" /\ serverEnd' = serverEnd \ {"task"}
  BY <1>1, <1>2, TaskGone
<1>3. CASE /\ caller' = "env" /\ UNCHANGED <<clientEnd, serverEnd>>
           /\ server \in {"gone", "not_made"} \/ requests' = Append(requests, "path")
  <2>1. (GotOK /\ EndsOK /\ BeforeCalls /\ OwnResult)'
    BY <1>0, <1>1, <1>3 DEF Quiet, GotOK, EndsOK, BeforeCalls, OwnResult, Calling
  <2>2. results = <<>>
    BY <1>1 DEF Quiet, InTransit
  <2>3. CASE server \in {"gone", "not_made"}
    BY <1>1, <1>3, <2>1, <2>2, <2>3 DEF InTransit
  <2>4. CASE server = "command"
    <3>1. PICK e \in BOOLEAN : requests = Parts(e)
      BY <1>1, <2>4 DEF Quiet, InTransit
    <3>2. requests = <<[call |-> calls, empty |-> e]>>
      BY <1>1, <3>1 DEF Parts
    <3>3. Parts(e)' = <<[call |-> calls, empty |-> e], "path">>
      BY <1>1, <1>3 DEF Parts
    <3>4. requests' = Parts(e)'
      BY <1>3, <2>4, <3>2, <3>3, AppendTwo
    <3> QED
      BY <1>1, <1>3, <2>1, <2>2, <2>4, <3>4 DEF InTransit
  <2>5. CASE server = "path"
    <3>1. requests = <<>> /\ serving = calls
      BY <1>1, <2>5 DEF Quiet, InTransit
    <3>2. requests' = <<"path">>
      BY <1>3, <2>5, <3>1, AppendOne
    <3> QED
      BY <1>1, <1>3, <2>1, <2>2, <2>5, <3>1, <3>2 DEF InTransit, Calling
  <2>6. server \in {"gone", "not_made", "command", "path"}
    BY <1>1 DEF Quiet, InTransit
  <2> QED
    BY <2>1, <2>3, <2>4, <2>5, <2>6
<1> QED
  BY <1>1, <1>2, <1>3, WriteEffect

LEMMA WriteEnvInv ==
  ASSUME SafeInv, WriteEnv
  PROVE  SafeInv'
<1>0. interrupts' = interrupts /\ interrupts \in Nat
  BY DEF WriteEnv, SafeInv
<1> SUFFICES ASSUME Quiet
             PROVE  (GotOK /\ EndsOK /\ BeforeCalls /\ InTransit /\ OwnResult)'
  BY <1>0, GoodEnough
<1>1. /\ caller = "env" /\ caller \in Calling /\ Write("env", "read")
      /\ UNCHANGED <<results, calls, got, interrupts, server, serving>>
  BY DEF WriteEnv, Calling
<1>2. CASE caller' = "killed" /\ serverEnd' = serverEnd \ {"task"}
  BY <1>1, <1>2, TaskGone
<1>3. CASE /\ caller' = "read" /\ UNCHANGED <<clientEnd, serverEnd>>
           /\ server \in {"gone", "not_made"} \/ requests' = Append(requests, "env")
  <2>1. (GotOK /\ EndsOK /\ BeforeCalls /\ OwnResult)'
    BY <1>0, <1>1, <1>3 DEF Quiet, GotOK, EndsOK, BeforeCalls, OwnResult, Calling
  <2>2. results = <<>>
    BY <1>1 DEF Quiet, InTransit
  <2>3. CASE server \in {"gone", "not_made"}
    BY <1>1, <1>3, <2>1, <2>2, <2>3 DEF InTransit
  <2>4. CASE server = "command"
    <3>1. PICK e \in BOOLEAN : requests = Parts(e)
      BY <1>1, <2>4 DEF Quiet, InTransit
    <3>2. requests = <<[call |-> calls, empty |-> e], "path">>
      BY <1>1, <3>1 DEF Parts
    <3>3. Parts(e)' = <<[call |-> calls, empty |-> e], "path", "env">>
      BY <1>1, <1>3 DEF Parts
    <3>4. requests' = Parts(e)'
      BY <1>3, <2>4, <3>2, <3>3, AppendThree
    <3> QED
      BY <1>1, <1>3, <2>1, <2>2, <2>4, <3>4 DEF InTransit
  <2>5. CASE server = "path"
    <3>1. requests = <<"path">> /\ serving = calls
      BY <1>1, <2>5 DEF Quiet, InTransit
    <3>2. requests' = <<"path", "env">>
      BY <1>3, <2>5, <3>1, AppendTwo
    <3> QED
      BY <1>1, <1>3, <2>1, <2>2, <2>5, <3>1, <3>2 DEF InTransit, Calling
  <2>6. CASE server = "env"
    <3>1. requests = <<>> /\ serving = calls
      BY <1>1, <2>6 DEF Quiet, InTransit
    <3>2. requests' = <<"env">>
      BY <1>3, <2>6, <3>1, AppendOne
    <3> QED
      BY <1>1, <1>3, <2>1, <2>2, <2>6, <3>1, <3>2 DEF InTransit
  <2>7. server \in {"gone", "not_made", "command", "path", "env"}
    BY <1>1 DEF Quiet, InTransit
  <2> QED
    BY <2>1, <2>3, <2>4, <2>5, <2>6, <2>7
<1> QED
  BY <1>1, <1>2, <1>3, WriteEffect

\* The result that is there is the call's own; without one the server is gone.
LEMMA ReadResultInv ==
  ASSUME SafeInv, ReadResult
  PROVE  SafeInv'
<1>0. interrupts \in Nat /\ interrupts' \in Nat /\ interrupts' >= interrupts
  BY DEF ReadResult, SafeInv
<1> SUFFICES ASSUME Quiet, interrupts' = 0
             PROVE  (GotOK /\ EndsOK /\ BeforeCalls /\ InTransit /\ OwnResult)'
  BY <1>0, GoodEnough
<1>1. /\ caller = "read" /\ caller \in Calling /\ caller' = "idle" /\ calls = Len(got) + 1
      /\ got \in Seq(Int) /\ calls \in Nat /\ interrupts = 0
      /\ UNCHANGED <<clientEnd, serverEnd, requests, calls, server, serving>>
  BY DEF ReadResult, Quiet, GotOK, Calling
<1>2. results = <<>> \/ results = <<calls>>
  BY <1>1 DEF Quiet, InTransit
<1>3. results' = <<>> /\ \E r \in {calls, Error, Undefined} : got' = Append(got, r)
  <2>1. CASE results = <<calls>>
    BY <2>1, SomeTuple, HeadTuple, TailTuple DEF ReadResult
  <2>2. CASE results = <<>>
    BY <1>1, <2>2 DEF ReadResult
  <2> QED
    BY <1>2, <2>1, <2>2
<1>4. PICK r \in {calls, Error, Undefined} : got' = Append(got, r)
  BY <1>3
<1>5. r \in Int
  BY <1>1 DEF Error, Undefined
<1>6. /\ got' \in Seq(Int) /\ Len(got') = calls /\ got'[calls] = r
      /\ DOMAIN got' = DOMAIN got \cup {calls} /\ \A k \in DOMAIN got : got'[k] = got[k]
  BY <1>1, <1>4, <1>5, GotMore
<1>7. GotOK' /\ EndsOK' /\ BeforeCalls'
  BY <1>1, <1>6 DEF Quiet, GotOK, EndsOK, BeforeCalls, Calling
<1>8. OwnResult'
  <2>1. calls \notin DOMAIN got /\ \A k \in DOMAIN got : k \in Int /\ k < calls
    BY <1>1
  <2>2. CASE results = <<calls>>
    <3>1. \A k \in DOMAIN got : got[k] = k
      BY <1>1, <2>2, SomeTuple DEF Quiet, OwnResult
    <3>2. got' = Append(got, calls)
      BY <2>2, SomeTuple, HeadTuple DEF ReadResult
    <3>3. \A k \in DOMAIN got' : got'[k] = k
      BY <1>1, <1>6, <3>1, <3>2, GotMore
    <3> QED
      BY <3>3 DEF OwnResult
  <2>3. CASE results = <<>>
    <3>1. serverEnd = {} /\ \E q \in {Error, Undefined} : got' = Append(got, q)
      BY <1>1, <2>3 DEF ReadResult
    <3>2. PICK q \in {Error, Undefined} : got' = Append(got, q)
      BY <3>1
    <3>3. got'[calls] = q /\ q # calls
      BY <1>1, <3>2, GotMore DEF Error, Undefined
    <3>4. server = "gone"
      BY <1>1, <3>1 DEF Quiet, EndsOK, InTransit, Calling
    <3>5. \A k \in DOMAIN got : got[k] # k =>
            got[k] \in {Error, Undefined} /\ \A j \in DOMAIN got : j > k => got[j] # j
      BY <1>1 DEF Quiet, OwnResult
    <3>6. \A k \in DOMAIN got' : got'[k] # k =>
            got'[k] \in {Error, Undefined} /\ \A j \in DOMAIN got' : j > k => got'[j] # j
      <4> SUFFICES ASSUME NEW k \in DOMAIN got', got'[k] # k
                   PROVE  got'[k] \in {Error, Undefined}
                          /\ \A j \in DOMAIN got' : j > k => got'[j] # j
        OBVIOUS
      <4>1. CASE k = calls
        BY <1>1, <1>6, <2>1, <3>3, <4>1
      <4>2. CASE k \in DOMAIN got
        BY <1>1, <1>6, <2>1, <3>3, <3>5, <4>2
      <4> QED
        BY <1>6, <4>1, <4>2
    <3>7. server' = "gone" /\ results' = <<>>
      BY <1>1, <1>3, <3>4
    <3> QED
      BY <3>6, <3>7 DEF OwnResult
  <2> QED
    BY <1>2, <2>2, <2>3
<1>9. InTransit'
  <2>1. server \in {"gone", "not_made"} \/ (server = "command" /\ requests = <<>>)
    <3>1. CASE results = <<calls>>
      BY <1>1, <3>1, SomeTuple DEF Quiet, InTransit
    <3>2. CASE results = <<>>
      <4>1. serverEnd = {}
        BY <1>1, <3>2 DEF ReadResult
      <4> QED
        BY <1>1, <4>1 DEF Quiet, EndsOK, InTransit, Calling
    <3> QED
      BY <1>2, <3>1, <3>2
  <2>2. \A e \in BOOLEAN : Parts(e)' = <<>>
    BY <1>1 DEF Parts
  <2> QED
    BY <1>1, <1>3, <2>1, <2>2 DEF InTransit
<1> QED
  BY <1>7, <1>8, <1>9

LEMMA TaskDiesInv ==
  ASSUME SafeInv, TaskDies
  PROVE  SafeInv'
<1>0. interrupts' = interrupts /\ interrupts \in Nat
  BY DEF TaskDies, SafeInv
<1> SUFFICES ASSUME Quiet
             PROVE  (GotOK /\ EndsOK /\ BeforeCalls /\ InTransit /\ OwnResult)'
  BY <1>0, GoodEnough
<1> QED
  BY TaskGone DEF TaskDies

-----------------------------------------------------------------------------
(* The server.                                                             *)

\* A server that is gone leaves a result for the call that is being made, if any.
LEMMA ServerLost ==
  ASSUME Quiet, ServerGone, server \notin {"none", "not_made"},
         UNCHANGED <<results, caller, calls, got, interrupts>>,
         UNCHANGED requests \/ caller \in {"idle"} \cup Calling
  PROVE  (GotOK /\ EndsOK /\ BeforeCalls /\ InTransit /\ OwnResult)'
<1>1. GotOK' /\ OwnResult'
  <2>1. GotOK'
    BY DEF Quiet, GotOK, Calling
  <2>2. server' = "gone"
    BY DEF ServerGone
  <2>3. OwnResult'
    BY <2>2 DEF Quiet, OwnResult
  <2> QED
    BY <2>1, <2>3
<1>2. EndsOK'
  BY DEF Quiet, EndsOK, ServerGone, Calling
<1>3. BeforeCalls'
  BY DEF Quiet, BeforeCalls, ServerGone, Calling
<1>4. InTransit'
  BY DEF Quiet, InTransit, ServerGone, Calling
<1> QED
  BY <1>1, <1>2, <1>3, <1>4

\* The byte is written before the first call.
LEMMA SystemServerInv ==
  ASSUME SafeInv, SystemServer
  PROVE  SafeInv'
<1>0. interrupts' = interrupts /\ interrupts \in Nat
  BY DEF SystemServer, SafeInv
<1> SUFFICES ASSUME Quiet
             PROVE  (GotOK /\ EndsOK /\ BeforeCalls /\ InTransit /\ OwnResult)'
  BY <1>0, GoodEnough
<1>1. server = "new" /\ UNCHANGED <<requests, caller, calls, got, interrupts, serving>>
  BY DEF SystemServer
<1>2. caller \notin {"idle"} \cup Calling
  BY <1>1 DEF Quiet, InTransit
<1>3. CASE "task" \in clientEnd
  <2>1. /\ results' = Append(results, Setup) /\ server' = "command"
        /\ clientEnd' = clientEnd \ {"server"} /\ UNCHANGED serverEnd
    BY <1>3 DEF SystemServer
  <2>2. caller \in {"none", "forked", "wait"} => results' = <<Setup>>
    BY <1>1, <2>1, AppendOne DEF Quiet, BeforeCalls
  <2>3. GotOK' /\ OwnResult' /\ InTransit'
    BY <1>1, <1>2 DEF Quiet, GotOK, OwnResult, InTransit, Calling
  <2>4. EndsOK'
    BY <1>1, <1>2, <2>1 DEF Quiet, EndsOK
  <2>5. BeforeCalls'
    BY <1>1, <2>1, <2>2 DEF Quiet, BeforeCalls
  <2> QED
    BY <2>3, <2>4, <2>5
<1>4. CASE "task" \notin clientEnd
  BY <1>1, <1>4, ServerLost DEF SystemServer
<1> QED
  BY <1>3, <1>4

\* No end of file while the task lives.
LEMMA NotEnded ==
  ASSUME Quiet, EndOfFile
  PROVE  caller \notin {"forked", "wait", "idle"} \cup Calling
BY DEF Quiet, EndsOK, EndOfFile

\* A server that reads, runs or answers keeps its end; a task that is gone asks
\* for nothing.
LEMMA ServerLives ==
  ASSUME Quiet, server \in {"command", "path", "env", "run"},
         server' \in {"command", "path", "env", "run"},
         UNCHANGED <<clientEnd, serverEnd, caller, calls, got, interrupts>>
  PROVE  (GotOK /\ EndsOK /\ OwnResult)'
BY DEF Quiet, GotOK, EndsOK, OwnResult, Calling

LEMMA ServerDiesInv ==
  ASSUME SafeInv, ServerDies
  PROVE  SafeInv'
<1>0. interrupts' = interrupts /\ interrupts \in Nat
  BY DEF ServerDies, SafeInv
<1> SUFFICES ASSUME Quiet
             PROVE  (GotOK /\ EndsOK /\ BeforeCalls /\ InTransit /\ OwnResult)'
  BY <1>0, GoodEnough
<1> QED
  BY ServerLost DEF ServerDies

LEMMA ReadCommandInv ==
  ASSUME SafeInv, ReadCommand
  PROVE  SafeInv'
<1>0. interrupts' = interrupts /\ interrupts \in Nat
  BY DEF ReadCommand, SafeInv
<1> SUFFICES ASSUME Quiet
             PROVE  (GotOK /\ EndsOK /\ BeforeCalls /\ InTransit /\ OwnResult)'
  BY <1>0, GoodEnough
<1>1. server = "command" /\ UNCHANGED <<results, caller, calls, got, interrupts>>
  BY DEF ReadCommand
<1>2. requests # <<>> => caller \notin {"none", "forked", "wait"}
  BY DEF Quiet, BeforeCalls
<1>3. CASE EndOfFile /\ ServerGone /\ UNCHANGED <<requests, serving>>
  BY <1>1, <1>3, ServerLost
<1>4. CASE requests # <<>> /\ ServerGone
  <2>1. CASE caller \in {"idle"} \cup Calling
    BY <1>1, <1>4, <2>1, ServerLost
  <2>2. CASE caller \in {"ended", "killed"}
    BY <1>1, <1>4, <2>2
       DEF Quiet, GotOK, EndsOK, BeforeCalls, InTransit, OwnResult, ServerGone, Calling
  <2> QED
    BY <1>2, <1>4, <2>1, <2>2 DEF Quiet, EndsOK
<1>5. CASE /\ requests # <<>> /\ serving' = Head(requests).call /\ requests' = Tail(requests)
           /\ server' = "path" /\ UNCHANGED <<clientEnd, serverEnd>>
  <2>1. (GotOK /\ EndsOK /\ OwnResult)'
    BY <1>1, <1>5, ServerLives
  <2>2. BeforeCalls'
    BY <1>1, <1>2, <1>5 DEF BeforeCalls
  <2>3. InTransit'
    <3> SUFFICES ASSUME caller \in {"idle"} \cup Calling
                 PROVE  InTransit'
      BY <1>1 DEF InTransit
    <3>1. PICK e \in BOOLEAN : requests = Parts(e) /\ results = <<>>
      BY <1>1, <1>5 DEF Quiet, InTransit
    <3>2. caller \in Calling
      BY <1>5, <3>1 DEF Parts
    <3> DEFINE head == [call |-> calls, empty |-> e]
    <3>3. CASE caller = "path"
      <4>1. requests = <<head>>
        BY <3>1, <3>3 DEF Parts
      <4>2. serving' = calls /\ requests' = <<>>
        BY <1>5, <4>1, HeadTuple, TailTuple
      <4> QED
        BY <1>1, <1>5, <3>1, <3>2, <3>3, <4>2 DEF InTransit
    <3>4. CASE caller = "env"
      <4>1. requests = <<head, "path">>
        BY <3>1, <3>4 DEF Parts
      <4>2. serving' = calls /\ requests' = <<"path">>
        BY <1>5, <4>1, HeadTuple, TailTuple
      <4> QED
        BY <1>1, <1>5, <3>1, <3>2, <3>4, <4>2 DEF InTransit
    <3>5. CASE caller = "read"
      <4>1. requests = <<head, "path", "env">>
        BY <3>1, <3>5 DEF Parts
      <4>2. serving' = calls /\ requests' = <<"path", "env">>
        BY <1>5, <4>1, HeadTuple, TailTuple
      <4> QED
        BY <1>1, <1>5, <3>1, <3>2, <3>5, <4>2 DEF InTransit
    <3> QED
      BY <3>2, <3>3, <3>4, <3>5 DEF Calling
  <2> QED
    BY <2>1, <2>2, <2>3
<1> QED
  BY <1>3, <1>4, <1>5 DEF ReadCommand

LEMMA ReadRestInv ==
  ASSUME SafeInv, ReadRest
  PROVE  SafeInv'
<1>0. interrupts' = interrupts /\ interrupts \in Nat
  BY DEF ReadRest, SafeInv
<1> SUFFICES ASSUME Quiet
             PROVE  (GotOK /\ EndsOK /\ BeforeCalls /\ InTransit /\ OwnResult)'
  BY <1>0, GoodEnough
<1>1. /\ server \in {"path", "env"}
      /\ UNCHANGED <<results, caller, calls, got, interrupts, serving>>
  BY DEF ReadRest
<1>2. CASE EndOfFile /\ ServerGone /\ UNCHANGED requests
  BY <1>1, <1>2, ServerLost
<1>3. CASE /\ requests # <<>> \/ EndOfFile
           /\ requests' = IF requests = <<>> THEN requests ELSE Tail(requests)
           /\ server' = IF server = "path" THEN "env" ELSE "run"
           /\ UNCHANGED <<clientEnd, serverEnd>>
  <2>1. (GotOK /\ EndsOK /\ OwnResult)'
    BY <1>1, <1>3, ServerLives
  <2>2. BeforeCalls'
    BY <1>1 DEF Quiet, BeforeCalls
  <2>3. InTransit'
    <3> SUFFICES ASSUME caller \in {"idle"} \cup Calling
                 PROVE  InTransit'
      BY <1>1 DEF InTransit
    <3>1. requests # <<>> /\ requests' = Tail(requests)
      BY <1>3, NotEnded
    <3>2. serving = calls /\ results = <<>> /\ caller \in {"env", "read"}
      BY <1>1, <3>1 DEF Quiet, InTransit, Calling
    <3>3. CASE server = "path" /\ caller = "env"
      <4>1. requests = <<"path">>
        BY <3>3 DEF Quiet, InTransit
      <4>2. requests' = <<>>
        BY <3>1, <4>1, TailTuple
      <4> QED
        BY <1>1, <1>3, <3>2, <3>3, <4>2 DEF InTransit
    <3>4. CASE server = "path" /\ caller = "read"
      <4>1. requests = <<"path", "env">>
        BY <3>4 DEF Quiet, InTransit
      <4>2. requests' = <<"env">>
        BY <3>1, <4>1, TailTuple
      <4> QED
        BY <1>1, <1>3, <3>2, <3>4, <4>2 DEF InTransit
    <3>5. CASE server = "env"
      <4>1. caller = "read" /\ requests = <<"env">>
        BY <3>1, <3>5 DEF Quiet, InTransit
      <4>2. requests' = <<>>
        BY <3>1, <4>1, TailTuple
      <4> QED
        BY <1>1, <1>3, <3>2, <3>5, <4>1, <4>2 DEF InTransit
    <3> QED
      BY <1>1, <3>2, <3>3, <3>4, <3>5
  <2> QED
    BY <2>1, <2>2, <2>3
<1> QED
  BY <1>2, <1>3 DEF ReadRest

\* The status goes to the call whose command it is.
LEMMA RunCommandInv ==
  ASSUME SafeInv, RunCommand
  PROVE  SafeInv'
<1>0. interrupts' = interrupts /\ interrupts \in Nat
  BY DEF RunCommand, SafeInv
<1> SUFFICES ASSUME Quiet
             PROVE  (GotOK /\ EndsOK /\ BeforeCalls /\ InTransit /\ OwnResult)'
  BY <1>0, GoodEnough
<1>1. server = "run" /\ UNCHANGED <<requests, caller, calls, got, interrupts, serving>>
  BY DEF RunCommand
<1>2. CASE clientEnd = {}
  BY <1>1, <1>2, ServerLost DEF RunCommand
<1>3. CASE clientEnd # {}
  <2>1. /\ results' = Append(results, serving) /\ server' = "command"
        /\ UNCHANGED <<clientEnd, serverEnd>>
    BY <1>3 DEF RunCommand
  <2>2. (GotOK /\ EndsOK /\ OwnResult)'
    BY <1>1, <2>1, ServerLives
  <2>3. BeforeCalls'
    BY <1>1 DEF Quiet, BeforeCalls
  <2>4. InTransit'
    <3> SUFFICES ASSUME caller \in {"idle"} \cup Calling
                 PROVE  InTransit'
      BY <1>1 DEF InTransit
    <3>1. caller = "read" /\ requests = <<>> /\ serving = calls /\ results = <<>>
      BY <1>1 DEF Quiet, InTransit
    <3>2. results' = <<calls>>
      BY <2>1, <3>1, AppendOne
    <3> QED
      BY <1>1, <2>1, <3>1, <3>2 DEF InTransit
  <2> QED
    BY <2>2, <2>3, <2>4
<1> QED
  BY <1>2, <1>3

-----------------------------------------------------------------------------
(* The theorems.                                                           *)

LEMMA SafeStart == SafeInit => SafeInv
BY DEF SafeInit, SafeInv, GotOK, EndsOK, BeforeCalls, InTransit, OwnResult, Calling

LEMMA SafeStep == SafeInv /\ [SafeNext]_safevars => SafeInv'
<1> SUFFICES ASSUME SafeInv, [SafeNext]_safevars PROVE SafeInv'
  OBVIOUS
<1>1. CASE UNCHANGED safevars
  BY <1>1 DEF safevars, SafeInv, GotOK, EndsOK, BeforeCalls, InTransit, OwnResult, Parts, Calling
<1>2. CASE SafeNext
  BY <1>2, PluginInv, ForkInv, CreateServerInv, WaitInv, WriteCommandInv, WritePathInv, WriteEnvInv,
     ReadResultInv, TaskDiesInv, SystemServerInv, ReadCommandInv, ReadRestInv, RunCommandInv,
     ServerDiesInv DEF SafeNext, Caller, Server
<1> QED
  BY <1>1, <1>2

\* What is between caller and server belongs to the call that is being made, in
\* every reachable state, until a signal ends a read.
THEOREM SafeInvariance == SafeSpec => []SafeInv
BY SafeStart, SafeStep, PTL DEF SafeSpec

\* Until a signal ends a read, system() returns the status of its own command, or
\* the server is gone without an answer and this call and all later ones fail
\* (with -1 or an rc never set), for every number of calls and whenever task and
\* server die.
THEOREM StatusIsOwn == SafeSpec => []OwnResult
<1>1. SafeInv => OwnResult
  BY DEF SafeInv, OwnResult
<1> QED
  BY <1>1, SafeInvariance, PTL

-----------------------------------------------------------------------------
(* lua: every script that is kept runs its functions once and in order     *)
(* (EachCalledOnce), broken ones cost no other its place                   *)
(* (BrokenScriptsAlone), and options lead to their scripts (OptionOwner),  *)
(* for every match and all that scripts may define. The first lemmas are   *)
(* about sequences and about the loops over the list.                      *)

LEMMA RemoveAtIs ==
  ASSUME NEW S, NEW s \in Seq(S), NEW k \in 1 .. Len(s)
  PROVE  /\ RemoveAt(s, k) \in Seq(S) /\ Len(RemoveAt(s, k)) = Len(s) - 1
         /\ \A n \in 1 .. Len(s) - 1 : RemoveAt(s, k)[n] = IF n < k THEN s[n] ELSE s[n + 1]
<1> DEFINE t == SubSeq(s, 1, k - 1)
           u == SubSeq(s, k + 1, Len(s))
<1>1. /\ t \in Seq(S) /\ Len(t) = k - 1
      /\ \A n \in 1 .. k - 1 : t[n] = s[n]
  OBVIOUS
<1>2. /\ u \in Seq(S) /\ Len(u) = Len(s) - k
      /\ \A n \in 1 .. Len(s) - k : u[n] = s[k + n]
  <2>1. k + 1 \in 1 .. Len(s) + 1
    OBVIOUS
  <2> QED
    BY <2>1
<1>3. RemoveAt(s, k) = t \o u
  BY DEF RemoveAt
<1> HIDE DEF t, u
<1>4. t \o u \in Seq(S) /\ Len(t \o u) = Len(s) - 1
  BY <1>1, <1>2
<1>5. ASSUME NEW n \in 1 .. Len(s) - 1
      PROVE  (t \o u)[n] = IF n < k THEN s[n] ELSE s[n + 1]
  <2>1. (t \o u)[n] = IF n <= k - 1 THEN t[n] ELSE u[n - (k - 1)]
    BY <1>1, <1>2, SMTT(40)
  <2>2. CASE n >= k
    <3>1. n - (k - 1) \in 1 .. Len(s) - k /\ k + (n - (k - 1)) = n + 1
      BY <2>2
    <3> QED
      BY <1>2, <2>1, <2>2, <3>1
  <2> QED
    BY <1>1, <2>1, <2>2
<1> QED
  BY <1>3, <1>4, <1>5

LEMMA RangeIs ==
  ASSUME NEW S, NEW s \in Seq(S)
  PROVE  /\ \A x : x \in Range(s) <=> \E i \in 1 .. Len(s) : s[i] = x
         /\ \A i \in 1 .. Len(s) : s[i] \in Range(s)
BY DEF Range

LEMMA ReverseIs ==
  ASSUME NEW S, NEW s \in Seq(S), IsInjective(s)
  PROVE  /\ Reverse(s) \in Seq(S) /\ Len(Reverse(s)) = Len(s)
         /\ IsInjective(Reverse(s)) /\ Range(Reverse(s)) = Range(s)
<1> DEFINE r == Reverse(s)
<1>1. r \in Seq(S) /\ Len(r) = Len(s) /\ \A i \in 1 .. Len(s) : r[i] = s[(Len(s) - i) + 1]
  BY DEF Reverse
<1> HIDE DEF r
<1>2. /\ Len(s) \in Nat /\ DOMAIN s = 1 .. Len(s) /\ DOMAIN r = 1 .. Len(s)
      /\ \A i \in 1 .. Len(s) : (Len(s) - i) + 1 \in 1 .. Len(s)
      /\ \A i, j \in 1 .. Len(s) : (Len(s) - i) + 1 = (Len(s) - j) + 1 => i = j
  BY <1>1
<1>3. IsInjective(r)
  BY <1>1, <1>2 DEF IsInjective
<1>4. ASSUME NEW i \in 1 .. Len(s) PROVE s[i] = r[(Len(s) - i) + 1]
  <2>1. (Len(s) - ((Len(s) - i) + 1)) + 1 = i
    BY <1>2
  <2> QED
    BY <1>1, <1>2, <2>1
<1>5. Range(r) = Range(s)
  <2>1. \A i \in 1 .. Len(s) : r[i] \in Range(s) /\ s[i] \in Range(r)
    BY <1>1, <1>2, <1>4 DEF Range
  <2> QED
    BY <1>2, <2>1 DEF Range
<1> QED
  BY <1>1, <1>3, <1>5 DEF r

\* The place in the list of the script that the loop visits now.
Place == Len(list) - Len(todo) + 1

\* One turn of a loop visits the first script of todo.
LEMMA Turn ==
  ASSUME LuaTypeOK, LoopInv, todo # <<>>
  PROVE  /\ list # Nil /\ Kept = list /\ list \in Seq(DOMAIN Script)
         /\ Place \in 1 .. Len(list) /\ Head(todo) = list[Place] /\ Head(todo) \in DOMAIN Script
         /\ Tail(todo) \in Seq(DOMAIN Script) /\ Len(Tail(todo)) = Len(todo) - 1
         /\ \A i \in 1 .. Len(todo) - 1 : Tail(todo)[i] = list[Place + i]
         /\ Range(todo) = {Head(todo)} \cup Range(Tail(todo))
         /\ Head(todo) \notin Range(Tail(todo))
         /\ Range(todo) \subseteq Scripts
<1>1. todo \in Seq(DOMAIN Script) /\ Len(todo) # 0
  BY DEF LuaTypeOK
<1>2. list # Nil
  BY <1>1 DEF LoopInv, Kept
<1>3. Kept = list /\ list \in Seq(DOMAIN Script) /\ Len(todo) <= Len(list)
      /\ \A i \in 1 .. Len(todo) : todo[i] = list[Len(list) - Len(todo) + i]
  BY <1>1, <1>2 DEF LuaTypeOK, LoopInv, Kept
<1>4. Place \in 1 .. Len(list) /\ Head(todo) = todo[1] /\ todo[1] = list[Place]
  BY <1>1, <1>3 DEF Place
<1>5. /\ Tail(todo) \in Seq(DOMAIN Script) /\ Len(Tail(todo)) = Len(todo) - 1
      /\ \A i \in 1 .. Len(todo) - 1 : Tail(todo)[i] = todo[i + 1]
  BY <1>1
<1>6. \A i \in 1 .. Len(todo) - 1 : todo[i + 1] = list[Place + i] /\ Place + i \in 1 .. Len(list)
  BY <1>1, <1>3, <1>4 DEF Place
<1>7. Range(todo) = {Head(todo)} \cup Range(Tail(todo))
  <2>1. ASSUME NEW i \in 1 .. Len(todo), i # 1 PROVE todo[i] \in Range(Tail(todo))
    <3>1. i - 1 \in 1 .. Len(todo) - 1 /\ (i - 1) + 1 = i
      BY <1>1, <2>1
    <3>2. Tail(todo)[i - 1] = todo[i]
      BY <1>5, <3>1
    <3> QED
      BY <1>5, <3>1, <3>2, RangeIs
  <2>2. ASSUME NEW i \in 1 .. Len(todo) - 1 PROVE Tail(todo)[i] \in Range(todo)
    <3>1. i + 1 \in DOMAIN todo /\ Tail(todo)[i] = todo[i + 1]
      BY <1>1, <1>5
    <3> QED
      BY <3>1 DEF Range
  <2>3. todo[1] \in Range(todo)
    BY <1>1 DEF Range
  <2> QED
    <3>1. ASSUME NEW x \in Range(todo) PROVE x = Head(todo) \/ x \in Range(Tail(todo))
      BY <1>1, <1>4, <2>1, RangeIs
    <3>2. ASSUME NEW x \in Range(Tail(todo)) PROVE x \in Range(todo)
      <4>1. PICK i \in 1 .. Len(Tail(todo)) : Tail(todo)[i] = x
        BY <1>5, RangeIs
      <4> QED
        BY <1>5, <2>2, <4>1
    <3> QED
      BY <1>4, <2>3, <3>1, <3>2
<1>8. Head(todo) \notin Range(Tail(todo))
  <2>1. ASSUME NEW i \in 1 .. Len(todo) - 1 PROVE Tail(todo)[i] # Head(todo)
    <3>1. Place \in DOMAIN list /\ Place + i \in DOMAIN list /\ Place + i # Place
      BY <1>3, <1>4, <1>6
    <3>2. list[Place + i] # list[Place]
      BY <1>3, <3>1 DEF LoopInv, IsInjective
    <3> QED
      BY <1>4, <1>5, <1>6, <3>2
  <2> QED
    BY <1>5, <2>1 DEF Range
<1>9. Range(todo) \subseteq Scripts
  BY <1>1, <1>3, <1>4, <1>5, <1>6, <1>7 DEF Range, Scripts
<1> QED
  BY <1>1, <1>2, <1>3, <1>4, <1>5, <1>6, <1>7, <1>8, <1>9

\* The turn leaves the list as it is.
LEMMA TurnKeeps ==
  ASSUME LuaTypeOK, LoopInv, todo # <<>>, todo' = Tail(todo), list' = list, stage' # "idle"
  PROVE  LoopInv' /\ Scripts' = Scripts
<1>1. Kept' = Kept /\ Kept = list /\ list # Nil
  BY Turn DEF Kept
<1>2. /\ list \in Seq(DOMAIN Script) /\ todo \in Seq(DOMAIN Script)
      /\ Len(todo') = Len(todo) - 1 /\ Len(todo) <= Len(list) /\ Len(todo) # 0
      /\ \A i \in 1 .. Len(todo) - 1 : (todo')[i] = list[Place + i]
  <2>1. /\ list \in Seq(DOMAIN Script) /\ Len(Tail(todo)) = Len(todo) - 1
        /\ \A i \in 1 .. Len(todo) - 1 : Tail(todo)[i] = list[Place + i]
    BY Turn
  <2>2. todo \in Seq(DOMAIN Script) /\ Len(todo) <= Len(list)
    BY <1>1 DEF LoopInv, LuaTypeOK
  <2> QED
    BY <2>1, <2>2
<1>3. \A i \in 1 .. Len(todo') : (todo')[i] = list[Len(list) - Len(todo') + i]
  <2> TAKE i \in 1 .. Len(todo')
  <2>1. i \in 1 .. Len(todo) - 1 /\ Len(list) - Len(todo') + i = Place + i
    BY <1>2 DEF Place
  <2> QED
    BY <1>2, <2>1
<1>4. LoopInv'
  BY <1>1, <1>2, <1>3 DEF LoopInv
<1> QED
  BY <1>1, <1>4 DEF Scripts

\* The turn removes the script from the list.
LEMMA TurnDrops ==
  ASSUME LuaTypeOK, LoopInv, todo # <<>>, todo' = Tail(todo), DropScript(Head(todo)),
         stage' \in {"load", "table", "call"}
  PROVE  /\ LoopInv' /\ list' \in Seq(DOMAIN Script)
         /\ Scripts' = Scripts \ {Head(todo)}
<1> DEFINE s == list
           n == Len(list)
           t == RemoveAt(s, Place)
<1>1. /\ s # Nil /\ Kept = s /\ s \in Seq(DOMAIN Script) /\ n = Len(s) /\ n \in Nat
      /\ Place \in 1 .. n /\ Head(todo) = s[Place] /\ todo \in Seq(DOMAIN Script)
      /\ Len(todo') = Len(todo) - 1 /\ Len(todo) <= n /\ Len(todo) # 0 /\ Len(todo) \in Nat
      /\ \A i \in 1 .. Len(todo) - 1 : (todo')[i] = s[Place + i]
  BY Turn DEF LoopInv, LuaTypeOK
<1>2. list' = t
  BY DEF DropScript, Place
<1>3. t \in Seq(DOMAIN Script) /\ Len(t) = n - 1
      /\ \A i \in 1 .. n - 1 : t[i] = IF i < Place THEN s[i] ELSE s[i + 1]
  BY <1>1, RemoveAtIs
<1>4. Place = n - Len(todo) + 1
  BY DEF Place
<1> HIDE DEF t
<1>5. t # Nil /\ Kept' = t
  BY <1>2, <1>3, LuaAssumption DEF Kept
<1>6. \A i, j \in 1 .. n : s[i] = s[j] => i = j
  BY <1>1 DEF LoopInv, IsInjective
<1>7. IsInjective(t)
  <2>1. ASSUME NEW i \in 1 .. n - 1, NEW j \in 1 .. n - 1, t[i] = t[j] PROVE i = j
    <3>1. i \in 1 .. n /\ j \in 1 .. n /\ i + 1 \in 1 .. n /\ j + 1 \in 1 .. n
      BY <1>1
    <3> QED
      BY <1>1, <1>3, <1>6, <2>1, <3>1
  <2>2. DOMAIN t = 1 .. n - 1
    BY <1>1, <1>3
  <2> QED
    BY <2>1, <2>2 DEF IsInjective
<1>8. \A i \in 1 .. Len(todo') : (todo')[i] = t[Len(t) - Len(todo') + i]
  <2> TAKE i \in 1 .. Len(todo')
  <2> DEFINE j == Len(t) - Len(todo') + i
  <2>1. i \in 1 .. Len(todo) - 1 /\ j \in 1 .. n - 1 /\ ~(j < Place) /\ j + 1 = Place + i
    BY <1>1, <1>3, <1>4
  <2> HIDE DEF j
  <2>2. t[j] = s[j + 1]
    BY ONLY <1>3, <2>1
  <2>3. t[j] = (todo')[i]
    BY <1>1, <2>1, <2>2
  <2> QED
    BY <2>3 DEF j
<1>9. LoopInv'
  <2>1. Len(todo') <= Len(t)
    BY <1>1, <1>3
  <2>2. /\ IsInjective(Kept') /\ Len(todo') <= Len(Kept') /\ list' # Nil
        /\ \A i \in 1 .. Len(todo') : (todo')[i] = (Kept')[Len(Kept') - Len(todo') + i]
    BY <1>2, <1>5, <1>7, <1>8, <2>1
  <2> QED
    BY <2>2 DEF LoopInv
<1>10. Range(t) = Range(s) \ {s[Place]}
  <2>1. ASSUME NEW x \in Range(t) PROVE x \in Range(s) /\ x # s[Place]
    <3>1. PICK i \in 1 .. n - 1 : t[i] = x
      BY <1>3, <2>1, RangeIs
    <3> DEFINE j == IF i < Place THEN i ELSE i + 1
    <3>2. j \in 1 .. n /\ j # Place /\ s[j] = x
      BY <1>1, <1>3, <3>1
    <3> HIDE DEF j
    <3> QED
      BY <1>1, <1>6, <3>2, RangeIs
  <2>2. ASSUME NEW x \in Range(s), x # s[Place] PROVE x \in Range(t)
    <3>1. PICK i \in 1 .. n : s[i] = x
      BY <1>1, <2>2, RangeIs
    <3> DEFINE j == IF i < Place THEN i ELSE i - 1
    <3>2. j \in 1 .. n - 1 /\ (IF j < Place THEN s[j] ELSE s[j + 1]) = x
      BY <1>1, <2>2, <3>1
    <3> HIDE DEF j
    <3> QED
      BY <1>3, <3>2, RangeIs
  <2> QED
    BY <2>1, <2>2
<1> QED
  BY <1>1, <1>2, <1>3, <1>5, <1>9, <1>10 DEF Scripts

-----------------------------------------------------------------------------
(* What a step leaves as it was.                                           *)

LEMMA FitSame ==
  ASSUME UNCHANGED given
  PROVE  Fit' = Fit
BY DEF given, Fit, lua_script_valid_in_context

LEMMA CalledSame ==
  ASSUME UNCHANGED <<list, callback, ran>>, NEW n
  PROVE  Called(n)' = Called(n)
BY DEF Called, Kept

LEMMA FailsSame ==
  ASSUME UNCHANGED <<given, ran>>
  PROVE  Fails' = Fails
BY DEF Fails, given

\* Options that are accepted stay accepted.
LEMMA Accepted ==
  ASSUME taken \subseteq taken', NEW s
  PROVE  /\ Refused(s) => Refused(s)'
         /\ \A n : Owns(s, n) => Owns(s, n)'
<1>1. Refused(s) => Refused(s)'
  BY DEF Refused
<1>2. ASSUME NEW n, Owns(s, n) PROVE Owns(s, n)'
  BY <1>2 DEF Owns
<1> QED
  BY <1>1, <1>2

\* A script of which SLURM accepted all options is refused none.
LEMMA OwnsAll ==
  ASSUME OptsInv, NEW s, Script[s].table \in Seq(Option), Owns(s, Len(Script[s].table))
  PROVE  ~Refused(s)
<1> DEFINE table == Script[s].table
<1>1. DOMAIN table = 1 .. Len(table)
  OBVIOUS
<1>2. ASSUME NEW k \in 1 .. Len(table), NEW t \in taken, t.name = table[k].name
      PROVE  t.script = s
  <2>1. PICK u \in taken : u.name = table[k].name /\ u.script = s
    BY DEF Owns
  <2>2. t = u
    BY <1>2, <2>1 DEF OptsInv
  <2> QED
    BY <2>1, <2>2
<1>3. \A k \in 1 .. Len(table) : \A j \in 1 .. k - 1 : table[j].name # table[k].name
  BY DEF Owns
<1> QED
  BY <1>1, <1>2, <1>3 DEF Refused

Entries == [val : Nat, script : DOMAIN Script, name : STRING, cb : BOOLEAN]
Accepts == [val : Nat, script : DOMAIN Script, name : STRING]

LEMMA FitIs == LuaTypeOK => Fit \subseteq DOMAIN Script
<1>1. LuaTypeOK => matched \in Seq(DOMAIN Script)
  BY LuaAssumption DEF LuaTypeOK
<1> QED
  BY <1>1 DEF Fit, Range

\* One option is registered: it gets the next number.
LEMMA OptionRegistered ==
  ASSUME LuaTypeOK, OptsInv, stage # "closed", UNCHANGED given, ctx = "step",
         NEW s \in Fit, NEW opt \in Option, lua_script_option_register(s, opt)
  PROVE  /\ opts' \in Seq(Entries) /\ taken' \subseteq Accepts /\ OptsInv'
         /\ taken \subseteq taken'
         /\ NameFree(opt) => \E t \in taken' : t.name = opt.name /\ t.script = s
         /\ \A t \in taken' : t \in taken \/ (t.script = s /\ t.name = opt.name)
<1> DEFINE n == Len(opts)
           e == [val |-> n, script |-> s, name |-> opt.name, cb |-> opt.cb]
           a == [val |-> n, script |-> s, name |-> opt.name]
           o == <<e>> \o opts
<1>1. /\ opts \in Seq(Entries) /\ n \in Nat /\ taken \subseteq Accepts
      /\ s \in DOMAIN Script /\ opt.name \in STRING /\ opt.cb \in BOOLEAN
  BY FitIs DEF LuaTypeOK, Option, Entries, Accepts
<1>2. e \in Entries /\ a \in Accepts /\ a.val = n /\ a.script = s /\ a.name = opt.name
      /\ e.val = n /\ e.script = s /\ e.name = opt.name
  BY <1>1 DEF Entries, Accepts
<1>3. opts' = o /\ taken' = IF NameFree(opt) THEN taken \cup {a} ELSE taken
  BY DEF lua_script_option_register, OptionVal
<1> HIDE DEF e, a, n
<1>4. /\ o \in Seq(Entries) /\ Len(o) = n + 1 /\ o[1] = e
      /\ \A i \in 1 .. n : o[i + 1] = opts[i]
  BY <1>1, <1>2 DEF n
<1> HIDE DEF o
<1>5. /\ taken' \subseteq Accepts /\ taken \subseteq taken'
      /\ NameFree(opt) => \E t \in taken' : t.name = opt.name /\ t.script = s
  BY <1>1, <1>2, <1>3
<1>6. \A t \in taken' : t \in taken \/ (NameFree(opt) /\ t = a)
  BY <1>3
<1>7. \A t, u \in taken' : t.name = u.name => t = u
  BY <1>2, <1>6 DEF OptsInv, NameFree
<1>8. \A t \in taken' : ctx' = "step" /\ t.script \in Fit'
  BY <1>2, <1>6, FitSame DEF OptsInv, given
<1>9. \A i \in 1 .. Len(o) : o[i].val = Len(o) - i
  <2> TAKE i \in 1 .. Len(o)
  <2>1. CASE i = 1
    BY <1>1, <1>2, <1>4, <2>1
  <2>2. CASE i # 1
    <3>1. i - 1 \in 1 .. n /\ (i - 1) + 1 = i /\ n - (i - 1) = Len(o) - i
      BY <1>1, <1>4, <2>2
    <3>2. opts[i - 1].val = n - (i - 1)
      BY <3>1 DEF OptsInv, n
    <3> QED
      BY <1>4, <3>1, <3>2
  <2> QED
    BY <2>1, <2>2
<1>10. \A t \in taken' : /\ t.val < Len(o)
                        /\ o[Len(o) - t.val].script = t.script /\ o[Len(o) - t.val].name = t.name
  <2> TAKE t \in taken'
  <2>1. CASE t = a
    BY <1>1, <1>2, <1>4, <2>1
  <2>2. CASE t \in taken
    <3>1. t.val \in Nat /\ t.val < n /\ opts[n - t.val].script = t.script /\ opts[n - t.val].name = t.name
      BY <1>1, <2>2 DEF OptsInv, Accepts, n
    <3>2. n - t.val \in 1 .. n /\ (n - t.val) + 1 = Len(o) - t.val
      BY <1>1, <1>4, <3>1
    <3>3. o[Len(o) - t.val] = opts[n - t.val]
      BY <1>4, <3>2
    <3> QED
      BY <1>1, <1>4, <3>1, <3>3
  <2> QED
    BY <1>6, <2>1, <2>2
<1>11. OptsInv'
  <2>1. \A i \in 1 .. Len(opts') : (opts')[i].val = Len(opts') - i
    BY <1>3, <1>9
  <2>2. \A t \in taken' : /\ t.val < Len(opts')
                         /\ (opts')[Len(opts') - t.val].script = t.script
                         /\ (opts')[Len(opts') - t.val].name = t.name
    BY <1>3, <1>10
  <2> QED
    BY ONLY <1>7, <1>8, <2>1, <2>2 DEF OptsInv
<1>12. \A t \in taken' : t \in taken \/ (t.script = s /\ t.name = opt.name)
  BY ONLY <1>2, <1>6
<1>13. opts' \in Seq(Entries)
  BY ONLY <1>3, <1>4
<1> QED
  BY ONLY <1>5, <1>11, <1>12, <1>13

LEMMA NoOptionRegistered ==
  ASSUME OptsInv, stage # "closed", UNCHANGED <<given, opts, taken>>
  PROVE  OptsInv'
BY FitSame DEF OptsInv, given

LEMMA CalledNone ==
  ASSUME ran' = <<>>
  PROVE  Called(0)'
<1> DEFINE place == [k \in {} |-> 0]
<1>1. DOMAIN ran' = {}
  OBVIOUS
<1>2. /\ place \in [{} -> DOMAIN Kept'] /\ Range(place) = {}
      /\ {i \in 1 .. 0 : callback' \in Script[(Kept')[i]].defs} = {}
  BY DEF Range
<1> HIDE DEF place
<1> QED
  BY <1>1, <1>2 DEF Called

-----------------------------------------------------------------------------
(* The steps of lua.                                                       *)

LEMMA LuaStart ==
  ASSUME LuaInit
  PROVE  LuaInv
<1>1. /\ ctx \in Contexts /\ matched \in Listings /\ failonerror \in BOOLEAN
      /\ fail \in BOOLEAN /\ (failonerror => fail)
      /\ stage = "start" /\ callback = Nil /\ list = Nil /\ todo = <<>> /\ nth = 0
      /\ opts = <<>> /\ taken = {} /\ ran = <<>> /\ rc = 0
  BY DEF LuaInit
<1>2. callback # "init"
  BY <1>1, LuaAssumption
<1>3. LuaTypeOK
  BY <1>1, <1>2 DEF LuaTypeOK
<1>4. Kept = <<>>
  BY <1>1 DEF Kept
<1>5. LoopInv /\ ScriptsInv
  BY <1>1, <1>4 DEF LoopInv, ScriptsInv, IsInjective
<1>6. OptsInv /\ TableInv /\ RanInv
  BY <1>1 DEF OptsInv, TableInv, RanInv
<1> QED
  BY <1>3, <1>5, <1>6 DEF LuaInv

LEMMA spank_lua_initInv ==
  ASSUME LuaInv, spank_lua_init
  PROVE  LuaInv'
<1>1. /\ LuaTypeOK /\ LoopInv /\ ScriptsInv /\ OptsInv /\ TableInv /\ RanInv
      /\ stage = "start" /\ UNCHANGED <<given, nth, opts, taken, freed, ran, rc, tasks>>
  BY DEF LuaInv, spank_lua_init
<1>2. /\ ctx \in Contexts /\ matched \in Listings /\ matched \in Seq(DOMAIN Script)
      /\ IsInjective(matched) /\ UNCHANGED <<ctx, matched, failonerror, fail>>
  BY <1>1, LuaAssumption DEF LuaTypeOK, given
<1>3. Kept = <<>> /\ todo = <<>> /\ taken = {} /\ nth = 0 /\ ran = <<>> /\ rc = 0
  BY <1>1 DEF LuaTypeOK, LoopInv, ScriptsInv, TableInv, RanInv
<1>4. OptsInv'
  BY <1>1, NoOptionRegistered
<1>5. CASE stage' = "failed" /\ UNCHANGED <<list, todo, callback>>
  <2>1. LuaTypeOK'
    BY <1>1, <1>2, <1>5 DEF LuaTypeOK, Ends
  <2>2. LoopInv' /\ ScriptsInv' /\ TableInv' /\ RanInv'
    BY <1>1, <1>5 DEF LoopInv, ScriptsInv, TableInv, RanInv, Kept
  <2> QED
    BY <1>4, <2>1, <2>2 DEF LuaInv
<1>6. CASE /\ matched = <<>> /\ stage' = IF ctx = "step" THEN "aborted" ELSE "idle"
           /\ callback' = First[ctx] /\ UNCHANGED <<list, todo>>
  <2>1. LuaTypeOK'
    <3>1. callback' = "init" => ctx = "step"
      BY <1>2, <1>6, LuaAssumption DEF First
    <3> QED
      BY <1>1, <1>2, <1>6, <3>1 DEF LuaTypeOK, Ends
  <2>2. Kept' = <<>> /\ LoopInv'
    BY <1>1, <1>3, <1>6 DEF LoopInv, Kept
  <2>3. ScriptsInv'
    <3>1. Range(matched') = {} /\ Fit' = {} /\ Scripts' = {}
      BY <1>2, <1>6, <2>2 DEF Range, Fit, Scripts
    <3> QED
      BY <1>2, <1>6, <3>1 DEF ScriptsInv
  <2>4. TableInv'
    BY <1>6 DEF TableInv
  <2>5. RanInv'
    <3>1. Len(Kept') - Len(todo') = 0
      BY <1>3, <1>6, <2>2
    <3>2. ran' = <<>> /\ rc' = 0
      BY <1>1, <1>3
    <3>3. Fails' = {}
      BY <3>2 DEF Fails
    <3> QED
      BY <1>6, <3>1, <3>2, <3>3, CalledNone DEF RanInv
  <2> QED
    BY <1>4, <2>1, <2>2, <2>3, <2>4, <2>5 DEF LuaInv
<1>7. CASE /\ stage' = "load" /\ list' = Reverse(matched) /\ todo' = Reverse(matched)
           /\ UNCHANGED callback
  <2>1. /\ list' \in Seq(DOMAIN Script) /\ IsInjective(list') /\ Range(list') = Range(matched)
        /\ list' # Nil /\ todo' = list' /\ Kept' = list'
    BY <1>2, <1>7, ReverseIs, LuaAssumption DEF Kept
  <2>2. LuaTypeOK'
    BY <1>1, <1>2, <1>7, <2>1 DEF LuaTypeOK
  <2>3. LoopInv'
    BY <1>7, <2>1 DEF LoopInv
  <2>4. ScriptsInv'
    BY <1>2, <1>7, <2>1 DEF ScriptsInv, Scripts
  <2>5. TableInv' /\ RanInv'
    BY <1>1, <1>3, <1>7 DEF TableInv, RanInv
  <2> QED
    BY <1>4, <2>2, <2>3, <2>4, <2>5 DEF LuaInv
<1> QED
  BY <1>5, <1>6, <1>7 DEF spank_lua_init

LEMMA LoadScriptInv ==
  ASSUME LuaInv, LoadScript
  PROVE  LuaInv'
<1> DEFINE s == Head(todo)
<1>1. /\ LuaTypeOK /\ LoopInv /\ ScriptsInv /\ OptsInv /\ TableInv /\ RanInv
      /\ stage = "load" /\ todo # <<>>
      /\ UNCHANGED <<given, callback, nth, opts, taken, ran, rc, tasks>>
  BY DEF LuaInv, LoadScript
<1>2. /\ UNCHANGED <<ctx, matched, failonerror, fail>> /\ Fit' = Fit
      /\ matched \in Seq(DOMAIN Script)
  BY <1>1, FitSame, LuaAssumption DEF given, LuaTypeOK
<1>3. /\ s \in DOMAIN Script /\ Tail(todo) \in Seq(DOMAIN Script)
      /\ Range(todo) = {s} \cup Range(Tail(todo)) /\ s \notin Range(Tail(todo))
      /\ s \in Scripts
  BY <1>1, Turn
<1>4. /\ Scripts = {t \in Range(matched) : t \in Range(todo) \/ t \in Fit}
      /\ fail => \A t \in Range(matched) : t \in Range(todo) \/ Script[t].loads
  BY <1>1 DEF ScriptsInv
<1>5. s \in Fit <=> Script[s].loads /\ lua_script_valid_in_context(s)
  BY <1>3, <1>4 DEF Fit
<1>6. OptsInv'
  BY <1>1, NoOptionRegistered
<1> HIDE DEF s
<1>7. CASE stage' = "failed" /\ UNCHANGED <<list, freed, todo>>
  <2>1. LuaTypeOK'
    BY <1>1, <1>2, <1>7 DEF LuaTypeOK, Ends
  <2>2. LoopInv' /\ ScriptsInv' /\ TableInv' /\ RanInv'
    BY <1>1, <1>7 DEF LoopInv, ScriptsInv, TableInv, RanInv, Kept
  <2> QED
    BY <1>6, <2>1, <2>2 DEF LuaInv
<1>8. CASE /\ Script[s].loads => ~lua_script_valid_in_context(s)
           /\ Script[s].loads \/ ~fail
           /\ DropScript(s) /\ todo' = Tail(todo) /\ UNCHANGED stage
  <2>1. /\ LoopInv' /\ list' \in Seq(DOMAIN Script) /\ Scripts' = Scripts \ {s}
    BY <1>1, <1>8, TurnDrops DEF s
  <2>2. LuaTypeOK'
    BY <1>1, <1>2, <1>3, <1>8, <2>1 DEF LuaTypeOK
  <2>3. ScriptsInv'
    BY <1>1, <1>2, <1>3, <1>4, <1>5, <1>8, <2>1 DEF ScriptsInv
  <2>4. TableInv' /\ RanInv'
    BY <1>1, <1>8 DEF TableInv, RanInv
  <2> QED
    BY <1>6, <2>1, <2>2, <2>3, <2>4 DEF LuaInv
<1>9. CASE /\ Script[s].loads /\ lua_script_valid_in_context(s)
           /\ todo' = Tail(todo) /\ UNCHANGED <<stage, list, freed>>
  <2>1. LoopInv' /\ Scripts' = Scripts
    BY <1>1, <1>9, TurnKeeps
  <2>2. LuaTypeOK'
    BY <1>1, <1>2, <1>3, <1>9 DEF LuaTypeOK
  <2>3. ScriptsInv'
    BY <1>1, <1>2, <1>3, <1>4, <1>5, <1>9, <2>1 DEF ScriptsInv
  <2>4. TableInv' /\ RanInv'
    BY <1>1, <1>9 DEF TableInv, RanInv
  <2> QED
    BY <1>6, <2>1, <2>2, <2>3, <2>4 DEF LuaInv
<1> QED
  BY <1>7, <1>8, <1>9 DEF LoadScript, s

\* The loop over the scripts begins: todo is the list.
LEMMA LoopStarts ==
  ASSUME LuaTypeOK, LoopInv, list' = list, todo' = Kept, stage' \in {"table", "call"},
         stage' = "table" => list # Nil
  PROVE  /\ LoopInv' /\ Scripts' = Scripts /\ Kept' = Kept
         /\ Len(Kept') - Len(todo') = 0 /\ todo' \in Seq(DOMAIN Script)
<1>1. Kept \in Seq(DOMAIN Script) /\ Kept' = Kept
  <2>1. CASE list = Nil
    BY <2>1 DEF Kept
  <2>2. CASE list # Nil
    BY <2>2 DEF Kept, LuaTypeOK
  <2> QED
    BY <2>1, <2>2
<1>2. Len(Kept) \in Nat /\ \A i \in 1 .. Len(Kept) : Len(Kept) - Len(Kept) + i = i
  BY <1>1
<1>3. LoopInv'
  BY <1>1, <1>2 DEF LoopInv
<1> QED
  BY <1>1, <1>2, <1>3 DEF Scripts

LEMMA LoadDoneInv ==
  ASSUME LuaInv, LoadDone
  PROVE  LuaInv'
<1>1. /\ LuaTypeOK /\ LoopInv /\ ScriptsInv /\ OptsInv /\ TableInv /\ RanInv
      /\ stage = "load" /\ todo = <<>> /\ list # Nil /\ Kept = list
      /\ UNCHANGED <<given, list, nth, opts, taken, freed, ran, rc, tasks>>
      /\ stage' = IF ctx = "step" THEN "table" ELSE "call"
      /\ callback' = First[ctx] /\ todo' = list
  BY DEF LuaInv, LoadDone, LoopInv, Kept
<1>2. /\ UNCHANGED <<ctx, matched, failonerror, fail>> /\ Fit' = Fit /\ ctx \in Contexts
  BY <1>1, FitSame DEF given, LuaTypeOK
<1>3. /\ LoopInv' /\ Scripts' = Scripts /\ Len(Kept') - Len(todo') = 0
      /\ todo' \in Seq(DOMAIN Script) /\ Kept' = Kept
  BY <1>1, LoopStarts
<1>4. OptsInv'
  BY <1>1, NoOptionRegistered
<1>5. LuaTypeOK'
  <2>1. callback' = "init" => ctx = "step"
    BY <1>1, <1>2, LuaAssumption DEF First
  <2> QED
    BY <1>1, <1>2, <1>3, <2>1 DEF LuaTypeOK
<1>6. ScriptsInv'
  <2>1. Range(todo) = {} /\ Fit \subseteq Range(matched)
    BY <1>1 DEF Range, Fit
  <2>2. Scripts = Fit /\ (fail => \A t \in Range(matched) : Script[t].loads)
    BY <1>1, <2>1 DEF ScriptsInv
  <2>3. stage' = "table" => \A s \in Scripts : s \in Range(todo')
    BY <1>1, <1>3 DEF Scripts
  <2> QED
    BY <1>1, <1>2, <1>3, <2>2, <2>3 DEF ScriptsInv
<1>7. TableInv'
  <2>1. taken' = {} /\ nth' = 0
    BY <1>1 DEF TableInv
  <2>2. todo' # <<>> => Head(todo') \in DOMAIN Script
    BY <1>3
  <2>3. todo' # <<>> => 0 <= Len(Script[Head(todo')].table)
    BY <2>2, LuaAssumption
  <2>4. \A s : Owns(s, 0)'
    BY DEF Owns
  <2>5. todo' # <<>> => Owns(Head(todo), nth)'
    BY <2>1, <2>4
  <2> QED
    BY <1>1, <1>2, <2>1, <2>3, <2>5 DEF TableInv
<1>8. RanInv'
  <2>1. ran' = <<>> /\ rc' = 0
    BY <1>1 DEF RanInv
  <2>2. Fails' = {}
    BY <2>1 DEF Fails
  <2> QED
    BY <1>1, <1>3, <2>1, <2>2, CalledNone DEF RanInv
<1> QED
  BY <1>3, <1>4, <1>5, <1>6, <1>7, <1>8 DEF LuaInv

\* The loop over the tables goes on to the next script.
LEMMA TableMoves ==
  ASSUME LuaTypeOK, LoopInv, TableInv, stage = "table", todo # <<>>, ctx' = ctx,
         todo' = Tail(todo), nth' = 0, stage' \notin {"start", "load"},
         \A t \in taken' : t \in taken \/ t.script = Head(todo)
  PROVE  TableInv'
<1> DEFINE q == Tail(todo)
<1>1. /\ q \in Seq(DOMAIN Script) /\ Head(todo) \notin Range(q)
  BY Turn
<1>2. /\ ctx = "step" /\ \A t \in taken : t.script \notin Range(q)
  BY DEF TableInv
<1> HIDE DEF q
<1>3. SUFFICES ASSUME q # <<>>
               PROVE  /\ 0 <= Len(Script[Head(q)].table) /\ Owns(Head(todo), nth)'
                      /\ \A t \in taken' : t.script \notin Range(Tail(q)) /\ t.script # Head(q)
  BY <1>2 DEF TableInv, q
<1>4. /\ Head(q) \in DOMAIN Script /\ Head(q) \in Range(q) /\ Range(Tail(q)) \subseteq Range(q)
  <2>1. Len(q) \in Nat /\ Len(q) # 0 /\ 1 \in 1 .. Len(q) /\ Head(q) = q[1]
    BY <1>1, <1>3
  <2>2. /\ Tail(q) \in Seq(DOMAIN Script) /\ Len(Tail(q)) = Len(q) - 1
        /\ \A i \in 1 .. Len(q) - 1 : Tail(q)[i] = q[i + 1] /\ i + 1 \in 1 .. Len(q)
    BY <1>1, <1>3, <2>1
  <2>3. ASSUME NEW x \in Range(Tail(q)) PROVE x \in Range(q)
    <3>1. PICK i \in 1 .. Len(Tail(q)) : Tail(q)[i] = x
      BY <2>2, RangeIs
    <3> QED
      BY <1>1, <2>2, <3>1, RangeIs
  <2> QED
    BY <1>1, <2>1, <2>3, RangeIs
<1>5. 0 <= Len(Script[Head(q)].table)
  BY <1>4, LuaAssumption
<1>6. \A t : Owns(t, 0)'
  BY DEF Owns
<1>7. Owns(Head(todo), nth)'
  BY <1>6
<1>8. \A t \in taken' : t.script \notin Range(q)
  BY <1>1, <1>2
<1> QED
  BY <1>4, <1>5, <1>7, <1>8

LEMMA load_spank_options_tableInv ==
  ASSUME LuaInv, load_spank_options_table
  PROVE  LuaInv'
<1> DEFINE s == Head(todo)
           table == Script[s].table
           opt == table[nth + 1]
<1>1. /\ LuaTypeOK /\ LoopInv /\ ScriptsInv /\ OptsInv /\ TableInv /\ RanInv
      /\ stage = "table" /\ todo # <<>> /\ nth < Len(table) /\ nth \in Nat
      /\ UNCHANGED <<given, callback, ran, rc, tasks>>
  BY DEF LuaInv, load_spank_options_table, LuaTypeOK
<1>2. /\ UNCHANGED <<ctx, matched, failonerror, fail>> /\ Fit' = Fit
      /\ ran = <<>> /\ rc = 0
  BY <1>1, FitSame DEF given, RanInv
<1>3. /\ s \in DOMAIN Script /\ Tail(todo) \in Seq(DOMAIN Script)
      /\ Range(todo) = {s} \cup Range(Tail(todo)) /\ s \notin Range(Tail(todo))
      /\ s \in Scripts
  BY <1>1, Turn
<1>4. /\ ctx = "step" /\ Owns(s, nth)
      /\ \A t \in taken : /\ t.script \notin Range(Tail(todo))
                          /\ t.script = s => \E j \in 1 .. nth : table[j].name = t.name
  BY <1>1 DEF TableInv
<1>5. /\ Scripts \subseteq Fit /\ (fail => \A t \in Range(matched) : Script[t].loads)
      /\ \A t \in Fit \ Scripts : Refused(t) /\ ~fail
      /\ \A t \in Scripts : t \in Range(todo) \/ Owns(t, Len(Script[t].table))
  BY <1>1, <1>4 DEF ScriptsInv
<1>6. table \in Seq(Option) /\ opt \in Option /\ nth + 1 \in 1 .. Len(table)
      /\ DOMAIN table = 1 .. Len(table)
  <2>1. table \in Seq(Option)
    BY <1>3, LuaAssumption
  <2> QED
    BY <1>1, <2>1
<1> HIDE DEF s, opt, table
<1>7. CASE /\ ~opt.whole
           /\ stage' = "undefined" /\ UNCHANGED <<opts, taken, list, freed, todo, nth>>
  <2>1. LuaTypeOK'
    BY <1>1, <1>2, <1>7 DEF LuaTypeOK, Ends
  <2>2. LoopInv' /\ ScriptsInv' /\ TableInv' /\ RanInv'
    BY <1>1, <1>7 DEF LoopInv, ScriptsInv, TableInv, RanInv, Kept
  <2>3. OptsInv'
    BY <1>1, <1>7, NoOptionRegistered
  <2> QED
    BY <2>1, <2>2, <2>3 DEF LuaInv
<1>8. ASSUME lua_script_option_register(s, opt)
      PROVE  /\ opts' \in Seq(Entries) /\ taken' \subseteq Accepts /\ OptsInv'
             /\ taken \subseteq taken'
             /\ NameFree(opt) => \E t \in taken' : t.name = opt.name /\ t.script = s
             /\ \A t \in taken' : t \in taken \/ (t.script = s /\ t.name = opt.name)
             /\ \A t : Refused(t) => Refused(t)'
             /\ \A t, n : Owns(t, n) => Owns(t, n)'
  <2>1. s \in Fit
    BY <1>3, <1>5
  <2>2. stage # "closed"
    BY <1>1
  <2>3. /\ opts' \in Seq(Entries) /\ taken' \subseteq Accepts /\ OptsInv'
        /\ taken \subseteq taken'
        /\ NameFree(opt) => \E t \in taken' : t.name = opt.name /\ t.script = s
        /\ \A t \in taken' : t \in taken \/ (t.script = s /\ t.name = opt.name)
    BY <1>1, <1>4, <1>6, <1>8, <2>1, <2>2, OptionRegistered
  <2> QED
    BY <2>3, Accepted
<1>9. CASE /\ opt.whole /\ NameFree(opt) /\ lua_script_option_register(s, opt)
           /\ nth' = nth + 1 /\ UNCHANGED <<stage, list, freed, todo>>
  <2>1. LuaTypeOK'
    BY <1>1, <1>2, <1>8, <1>9 DEF LuaTypeOK, Entries, Accepts
  <2>2. LoopInv' /\ Scripts' = Scripts
    BY <1>1, <1>9 DEF LoopInv, Kept, Scripts
  <2>3. ScriptsInv'
    BY <1>1, <1>2, <1>4, <1>5, <1>8, <1>9, <2>2 DEF ScriptsInv
  <2>4. ASSUME NEW h, h = s, NEW m, m = nth + 1
        PROVE  Owns(h, m)'
    <3>1. ASSUME NEW k \in 1 .. nth + 1
          PROVE  /\ \E t \in taken' : t.name = table[k].name /\ t.script = s
                 /\ \A j \in 1 .. k - 1 : table[j].name # table[k].name
      <4>1. CASE k \in 1 .. nth
        BY <1>4, <1>8, <1>9, <4>1 DEF Owns, table
      <4>2. CASE k = nth + 1
        <5>1. \E t \in taken' : t.name = table[k].name /\ t.script = s
          BY <1>8, <1>9, <4>2 DEF opt
        <5>2. ASSUME NEW j \in 1 .. k - 1 PROVE table[j].name # table[k].name
          <6>1. j \in 1 .. nth
            BY <1>1, <4>2
          <6>2. PICK t \in taken : t.name = table[j].name
            BY <1>4, <6>1 DEF Owns, table
          <6> QED
            BY <1>9, <4>2, <6>2 DEF NameFree, opt
        <5> QED
          BY <5>1, <5>2
      <4> QED
        BY <1>1, <4>1, <4>2
    <3> QED
      BY <2>4, <3>1 DEF Owns, table
  <2>5. Owns(Head(todo), nth)'
    <3>1. Head(todo') = s /\ nth' = nth + 1
      BY <1>9 DEF s
    <3> QED
      BY <2>4, <3>1
  <2>6. \A t \in taken' :
          /\ t.script \notin Range(Tail(todo))
          /\ t.script = s => \E j \in 1 .. nth + 1 : table[j].name = t.name
    <3> SUFFICES ASSUME NEW t \in taken'
                 PROVE  /\ t.script \notin Range(Tail(todo))
                        /\ t.script = s => \E j \in 1 .. nth + 1 : table[j].name = t.name
      OBVIOUS
    <3>1. CASE t \in taken
      <4>1. \A j \in 1 .. nth : j \in 1 .. nth + 1
        BY <1>1
      <4> QED
        BY <1>4, <3>1, <4>1
    <3>2. CASE t.script = s /\ t.name = opt.name
      <4>1. nth + 1 \in 1 .. nth + 1
        BY <1>1
      <4> QED
        BY <1>3, <3>2, <4>1 DEF opt
    <3> QED
      BY <1>8, <1>9, <3>1, <3>2
  <2>7. TableInv'
    <3>1. nth + 1 <= Len(table)
      BY <1>1
    <3> QED
      BY <1>1, <1>2, <1>4, <1>9, <2>5, <2>6, <3>1 DEF TableInv, s, table
  <2>8. RanInv'
    BY <1>1, <1>2, <1>9 DEF RanInv
  <2> QED
    BY <1>8, <1>9, <2>1, <2>2, <2>3, <2>7, <2>8 DEF LuaInv
<1>10. ASSUME ~NameFree(opt)
       PROVE  Refused(s)
  <2>1. PICK t \in taken : t.name = opt.name
    BY <1>10 DEF NameFree
  <2>2. CASE t.script # s
    BY <1>6, <2>1, <2>2 DEF Refused, table, opt
  <2>3. CASE t.script = s
    <3>1. PICK j \in 1 .. nth : table[j].name = t.name
      BY <1>4, <2>3
    <3>2. j \in 1 .. (nth + 1) - 1
      BY <1>1
    <3> QED
      BY <1>6, <2>1, <3>1, <3>2 DEF Refused, table, opt
  <2> QED
    BY <2>2, <2>3
<1>11. ASSUME lua_script_option_register(s, opt), nth' = 0, todo' = Tail(todo),
              stage' \in {"table", "failed"}
       PROVE  TableInv' /\ RanInv'
  <2>1. \A t \in taken' : t \in taken \/ t.script = Head(todo)
    BY <1>8, <1>11 DEF s
  <2>2. TableInv'
    BY <1>1, <1>2, <1>11, <2>1, TableMoves
  <2> QED
    BY <1>1, <1>2, <1>11, <2>2 DEF RanInv
<1>12. CASE /\ opt.whole /\ ~NameFree(opt) /\ lua_script_option_register(s, opt)
            /\ nth' = 0 /\ todo' = Tail(todo)
            /\ fail /\ stage' = "failed" /\ UNCHANGED <<list, freed>>
  <2>1. LuaTypeOK'
    BY <1>1, <1>2, <1>3, <1>8, <1>12 DEF LuaTypeOK, Entries, Accepts, Ends
  <2>2. LoopInv'
    BY <1>1, <1>12, TurnKeeps
  <2>3. ScriptsInv'
    BY <1>12 DEF ScriptsInv
  <2> QED
    BY <1>8, <1>11, <1>12, <2>1, <2>2, <2>3 DEF LuaInv
<1>13. CASE /\ opt.whole /\ ~NameFree(opt) /\ lua_script_option_register(s, opt)
            /\ nth' = 0 /\ todo' = Tail(todo)
            /\ ~fail /\ DropScript(s) /\ UNCHANGED stage
  <2>1. /\ LoopInv' /\ list' \in Seq(DOMAIN Script) /\ Scripts' = Scripts \ {s}
    BY <1>1, <1>13, TurnDrops DEF s
  <2>2. LuaTypeOK'
    BY <1>1, <1>2, <1>3, <1>8, <1>13, <2>1 DEF LuaTypeOK, Entries, Accepts
  <2>3. ScriptsInv'
    <3>1. \A t \in Fit \ Scripts' : Refused(t)'
      BY <1>5, <1>8, <1>10, <1>13, <2>1
    <3>2. \A t \in Scripts' : t \in Range(todo') \/ Owns(t, Len(Script[t].table))'
      BY <1>3, <1>5, <1>8, <1>13, <2>1
    <3> QED
      BY <1>1, <1>2, <1>4, <1>5, <1>13, <2>1, <3>1, <3>2 DEF ScriptsInv
  <2> QED
    BY <1>1, <1>8, <1>11, <1>13, <2>1, <2>2, <2>3 DEF LuaInv
<1> QED
  BY <1>7, <1>9, <1>12, <1>13 DEF load_spank_options_table, s, opt, table

LEMMA TableDoneInv ==
  ASSUME LuaInv, TableDone
  PROVE  LuaInv'
<1>1. /\ LuaTypeOK /\ LoopInv /\ ScriptsInv /\ OptsInv /\ TableInv /\ RanInv
      /\ stage = "table" /\ todo # <<>> /\ nth = Len(Script[Head(todo)].table)
      /\ nth' = 0 /\ todo' = Tail(todo)
      /\ UNCHANGED <<given, stage, callback, list, opts, taken, freed, ran, rc, tasks>>
  BY DEF LuaInv, TableDone
<1>2. /\ UNCHANGED <<ctx, matched, failonerror, fail>> /\ Fit' = Fit
  BY <1>1, FitSame DEF given
<1>3. /\ Tail(todo) \in Seq(DOMAIN Script)
      /\ Range(todo) = {Head(todo)} \cup Range(Tail(todo))
  BY <1>1, Turn
<1>4. LuaTypeOK'
  BY <1>1, <1>2, <1>3 DEF LuaTypeOK
<1>5. LoopInv' /\ Scripts' = Scripts
  BY <1>1, TurnKeeps
<1>6. OptsInv'
  BY <1>1, NoOptionRegistered
<1>7. ScriptsInv'
  <2>1. Owns(Head(todo), Len(Script[Head(todo)].table))
    BY <1>1 DEF TableInv
  <2>2. \A t, n : (Owns(t, n) => Owns(t, n)') /\ (Refused(t) => Refused(t)')
    BY <1>1, Accepted
  <2>3. \A t \in Scripts : \/ t \in Range(Tail(todo))
                           \/ Owns(t, Len(Script[t].table)) \/ ctx # "step"
    BY <1>1, <1>3, <2>1 DEF ScriptsInv
  <2> QED
    BY <1>1, <1>2, <1>5, <2>2, <2>3 DEF ScriptsInv
<1>8. TableInv'
  BY <1>1, <1>2, TableMoves
<1>9. RanInv'
  BY <1>1 DEF RanInv
<1> QED
  BY <1>4, <1>5, <1>6, <1>7, <1>8, <1>9 DEF LuaInv

LEMMA TablesDoneInv ==
  ASSUME LuaInv, TablesDone
  PROVE  LuaInv'
<1>1. /\ LuaTypeOK /\ LoopInv /\ ScriptsInv /\ OptsInv /\ TableInv /\ RanInv
      /\ stage = "table" /\ todo = <<>> /\ list # Nil /\ Kept = list
      /\ stage' = "call" /\ todo' = list
      /\ UNCHANGED <<given, callback, list, nth, opts, taken, freed, ran, rc, tasks>>
  BY DEF LuaInv, TablesDone, LoopInv, Kept
<1>2. /\ UNCHANGED <<ctx, matched, failonerror, fail>> /\ Fit' = Fit
  BY <1>1, FitSame DEF given
<1>3. /\ LoopInv' /\ Scripts' = Scripts /\ Len(Kept') - Len(todo') = 0
      /\ todo' \in Seq(DOMAIN Script)
  BY <1>1, LoopStarts
<1>4. LuaTypeOK'
  BY <1>1, <1>2, <1>3 DEF LuaTypeOK
<1>5. OptsInv'
  BY <1>1, NoOptionRegistered
<1>6. ScriptsInv'
  <2>1. \A t, n : (Owns(t, n) => Owns(t, n)') /\ (Refused(t) => Refused(t)')
    BY <1>1, Accepted
  <2>2. Range(todo) = {}
    BY <1>1 DEF Range
  <2> QED
    BY <1>1, <1>2, <1>3, <2>1, <2>2 DEF ScriptsInv
<1>7. TableInv'
  BY <1>1 DEF TableInv
<1>8. RanInv'
  <2>1. ran' = <<>> /\ rc' = 0
    BY <1>1 DEF RanInv
  <2>2. Fails' = {}
    BY <2>1 DEF Fails
  <2> QED
    BY <1>1, <1>3, <2>1, <2>2, CalledNone DEF RanInv
<1> QED
  BY <1>3, <1>4, <1>5, <1>6, <1>7, <1>8 DEF LuaInv

\* Nothing moves but the stage, if that.
LEMMA StageMoves ==
  ASSUME LuaInv, UNCHANGED <<given, callback, list, todo, nth, opts, taken, ran, rc>>,
         \/ stage' = stage
         \/ stage' = "undefined" /\ stage # "closed"
         \/ stage' = "idle" /\ stage = "call" /\ todo = <<>>
  PROVE  LuaInv'
<1>1. /\ LuaTypeOK /\ LoopInv /\ ScriptsInv /\ OptsInv /\ TableInv /\ RanInv
      /\ UNCHANGED <<ctx, matched, failonerror, fail>>
  BY DEF LuaInv, given
<1>2. /\ Fit' = Fit /\ Kept' = Kept /\ Scripts' = Scripts /\ Fails' = Fails
      /\ \A n : Called(n)' = Called(n)
  BY FitSame, FailsSame, CalledSame DEF Kept, Scripts
<1>3. \A t, n : (Owns(t, n) => Owns(t, n)') /\ (Refused(t) => Refused(t)')
  BY Accepted
<1>4. LuaTypeOK'
  BY <1>1 DEF LuaTypeOK, Ends
<1>5. LoopInv'
  BY <1>1, <1>2 DEF LoopInv
<1>6. ScriptsInv'
  <2>1. Range(todo) = {} \/ todo # <<>>
    BY DEF Range
  <2> QED
    BY <1>1, <1>2, <1>3, <2>1 DEF ScriptsInv
<1>7. OptsInv'
  BY <1>1, <1>2 DEF OptsInv
<1>8. TableInv'
  <2>1. CASE stage' = "table"
    <3>1. \A t, n : Owns(t, n)' <=> Owns(t, n)
      BY DEF Owns
    <3> QED
      BY <1>1, <2>1, <3>1 DEF TableInv
  <2>2. CASE stage' # "table"
    BY <1>1, <2>2 DEF TableInv
  <2> QED
    BY <2>1, <2>2
<1>9. RanInv'
  BY <1>1, <1>2 DEF RanInv
<1> QED
  BY <1>4, <1>5, <1>6, <1>7, <1>8, <1>9 DEF LuaInv

\* A script without the function is passed over.
LEMMA CalledSkips ==
  ASSUME UNCHANGED <<list, callback, ran>>, NEW n \in Nat, Called(n),
         callback \notin Script[Kept[n + 1]].defs
  PROVE  Called(n + 1)'
<1>1. Kept' = Kept /\ \A m : Called(m)' = Called(m)
  BY CalledSame DEF Kept
<1>2. {i \in 1 .. n + 1 : callback \in Script[Kept[i]].defs}
        = {i \in 1 .. n : callback \in Script[Kept[i]].defs}
  <2>1. \A i \in 1 .. n + 1 : i \in 1 .. n \/ i = n + 1
    OBVIOUS
  <2>2. \A i \in 1 .. n : i \in 1 .. n + 1
    OBVIOUS
  <2> QED
    BY <2>1, <2>2
<1>3. Called(n + 1)
  BY <1>2 DEF Called
<1> QED
  BY <1>1, <1>3

Calls == [script : DOMAIN Script, result : {"success", "failure", "error"}]

\* A script with the function is called.
LEMMA CalledNext ==
  ASSUME UNCHANGED <<list, callback>>, ran \in Seq(Calls), NEW n \in Nat, Called(n),
         n + 1 \in DOMAIN Kept, callback \in Script[Kept[n + 1]].defs,
         NEW c \in Calls, c.script = Kept[n + 1], ran' = Append(ran, c)
  PROVE  Called(n + 1)'
<1> DEFINE m == Len(ran)
           D == {i \in 1 .. n : callback \in Script[Kept[i]].defs}
           E == {i \in 1 .. n + 1 : callback \in Script[Kept[i]].defs}
<1>1. Kept' = Kept /\ callback' = callback
  BY DEF Kept
<1>2. /\ m \in Nat /\ DOMAIN ran = 1 .. m /\ DOMAIN ran' = 1 .. m + 1
      /\ (ran')[m + 1] = c /\ \A k \in 1 .. m : (ran')[k] = ran[k]
  OBVIOUS
<1> HIDE DEF m
<1>3. PICK place \in [1 .. m -> DOMAIN Kept] :
        /\ \A j, k \in 1 .. m : j < k => place[j] < place[k]
        /\ \A k \in 1 .. m : Kept[place[k]] = ran[k].script
        /\ Range(place) = D
  BY <1>2 DEF Called
<1> DEFINE bt == [k \in 1 .. m + 1 |-> IF k = m + 1 THEN n + 1 ELSE place[k]]
<1>4. /\ bt \in [1 .. m + 1 -> DOMAIN Kept] /\ DOMAIN bt = 1 .. m + 1
      /\ bt[m + 1] = n + 1 /\ \A k \in 1 .. m : bt[k] = place[k]
  BY <1>2, <1>3
<1> HIDE DEF bt
<1>5. \A k \in 1 .. m + 1 : k \in 1 .. m \/ k = m + 1
  BY <1>2
<1>6. \A k \in 1 .. m : place[k] \in Nat /\ place[k] <= n /\ place[k] \in D /\ k \in 1 .. m + 1
  <2> TAKE k \in 1 .. m
  <2>1. place[k] \in Range(place)
    BY <1>3 DEF Range
  <2> QED
    BY <1>2, <1>3, <2>1
<1>7. \A j, k \in 1 .. m + 1 : j < k => bt[j] < bt[k]
  <2> SUFFICES ASSUME NEW j \in 1 .. m + 1, NEW k \in 1 .. m + 1, j < k
               PROVE  bt[j] < bt[k]
    OBVIOUS
  <2>1. j \in 1 .. m
    BY <1>2
  <2> QED
    BY <1>3, <1>4, <1>5, <1>6, <2>1
<1>8. \A k \in 1 .. m + 1 : Kept[bt[k]] = (ran')[k].script
  BY <1>2, <1>3, <1>4, <1>5
<1>9. Range(bt) = E
  <2>1. \A i : i \in E <=> i \in D \/ i = n + 1
    BY <1>2
  <2>2. ASSUME NEW x \in Range(bt) PROVE x \in E
    <3>1. PICK k \in 1 .. m + 1 : bt[k] = x
      BY <1>4 DEF Range
    <3> QED
      BY <1>4, <1>5, <1>6, <2>1, <3>1
  <2>3. ASSUME NEW x \in E PROVE x \in Range(bt)
    <3>1. CASE x = n + 1
      BY <1>2, <1>4, <3>1 DEF Range
    <3>2. CASE x \in D
      <4>1. PICK k \in 1 .. m : place[k] = x
        BY <1>3, <3>2 DEF Range
      <4> QED
        BY <1>4, <1>6, <4>1 DEF Range
    <3> QED
      BY <2>1, <2>3, <3>1, <3>2
  <2> QED
    BY <2>2, <2>3
<1>10. /\ bt \in [DOMAIN ran' -> DOMAIN Kept']
       /\ \A j, k \in DOMAIN ran' : j < k => bt[j] < bt[k]
       /\ \A k \in DOMAIN ran' : (Kept')[bt[k]] = (ran')[k].script
       /\ Range(bt) = {i \in 1 .. n + 1 : callback' \in Script[(Kept')[i]].defs}
  BY <1>1, <1>2, <1>4, <1>7, <1>8, <1>9
<1> QED
  BY ONLY <1>10 DEF Called

\* The callback fails with the call if the call does.
LEMMA FailsNext ==
  ASSUME UNCHANGED given, ran \in Seq(Calls), NEW c \in Calls, ran' = Append(ran, c),
         rc \in Int, rc < 0 <=> Fails # {},
         rc' = IF c.result = "failure" \/ (c.result = "error" /\ fail) THEN -1 ELSE rc
  PROVE  rc' < 0 <=> Fails' # {}
<1> DEFINE m == Len(ran)
           Bad == c.result = "failure" \/ (c.result = "error" /\ fail)
<1>1. /\ m \in Nat /\ DOMAIN ran = 1 .. m /\ DOMAIN ran' = 1 .. m + 1
      /\ (ran')[m + 1] = c /\ \A k \in 1 .. m : (ran')[k] = ran[k]
      /\ fail' = fail
  BY DEF given
<1>2. Fails' = {k \in 1 .. m + 1 : (ran')[k].result = "failure"
                                  \/ ((ran')[k].result = "error" /\ fail)}
  BY <1>1 DEF Fails
<1>3. Fails = {k \in 1 .. m : ran[k].result = "failure" \/ (ran[k].result = "error" /\ fail)}
  BY <1>1 DEF Fails
<1> HIDE DEF m
<1>4. \A k \in 1 .. m + 1 : k \in 1 .. m \/ k = m + 1
  BY <1>1
<1>5. m + 1 \in 1 .. m + 1 /\ \A k \in 1 .. m : k \in 1 .. m + 1
  BY <1>1
<1>6. CASE Bad
  <2>1. m + 1 \in Fails'
    BY <1>1, <1>2, <1>5, <1>6
  <2> QED
    BY <1>6, <2>1
<1>7. CASE ~Bad
  <2>1. Fails' = Fails
    BY <1>1, <1>2, <1>3, <1>4, <1>5, <1>7
  <2> QED
    BY <1>7, <2>1
<1> QED
  BY <1>6, <1>7

LEMMA CallScriptInv ==
  ASSUME LuaInv, CallScript
  PROVE  LuaInv'
<1> DEFINE s == Head(todo)
           n == Len(Kept) - Len(todo)
<1>1. /\ LuaTypeOK /\ LoopInv /\ ScriptsInv /\ OptsInv /\ TableInv /\ RanInv
      /\ stage = "call" /\ todo # <<>> /\ todo' = Tail(todo)
      /\ UNCHANGED <<given, stage, callback, list, nth, freed, tasks>>
  BY DEF LuaInv, CallScript
<1>2. /\ UNCHANGED <<ctx, matched, failonerror, fail>> /\ Fit' = Fit /\ Kept' = Kept
      /\ ran \in Seq(Calls) /\ rc \in Int /\ (rc < 0 <=> Fails # {}) /\ Called(n)
  BY <1>1, FitSame DEF given, Kept, LuaTypeOK, Calls, RanInv
<1>3. /\ s \in DOMAIN Script /\ Tail(todo) \in Seq(DOMAIN Script) /\ s \in Scripts
      /\ s = Kept[n + 1] /\ n + 1 \in DOMAIN Kept /\ n \in Nat
      /\ Len(Kept') - Len(todo') = n + 1
  <2>1. /\ Kept = list /\ list \in Seq(DOMAIN Script) /\ Place \in 1 .. Len(list)
        /\ s = list[Place] /\ s \in DOMAIN Script /\ Tail(todo) \in Seq(DOMAIN Script)
        /\ Len(Tail(todo)) = Len(todo) - 1 /\ s \in Scripts
    BY <1>1, Turn
  <2>2. Len(todo) \in Nat /\ Len(list) \in Nat /\ Place = n + 1
    BY <1>1, <2>1 DEF LuaTypeOK, Place
  <2> QED
    BY <1>1, <1>2, <2>1, <2>2
<1>4. LoopInv' /\ Scripts' = Scripts
  BY <1>1, TurnKeeps
<1>5. s \in Fit /\ stage # "closed"
  BY <1>1, <1>3 DEF ScriptsInv
<1>6. Script[s].adds \in Option \cup {Nil}
  BY <1>3, LuaAssumption
<1>7. TableInv'
  BY <1>1 DEF TableInv
<1>8. ASSUME /\ opts' \in Seq(Entries) /\ taken' \subseteq Accepts /\ OptsInv'
             /\ taken \subseteq taken' /\ ran' \in Seq(Calls) /\ rc' \in Int
             /\ Called(Len(Kept) - Len(todo))' /\ (rc' < 0 <=> Fails' # {})
      PROVE  LuaInv'
  <2>1. LuaTypeOK'
    BY <1>1, <1>2, <1>3, <1>8 DEF LuaTypeOK, Entries, Accepts, Calls
  <2>2. ScriptsInv'
    <3>1. \A t, k : (Owns(t, k) => Owns(t, k)') /\ (Refused(t) => Refused(t)')
      BY <1>8, Accepted
    <3> QED
      BY <1>1, <1>2, <1>4, <3>1 DEF ScriptsInv
  <2>3. RanInv'
    BY <1>1, <1>8 DEF RanInv
  <2> QED
    BY <1>4, <1>7, <1>8, <2>1, <2>2, <2>3 DEF LuaInv
<1> HIDE DEF s, n
<1>9. CASE callback \notin Script[s].defs /\ UNCHANGED <<ran, rc, opts, taken>>
  <2>1. \A k \in Nat : k = n => Called(k + 1)'
    BY <1>1, <1>2, <1>3, <1>9, CalledSkips
  <2>2. Called(Len(Kept) - Len(todo))'
    BY <1>3, <2>1
  <2>3. OptsInv'
    BY <1>1, <1>5, <1>9, NoOptionRegistered
  <2>4. opts \in Seq(Entries) /\ taken \subseteq Accepts
    BY <1>1 DEF LuaTypeOK, Entries, Accepts
  <2>5. Fails' = Fails
    BY <1>1, <1>9, FailsSame
  <2> QED
    BY <1>2, <1>8, <1>9, <2>2, <2>3, <2>4, <2>5
<1>10. CASE callback \in Script[s].defs /\ \E r \in {"success", "failure", "error"} : lua_spank_call(s, r)
  <2>1. PICK r \in {"success", "failure", "error"} : lua_spank_call(s, r)
    BY <1>10
  <2> DEFINE c == [script |-> s, result |-> r]
  <2>2. /\ c \in Calls /\ c.script = s /\ c.result = r
    BY <1>3 DEF Calls
  <2>3. /\ ran' = Append(ran, c) /\ ScriptRegisters(s, r)
        /\ rc' = IF c.result = "failure" \/ (c.result = "error" /\ fail) THEN -1 ELSE rc
    BY <2>1 DEF lua_spank_call
  <2> HIDE DEF c
  <2>4. \A k \in Nat : k = n => Called(k + 1)'
    BY <1>1, <1>2, <1>3, <1>10, <2>2, <2>3, CalledNext
  <2>5. Called(Len(Kept) - Len(todo))'
    BY <1>3, <2>4
  <2>6. rc' < 0 <=> Fails' # {}
    BY <1>1, <1>2, <2>2, <2>3, FailsNext
  <2>7. ran' \in Seq(Calls) /\ rc' \in Int
    BY <1>2, <2>2, <2>3
  <2>8. /\ opts' \in Seq(Entries) /\ taken' \subseteq Accepts /\ OptsInv'
        /\ taken \subseteq taken'
    <3>1. CASE UNCHANGED <<opts, taken>>
      <4>1. OptsInv'
        BY <1>1, <1>5, <3>1, NoOptionRegistered
      <4> QED
        BY <1>1, <3>1, <4>1 DEF LuaTypeOK, Entries, Accepts
    <3>2. CASE /\ callback = "init" /\ Script[s].adds # Nil
               /\ lua_script_option_register(s, Script[s].adds)
      <4>1. ctx = "step" /\ Script[s].adds \in Option
        BY <1>1, <1>6, <3>2 DEF LuaTypeOK
      <4> QED
        BY <1>1, <1>5, <3>2, <4>1, OptionRegistered
    <3> QED
      BY <2>3, <3>1, <3>2 DEF ScriptRegisters
  <2> QED
    BY <1>8, <2>5, <2>6, <2>7, <2>8
<1> QED
  BY <1>9, <1>10 DEF CallScript, s

LEMMA CallDoneInv ==
  ASSUME LuaInv, CallDone
  PROVE  LuaInv'
<1>1. /\ LuaTypeOK /\ LoopInv /\ ScriptsInv /\ OptsInv /\ TableInv /\ RanInv
      /\ stage = "call" /\ todo = <<>>
      /\ UNCHANGED <<given, callback, todo, nth, taken, ran, rc, tasks>>
  BY DEF LuaInv, CallDone
<1>2. CASE stage' = "idle" /\ UNCHANGED <<list, opts, freed>>
  BY <1>1, <1>2, StageMoves
<1>3. CASE stage' = "closed" /\ list' = Nil /\ opts' = <<>>
  <2>1. UNCHANGED <<ctx, matched, failonerror, fail>> /\ Fit' = Fit /\ Kept' = <<>>
    BY <1>1, <1>3, FitSame DEF given, Kept
  <2>2. LuaTypeOK'
    BY <1>1, <1>3, <2>1 DEF LuaTypeOK, Ends
  <2>3. LoopInv'
    BY <1>1, <1>3, <2>1 DEF LoopInv, IsInjective
  <2>4. OptsInv'
    BY <1>1, <1>3, <2>1 DEF OptsInv
  <2>5. ScriptsInv' /\ TableInv' /\ RanInv'
    BY <1>3 DEF ScriptsInv, TableInv, RanInv
  <2> QED
    BY <2>2, <2>3, <2>4, <2>5 DEF LuaInv
<1> QED
  BY <1>2, <1>3 DEF CallDone

LEMMA CallForeachInv ==
  ASSUME LuaInv, NEW c \in Follows(callback, rc), CallForeach(c)
  PROVE  LuaInv'
<1>1. /\ LuaTypeOK /\ LoopInv /\ ScriptsInv /\ OptsInv /\ TableInv /\ RanInv
      /\ stage = "idle" /\ stage' = "call" /\ callback' = c /\ c # "init" /\ todo' = Kept
      /\ ran' = <<>> /\ rc' = 0 /\ UNCHANGED <<given, list, nth, opts, taken, freed>>
  BY DEF LuaInv, CallForeach, Follows
<1>2. UNCHANGED <<ctx, matched, failonerror, fail>> /\ Fit' = Fit
  BY <1>1, FitSame DEF given
<1>3. /\ LoopInv' /\ Scripts' = Scripts /\ Len(Kept') - Len(todo') = 0
      /\ todo' \in Seq(DOMAIN Script)
  BY <1>1, LoopStarts
<1>4. LuaTypeOK'
  BY <1>1, <1>2, <1>3 DEF LuaTypeOK
<1>5. OptsInv'
  BY <1>1, NoOptionRegistered
<1>6. ScriptsInv'
  <2>1. \A t, n : (Owns(t, n) => Owns(t, n)') /\ (Refused(t) => Refused(t)')
    BY <1>1, Accepted
  <2> QED
    BY <1>1, <1>2, <1>3, <2>1 DEF ScriptsInv
<1>7. TableInv'
  BY <1>1 DEF TableInv
<1>8. RanInv'
  <2>1. Fails' = {}
    BY <1>1 DEF Fails
  <2> QED
    BY <1>1, <1>3, <2>1, CalledNone DEF RanInv
<1> QED
  BY <1>3, <1>4, <1>5, <1>6, <1>7, <1>8 DEF LuaInv

LEMMA LuaStep == LuaInv /\ [LuaNext]_luavars => LuaInv'
<1> SUFFICES ASSUME LuaInv, [LuaNext]_luavars PROVE LuaInv'
  OBVIOUS
<1>1. CASE UNCHANGED luavars
  BY <1>1, StageMoves DEF luavars
<1>2. ASSUME NEW t \in taken, lua_spank_option_callback(t)
      PROVE  LuaInv'
  <2>1. /\ UNCHANGED <<given, callback, list, todo, nth, opts, taken, ran, rc>>
        /\ stage # "closed" /\ (stage' = "undefined" \/ stage' = stage)
    BY <1>2 DEF lua_spank_option_callback
  <2> QED
    BY <2>1, StageMoves
<1> QED
  BY <1>1, <1>2, spank_lua_initInv, LoadScriptInv, LoadDoneInv, load_spank_options_tableInv,
     TableDoneInv, TablesDoneInv, CallScriptInv, CallDoneInv, CallForeachInv DEF LuaNext

-----------------------------------------------------------------------------
(* Why the plugin fails to start.                                          *)

LEMMA FailedOverLoading ==
  ASSUME LuaInv, LoadScript
  PROVE  FailedInv'
<1> DEFINE s == Head(todo)
<1>1. /\ LuaTypeOK /\ LoopInv /\ ScriptsInv /\ stage = "load" /\ todo # <<>> /\ UNCHANGED given
  BY DEF LuaInv, LoadScript
<1>2. s \in Scripts /\ s \in Range(todo)
  BY <1>1, Turn
<1>3. s \in Range(matched)
  BY <1>1, <1>2 DEF ScriptsInv
<1>4. /\ stage' \in {"load", "failed"}
      /\ stage' = "failed" => fail /\ ~Script[s].loads
  BY <1>1 DEF LoadScript
<1> HIDE DEF s
<1> QED
  BY <1>1, <1>3, <1>4 DEF FailedInv, given

LEMMA FailedOverTable ==
  ASSUME LuaInv, load_spank_options_table
  PROVE  FailedInv'
<1> DEFINE s == Head(todo)
           table == Script[s].table
           opt == table[nth + 1]
<1>1. /\ LuaTypeOK /\ LoopInv /\ ScriptsInv /\ TableInv /\ nth \in Nat
      /\ stage = "table" /\ todo # <<>> /\ nth < Len(table) /\ UNCHANGED given
  BY DEF LuaInv, load_spank_options_table, LuaTypeOK
<1>2. /\ s \in DOMAIN Script /\ s \in Scripts /\ s \in Range(todo)
  BY <1>1, Turn
<1>3. s \in Range(matched)
  BY <1>1, <1>2 DEF ScriptsInv, Fit
<1>4. /\ table \in Seq(Option) /\ opt \in Option /\ nth + 1 \in 1 .. Len(table)
      /\ DOMAIN table = 1 .. Len(table)
  <2>1. table \in Seq(Option)
    BY <1>2, LuaAssumption
  <2> QED
    BY <1>1, <2>1
<1>5. \A t \in taken : t.script = s => \E j \in 1 .. nth : table[j].name = t.name
  BY <1>1 DEF TableInv
<1>6. /\ stage' \in {"table", "undefined", "failed"}
      /\ stage' = "failed" => fail /\ ~NameFree(opt) /\ lua_script_option_register(s, opt)
  BY <1>1 DEF load_spank_options_table
<1> HIDE DEF s, opt, table
<1>7. ASSUME ~NameFree(opt), lua_script_option_register(s, opt)
      PROVE  \E r \in Range(matched) : Refused(r)'
  <2>1. PICK t \in taken : t.name = opt.name
    BY <1>7 DEF NameFree
  <2>2. Refused(s)
    <3>1. CASE t.script # s
      BY <1>4, <2>1, <3>1 DEF Refused, table, opt
    <3>2. CASE t.script = s
      <4>1. PICK j \in 1 .. nth : table[j].name = t.name
        BY <1>5, <3>2
      <4>2. j \in 1 .. (nth + 1) - 1
        BY <1>1
      <4> QED
        BY <1>4, <2>1, <4>1, <4>2 DEF Refused, table, opt
    <3> QED
      BY <3>1, <3>2
  <2>3. taken \subseteq taken'
    BY <1>7 DEF lua_script_option_register
  <2>4. PICK r \in Range(matched) : r = s
    BY <1>3
  <2>5. Refused(r)'
    BY <2>2, <2>3, <2>4, Accepted
  <2> QED
    BY <2>5
<1> QED
  BY <1>1, <1>3, <1>6, <1>7 DEF FailedInv, given

LEMMA FailedStep == LuaInv /\ FailedInv /\ [LuaNext]_luavars => FailedInv'
<1> SUFFICES ASSUME LuaInv, FailedInv, [LuaNext]_luavars PROVE FailedInv'
  OBVIOUS
<1>1. CASE UNCHANGED luavars
  BY <1>1 DEF luavars, given, FailedInv, Refused
<1>2. CASE spank_lua_init
  BY <1>2 DEF spank_lua_init, FailedInv
<1>3. CASE \/ LoadDone \/ TablesDone \/ CallDone
           \/ \E c \in Follows(callback, rc) : CallForeach(c)
  BY <1>3 DEF LoadDone, TablesDone, CallDone, CallForeach, FailedInv
<1>4. CASE TableDone \/ CallScript \/ \E t \in taken : lua_spank_option_callback(t)
  BY <1>4 DEF TableDone, CallScript, lua_spank_option_callback, FailedInv
<1> QED
  BY <1>1, <1>2, <1>3, <1>4, FailedOverLoading, FailedOverTable DEF LuaNext

-----------------------------------------------------------------------------
(* The theorems about lua.                                                 *)

\* What became of each script and of each option is known in every reachable
\* state, for every match, every table and every result of the scripts.
THEOREM LuaInvariance == LuaSpec => []LuaInv
BY LuaStart, LuaStep, PTL DEF LuaSpec

\* When a callback returns, each script that is kept and has the function ran it
\* once, in the list's order, and the result is that of the calls.
THEOREM CallsInOrder == LuaSpec => []EachCalledOnce
<1>1. LuaInv => EachCalledOnce
  <2> SUFFICES ASSUME LuaInv, stage = "idle"
               PROVE  Called(Len(Kept)) /\ (rc < 0 <=> Fails # {})
    BY DEF EachCalledOnce
  <2>1. Called(Len(Kept) - Len(todo)) /\ (rc < 0 <=> Fails # {}) /\ todo = <<>>
    BY DEF LuaInv, RanInv, LoopInv
  <2>2. Kept \in Seq(DOMAIN Script)
    <3>1. CASE list = Nil
      BY <3>1 DEF Kept
    <3>2. CASE list # Nil
      BY <3>2 DEF Kept, LuaInv, LuaTypeOK
    <3> QED
      BY <3>1, <3>2
  <2>3. Len(Kept) - Len(todo) = Len(Kept)
    BY <2>1, <2>2
  <2> QED
    BY <2>1, <2>3
<1> QED
  BY <1>1, LuaInvariance, PTL

\* A script that cannot be loaded costs no other its place; one that can is
\* dropped only over an option of its table whose name SLURM has already, be it
\* from a script dropped since; and only these, with fail_on_error set, or a
\* missing liblua keep the plugin from starting.
THEOREM BrokenCostNobody == LuaSpec => []BrokenScriptsAlone
<1>1. LuaInv /\ FailedInv => BrokenScriptsAlone
  <2> SUFFICES ASSUME LuaInv, stage = "idle"
               PROVE  /\ Scripts = {s \in Fit : ctx = "step" => ~Refused(s)}
                      /\ \A t \in taken : t.script \in Fit
                      /\ failonerror => \A s \in Range(matched) :
                                          Script[s].loads /\ (s \in Scripts \/ s \notin Fit)
    BY DEF BrokenScriptsAlone, FailedInv
  <2>1. /\ Scripts \subseteq Fit /\ (fail => \A s \in Range(matched) : Script[s].loads)
        /\ \A s \in Fit \ Scripts : ctx = "step" /\ Refused(s) /\ ~fail
        /\ ctx = "step" => \A s \in Scripts : Owns(s, Len(Script[s].table))
        /\ OptsInv /\ (failonerror => fail) /\ Fit \subseteq DOMAIN Script
    BY FitIs DEF LuaInv, ScriptsInv, LuaTypeOK
  <2>2. ctx = "step" => \A s \in Scripts : ~Refused(s)
    <3> SUFFICES ASSUME ctx = "step", NEW s \in Scripts PROVE ~Refused(s)
      OBVIOUS
    <3>1. Script[s].table \in Seq(Option)
      BY <2>1, LuaAssumption
    <3> QED
      BY <2>1, <3>1, OwnsAll
  <2>3. \A t \in taken : t.script \in Fit
    BY <2>1 DEF OptsInv
  <2> QED
    BY <2>1, <2>2, <2>3
<1>2. LuaInit => FailedInv
  BY DEF LuaInit, FailedInv
<1>3. LuaInv /\ FailedInv /\ [LuaNext]_luavars => FailedInv'
  BY FailedStep
<1> QED
  BY <1>1, <1>2, <1>3, LuaInvariance, PTL DEF LuaSpec

\* The number of an option leads to the script that registered it.
THEOREM OptionsLeadHome == LuaSpec => []OptionOwner
<1>1. LuaInv => OptionOwner
  <2> SUFFICES ASSUME LuaInv, stage = "idle", NEW t \in taken,
                      NEW o, o = SelectInSeq(opts, LAMBDA p : p.val = t.val)
               PROVE  /\ o # 0 /\ opts[o].script = t.script /\ opts[o].name = t.name
                      /\ t.script \in Scripts \/ Refused(t.script)
    BY DEF OptionOwner
  <2> DEFINE n == Len(opts) - t.val
             I == {i \in 1 .. Len(opts) : opts[i].val = t.val}
  <2>1. /\ opts \in Seq(Entries) /\ t.val \in Nat /\ t.val < Len(opts) /\ Len(opts) \in Nat
        /\ opts[n].script = t.script /\ opts[n].name = t.name
        /\ \A i \in 1 .. Len(opts) : opts[i].val = Len(opts) - i
    BY DEF LuaInv, OptsInv, LuaTypeOK, Entries
  <2>2. n \in 1 .. Len(opts) /\ n # 0
    BY <2>1
  <2>3. I = {n}
    BY <2>1, <2>2
  <2>4. o = IF I # {} THEN Min(I) ELSE 0
    BY DEF SelectInSeq
  <2> HIDE DEF I, n
  <2>5. Min({n}) = n
    BY <2>2 DEF Min
  <2>6. o = n
    BY <2>3, <2>4, <2>5
  <2>7. t.script \in Scripts \/ Refused(t.script)
    BY DEF LuaInv, OptsInv, ScriptsInv
  <2> QED
    BY <2>1, <2>2, <2>6, <2>7
<1> QED
  BY <1>1, LuaInvariance, PTL

-----------------------------------------------------------------------------
(* slurm-cpuset's configuration: every setting is the last one given       *)
(* (LastSettingWins), for any files on disk and any words. Two functions   *)
(* are defined by recursion over data: what a parse makes of the settings  *)
(* (FoldLeft), shown to be Overlay, and the statements that a list of      *)
(* words stands for (FlattenSeq), shown to grow by one word at a time.     *)

\* The greatest element.
LEMMA MaxIs ==
  ASSUME NEW T \in SUBSET Int, NEW x \in T, \A y \in T : y <= x
  PROVE  Max(T) = x
<1> DEFINE P(m) == m \in T /\ \A y \in T : m >= y
<1>1. P(x)
  OBVIOUS
<1>2. P(Max(T))
  <2>1. Max(T) = CHOOSE m : P(m)
    BY DEF Max
  <2> QED
    BY <1>1, <2>1, Zenon
<1>3. PICK m \in T : m = Max(T)
  BY <1>2
<1>4. m \in Int /\ x \in Int /\ m >= x /\ m <= x
  BY <1>2, <1>3
<1> QED
  BY <1>3, <1>4

\* The last statement about a setting is one about it, and no later one is.
LEMMA LastIs ==
  ASSUME NEW S, NEW text \in Seq(S), NEW k
  PROVE  /\ LastOf(text, k) \in 0 .. Len(text)
         /\ LastOf(text, k) # 0 => text[LastOf(text, k)].key = k
         /\ \A j \in 1 .. Len(text) : text[j].key = k => j <= LastOf(text, k)
<1> DEFINE I == {i \in 1 .. Len(text) : text[i].key = k}
<1>1. LastOf(text, k) = IF I # {} THEN Max(I) ELSE 0
  BY DEF LastOf, SelectLastInSeq
<1>2. Len(text) \in Nat
  OBVIOUS
<1> HIDE DEF I
<1>3. CASE I = {}
  BY <1>1, <1>2, <1>3 DEF I
<1>4. CASE I # {}
  <2>1. PICK n \in I : \A m \in I : m <= n
    <3>1. I \in SUBSET (1 .. Len(text))
      BY DEF I
    <3> QED
      BY <1>2, <1>4, <3>1, Greatest, Zenon
  <2>2. Max(I) = n
    <3>1. I \in SUBSET Int
      BY DEF I
    <3> QED
      BY <2>1, <3>1, MaxIs, Zenon
  <2>3. LastOf(text, k) = n
    BY <1>1, <1>4, <2>2
  <2>4. n \in 1 .. Len(text) /\ text[n].key = k
    BY <2>1 DEF I
  <2>5. \A j \in 1 .. Len(text) : text[j].key = k => j <= n
    BY <2>1 DEF I
  <2> QED
    BY <1>2, <2>3, <2>4, <2>5
<1> QED
  BY <1>3, <1>4

\* And nothing else is.
LEMMA LastOnly ==
  ASSUME NEW S, NEW text \in Seq(S), NEW k, NEW i \in 0 .. Len(text),
         i # 0 => text[i].key = k, \A j \in 1 .. Len(text) : text[j].key = k => j <= i
  PROVE  LastOf(text, k) = i
<1>1. /\ LastOf(text, k) \in 0 .. Len(text)
      /\ LastOf(text, k) # 0 => text[LastOf(text, k)].key = k
      /\ \A j \in 1 .. Len(text) : text[j].key = k => j <= LastOf(text, k)
  BY LastIs
<1> QED
  BY <1>1

\* What statements make of the settings that there were.
Overlay(conf, text) ==
  [k \in DOMAIN Defaults |->
     IF LastOf(text, k) = 0 THEN conf[k] ELSE text[LastOf(text, k)].val]

\* Two texts in a row.
LEMMA OverlayTwice ==
  ASSUME NEW S, NEW a \in Seq(S), NEW b \in Seq(S), NEW conf
  PROVE  Overlay(Overlay(conf, a), b) = Overlay(conf, a \o b)
<1> SUFFICES ASSUME NEW k \in DOMAIN Defaults
             PROVE  Overlay(Overlay(conf, a), b)[k] = Overlay(conf, a \o b)[k]
  BY DEF Overlay
<1> DEFINE i == LastOf(a, k)
           j == LastOf(b, k)
<1>1. /\ a \o b \in Seq(S) /\ Len(a) \in Nat /\ Len(b) \in Nat
      /\ Len(a \o b) = Len(a) + Len(b)
      /\ \A n \in 1 .. Len(a) : (a \o b)[n] = a[n]
      /\ \A n \in 1 .. Len(b) : (a \o b)[Len(a) + n] = b[n]
  OBVIOUS
<1>2. /\ i \in 0 .. Len(a)
      /\ i # 0 => a[i].key = k
      /\ \A n \in 1 .. Len(a) : a[n].key = k => n <= i
  BY LastIs
<1>3. /\ j \in 0 .. Len(b)
      /\ j # 0 => b[j].key = k
      /\ \A n \in 1 .. Len(b) : b[n].key = k => n <= j
  BY LastIs
<1>4. /\ Overlay(conf, a)[k] = IF i = 0 THEN conf[k] ELSE a[i].val
      /\ Overlay(Overlay(conf, a), b)[k] = IF j = 0 THEN Overlay(conf, a)[k] ELSE b[j].val
  BY DEF Overlay
<1>5. Overlay(conf, a \o b)[k] =
        IF LastOf(a \o b, k) = 0 THEN conf[k] ELSE (a \o b)[LastOf(a \o b, k)].val
  BY DEF Overlay
<1> HIDE DEF i, j
<1>6. PICK la \in Nat : la = Len(a)
  BY <1>1
<1>7. PICK lb \in Nat : lb = Len(b)
  BY <1>1
<1> DEFINE c == IF j = 0 THEN i ELSE la + j
<1>8. i \in 0 .. la /\ j \in 0 .. lb /\ c \in 0 .. la + lb /\ Len(a \o b) = la + lb
  <2>1. i \in 0 .. la /\ j \in 0 .. lb
    <3>1. i \in 0 .. Len(a) /\ j \in 0 .. Len(b)
      BY <1>2, <1>3, Zenon
    <3> QED
      BY ONLY <3>1, <1>6, <1>7, Zenon
  <2>2. c \in 0 .. la + lb
    BY ONLY <2>1, la \in Nat, lb \in Nat
  <2>3. Len(a \o b) = la + lb
    BY <1>1, <1>6, <1>7
  <2> QED
    BY <2>1, <2>2, <2>3
<1>9. c # 0 => (a \o b)[c].key = k
  <2>1. CASE j = 0
    BY <1>1, <1>2, <1>6, <1>8, <2>1
  <2>2. CASE j # 0
    <3>1. j \in 1 .. Len(b) /\ c = Len(a) + j
      BY <1>6, <1>7, <1>8, <2>2
    <3>2. (a \o b)[Len(a) + j] = b[j]
      BY <1>1, <3>1
    <3> HIDE DEF c
    <3> QED
      BY <1>3, <2>2, <3>1, <3>2
  <2> QED
    BY <2>1, <2>2
<1>10. ASSUME NEW n \in 1 .. Len(a \o b), (a \o b)[n].key = k PROVE n <= c
  <2>0. n \in 1 .. la + lb
    BY <1>8
  <2>1. CASE n <= la
    <3>1. n \in 1 .. Len(a) /\ (a \o b)[n] = a[n]
      BY <1>1, <1>6, <2>0, <2>1
    <3>2. n <= i
      BY <1>2, <1>10, <3>1
    <3> QED
      BY ONLY <1>8, <2>0, <2>1, <3>2
  <2>2. CASE n > la
    <3>1. n - la \in 1 .. Len(b) /\ n = Len(a) + (n - la)
      BY <1>6, <1>7, <2>0, <2>2
    <3>2. b[n - la].key = k
      BY <1>1, <1>10, <3>1
    <3>3. n - la <= j
      BY <1>3, <3>1, <3>2
    <3> QED
      BY ONLY <1>8, <2>0, <2>2, <3>3
  <2> QED
    BY ONLY <2>0, <2>1, <2>2
<1>11. LastOf(a \o b, k) = c
  <2>1. c \in 0 .. Len(a \o b)
    BY <1>8
  <2> HIDE DEF c
  <2> QED
    BY <1>1, <1>9, <1>10, <2>1, LastOnly
<1>12. CASE j = 0
  <2>1. i # 0 => (a \o b)[i] = a[i]
    BY <1>1, <1>6, <1>8
  <2> QED
    BY <1>4, <1>5, <1>11, <1>12, <2>1
<1>13. CASE j # 0
  <2>1. c = Len(a) + j /\ c # 0 /\ j \in 1 .. Len(b)
    BY <1>6, <1>7, <1>8, <1>13
  <2>2. (a \o b)[c] = b[j]
    BY <1>1, <2>1
  <2> QED
    BY <1>4, <1>5, <1>11, <1>13, <2>1, <2>2
<1> QED
  BY <1>12, <1>13


-----------------------------------------------------------------------------
(* A fold, and a concatenation.                                            *)

\* A fold applies the statements from first to last.
LEMMA FoldIs ==
  ASSUME NEW S, NEW text \in Seq(S), NEW conf, conf = [k \in DOMAIN Defaults |-> conf[k]]
  PROVE  FoldLeft(Apply, conf, text) = Overlay(conf, text)
<1> DEFINE K == DOMAIN Defaults
           About(s, k) == {i \in s : text[i].key = k}
           D == 1 .. Len(text)
           g == [s \in SUBSET D |->
                   [k \in K |-> IF About(s, k) = {} THEN conf[k] ELSE text[Max(About(s, k))].val]]
           P(h) == h = [s \in SUBSET D |->
                          IF s = {} THEN conf
                          ELSE [h[s \ {Max(s)}] EXCEPT ![text[Max(s)].key] = text[Max(s)].val]]
           it == CHOOSE h : P(h)
<1>1. Len(text) \in Nat /\ DOMAIN text = D
  OBVIOUS
<1>2. ASSUME NEW s \in SUBSET D, s # {}
      PROVE  Max(s) \in s /\ \A i \in s : i <= Max(s)
  <2>1. PICK n \in s : \A m \in s : m <= n
    BY <1>1, <1>2, Greatest
  <2>2. Max(s) = n
    <3>1. s \in SUBSET Int
      BY <1>1
    <3> QED
      BY <2>1, <3>1, MaxIs, Zenon
  <2> QED
    BY <2>1, <2>2, Zenon
<1>3. P(g)
  <2>1. ASSUME NEW s \in SUBSET D, s # {}
        PROVE  g[s] = [g[s \ {Max(s)}] EXCEPT ![text[Max(s)].key] = text[Max(s)].val]
    <3> DEFINE m == Max(s)
               r == s \ {m}
    <3>1. m \in s /\ \A i \in s : i <= m
      BY <1>2, <2>1
    <3>2. r \in SUBSET D
      OBVIOUS
    <3>3. g[s] = [k \in K |-> IF About(s, k) = {} THEN conf[k] ELSE text[Max(About(s, k))].val]
      OBVIOUS
    <3>4. g[r] = [k \in K |-> IF About(r, k) = {} THEN conf[k] ELSE text[Max(About(r, k))].val]
      BY <3>2
    <3> HIDE DEF g, m, r
    <3>5. ASSUME NEW k \in K
          PROVE  g[s][k] = IF k = text[m].key THEN text[m].val ELSE g[r][k]
      <4>1. CASE k = text[m].key
        <5>1. About(s, k) \in SUBSET Int /\ m \in About(s, k) /\ \A y \in About(s, k) : y <= m
          BY <1>1, <3>1, <4>1
        <5> HIDE DEF About
        <5>2. Max(About(s, k)) = m
          BY <5>1, MaxIs, Zenon
        <5> QED
          BY <3>3, <4>1, <5>1, <5>2
      <4>2. CASE k # text[m].key
        <5>1. About(s, k) = About(r, k)
          BY <3>1, <4>2 DEF r
        <5> HIDE DEF About
        <5> QED
          BY <3>3, <3>4, <4>2, <5>1
      <4> QED
        BY <4>1, <4>2
    <3> HIDE DEF About
    <3>6. g[s] = [k \in K |-> g[s][k]] /\ g[r] = [k \in K |-> g[r][k]]
      BY <3>3, <3>4
    <3>7. g[s] = [g[r] EXCEPT ![text[m].key] = text[m].val]
      <4> HIDE DEF K
      <4> QED
        BY <3>5, <3>6
    <3> QED
      BY <3>7 DEF m, r
  <2>2. g[{}] = conf
    <3>1. \A k \in K : About({}, k) = {}
      OBVIOUS
    <3>2. g[{}] = [k \in K |-> IF About({}, k) = {} THEN conf[k] ELSE text[Max(About({}, k))].val]
      OBVIOUS
    <3> HIDE DEF g, About
    <3> QED
      BY <3>1, <3>2
  <2>3. DOMAIN g = SUBSET D /\ g = [s \in SUBSET D |-> g[s]]
    OBVIOUS
  <2> HIDE DEF g, D
  <2> QED
    BY <2>1, <2>2, <2>3, Zenon
<1>4. P(it)
  <2> HIDE DEF P
  <2> QED
    BY <1>3, Zenon
<1>5. FoldLeft(Apply, conf, text) = it[D]
  <2>1. D = DOMAIN text
    BY <1>1
  <2> QED
    BY <2>1 DEF FoldLeft, MapThenFoldSet, Apply
<1> DEFINE T == {n \in Nat : n <= Len(text) => it[1 .. n] = g[1 .. n]}
<1>6. it[{}] = g[{}] /\ \A s \in SUBSET D : s # {} => it[s] = [it[s \ {Max(s)}] EXCEPT ![text[Max(s)].key] = text[Max(s)].val]
        /\ g[s] = [g[s \ {Max(s)}] EXCEPT ![text[Max(s)].key] = text[Max(s)].val]
  BY <1>3, <1>4
<1> HIDE DEF it, g
<1>7. 0 \in T
  <2>1. 1 .. 0 = {}
    OBVIOUS
  <2> QED
    BY <1>6, <2>1
<1>8. ASSUME NEW n \in T PROVE n + 1 \in T
  <2> SUFFICES ASSUME n + 1 <= Len(text) PROVE it[1 .. n + 1] = g[1 .. n + 1]
    OBVIOUS
  <2>1. n \in Nat /\ it[1 .. n] = g[1 .. n]
    BY <1>1
  <2> DEFINE s == 1 .. n + 1
  <2>2. s \in SUBSET D /\ s # {}
    BY <1>1, <2>1
  <2>3. Max(s) = n + 1
    <3>1. s \in SUBSET Int /\ n + 1 \in s /\ \A y \in s : y <= n + 1
      BY <2>1
    <3> HIDE DEF s
    <3> QED
      BY <3>1, MaxIs, Zenon
  <2>4. s \ {Max(s)} = 1 .. n
    BY <2>1, <2>3
  <2> HIDE DEF s
  <2>5. it[s] = g[s]
    <3> DEFINE r == s \ {Max(s)}
    <3>1. it[r] = g[r]
      BY <2>1, <2>4, Zenon
    <3>2. /\ it[s] = [it[r] EXCEPT ![text[Max(s)].key] = text[Max(s)].val]
          /\ g[s] = [g[r] EXCEPT ![text[Max(s)].key] = text[Max(s)].val]
      BY <1>6, <2>2, Zenon
    <3> QED
      BY <3>1, <3>2, Zenon
  <2> QED
    BY <2>5 DEF s
<1>9. it[D] = g[D]
  <2> HIDE DEF T
  <2>1. T \in SUBSET Nat
    BY DEF T
  <2>2. Len(text) \in T
    BY <1>1, <1>7, <1>8, <2>1, Induct
  <2> QED
    BY <1>1, <2>2 DEF T
<1>10. \A k \in K : LastOf(text, k) = IF About(D, k) # {} THEN Max(About(D, k)) ELSE 0
  BY DEF LastOf, SelectLastInSeq
<1>11. \A k \in K : About(D, k) # {} => Max(About(D, k)) # 0
  <2> SUFFICES ASSUME NEW k \in K, About(D, k) # {} PROVE Max(About(D, k)) # 0
    OBVIOUS
  <2>1. About(D, k) \in SUBSET D
    OBVIOUS
  <2> HIDE DEF About
  <2> QED
    BY <1>2, <2>1
<1>12. g[D] = [k \in K |-> IF About(D, k) = {} THEN conf[k] ELSE text[Max(About(D, k))].val]
  BY DEF g
<1> HIDE DEF About
<1>13. g[D] = Overlay(conf, text)
  BY <1>10, <1>11, <1>12 DEF Overlay
<1> QED
  BY <1>5, <1>9, <1>13

\* g[n] is the concatenation of the first n sequences of sq.
Sums(g, sq, S) ==
  /\ g[0] = <<>>
  /\ \A n \in 1 .. Len(sq) : g[n] = g[n - 1] \o sq[n]
  /\ \A n \in 0 .. Len(sq) : g[n] \in Seq(S)

\* What a sequence of sequences has.
LEMMA Elements ==
  ASSUME NEW Q, NEW s \in Seq(Q)
  PROVE  Len(s) \in Nat /\ DOMAIN s = 1 .. Len(s) /\ \A n \in 1 .. Len(s) : s[n] \in Q
OBVIOUS

\* There is such a function.
LEMMA SumsExist ==
  ASSUME NEW S, NEW sq \in Seq(Seq(S))
  PROVE  \E g : Sums(g, sq, S)
<1>0. Len(sq) \in Nat /\ \A n \in 1 .. Len(sq) : sq[n] \in Seq(S)
  BY Elements, Zenon
<1> DEFINE OK(g, k) == g[0] = <<>> /\ \A n \in 1 .. k : g[n] = g[n - 1] \o sq[n]
           R(k) == \E g \in [0 .. k -> Seq(S)] : OK(g, k)
           T == {k \in Nat : k <= Len(sq) => R(k)}
<1>1. 0 \in T
  <2>1. [n \in 0 .. 0 |-> <<>>] \in [0 .. 0 -> Seq(S)] /\ OK([n \in 0 .. 0 |-> <<>>], 0)
    OBVIOUS
  <2> QED
    BY <2>1
<1>2. ASSUME NEW k \in T PROVE k + 1 \in T
  <2> HIDE DEF R
  <2> SUFFICES ASSUME k + 1 <= Len(sq) PROVE R(k + 1)
    BY DEF T
  <2>0. k \in Nat /\ k + 1 \in 1 .. Len(sq) /\ R(k)
    BY <1>0
  <2> USE DEF R
  <2>1. PICK g \in [0 .. k -> Seq(S)] : OK(g, k)
    BY <2>0
  <2> DEFINE h == [n \in 0 .. k + 1 |-> IF n = k + 1 THEN g[k] \o sq[k + 1] ELSE g[n]]
  <2>2. k \in Nat /\ g[k] \in Seq(S) /\ sq[k + 1] \in Seq(S) /\ g[k] \o sq[k + 1] \in Seq(S)
    <3>1. g[k] \in Seq(S)
      BY <2>0
    <3>2. sq[k + 1] \in Seq(S)
      BY <1>0, <2>0
    <3> QED
      BY <2>0, <3>1, <3>2
  <2>3. h \in [0 .. k + 1 -> Seq(S)]
    BY <2>2
  <2>4. \A n \in 0 .. k : h[n] = g[n]
    BY <2>2
  <2>5. h[k + 1] = g[k] \o sq[k + 1]
    BY <2>2
  <2> HIDE DEF h
  <2>6. h[0] = <<>>
    BY <2>1, <2>2, <2>4
  <2>7. ASSUME NEW n \in 1 .. k + 1 PROVE h[n] = h[n - 1] \o sq[n]
    <3>1. CASE n = k + 1
      <4>1. n - 1 = k /\ k \in 0 .. k
        BY <2>0, <3>1
      <4> QED
        BY <2>4, <2>5, <3>1, <4>1
    <3>2. CASE n # k + 1
      <4>1. n \in 1 .. k /\ n \in 0 .. k /\ n - 1 \in 0 .. k
        BY <2>2, <3>2
      <4> QED
        BY <2>1, <2>4, <4>1
    <3> QED
      BY <3>1, <3>2
  <2> QED
    BY <2>3, <2>6, <2>7
<1> HIDE DEF R, T
<1>3. Len(sq) \in T
  <2>1. T \in SUBSET Nat
    BY DEF T
  <2> QED
    BY <1>0, <1>1, <1>2, <2>1, Induct
<1>4. PICK g \in [0 .. Len(sq) -> Seq(S)] : OK(g, Len(sq))
  <2>1. R(Len(sq))
    BY <1>0, <1>3 DEF T
  <2> QED
    BY <2>1 DEF R
<1> QED
  <2>1. \A n \in 0 .. Len(sq) : g[n] \in Seq(S)
    BY <1>4
  <2> QED
    BY <1>4, <2>1 DEF Sums

\* And the concatenation is its last value.
LEMMA FlattenIs ==
  ASSUME NEW S, NEW sq \in Seq(Seq(S)), NEW g, Sums(g, sq, S)
  PROVE  FlattenSeq(sq) = g[Len(sq)]
<1>0. Len(sq) \in Nat /\ \A n \in 1 .. Len(sq) : sq[n] \in Seq(S)
  BY Elements, Zenon
<1>1. CASE Len(sq) = 0
  <2>1. sq = <<>>
    BY <1>1
  <2> QED
    BY <1>1, <2>1 DEF FlattenSeq, Sums
<1>2. CASE Len(sq) # 0
  <2> DEFINE P(h) == h = [i \in 1 .. Len(sq) |-> IF i = 1 THEN sq[i] ELSE h[i - 1] \o sq[i]]
             it == CHOOSE h : P(h)
             f == [i \in 1 .. Len(sq) |-> g[i]]
  <2>1. Len(sq) \in Nat /\ Len(sq) >= 1
    BY <1>0, <1>2
  <2>2. g[1] = sq[1]
    <3>1. 1 \in 1 .. Len(sq) /\ 1 - 1 = 0
      BY <2>1
    <3>2. sq[1] \in Seq(S)
      BY <1>0, <3>1
    <3>3. g[1] = <<>> \o sq[1]
      BY <3>1, Zenon DEF Sums
    <3> QED
      BY <3>2, <3>3
  <2>3. P(f)
    <3>1. ASSUME NEW i \in 1 .. Len(sq), i # 1
          PROVE  i - 1 \in 1 .. Len(sq) /\ f[i] = f[i - 1] \o sq[i]
      <4>1. i - 1 \in 1 .. Len(sq)
        BY <2>1, <3>1
      <4>2. g[i] = g[i - 1] \o sq[i]
        BY Zenon DEF Sums
      <4> QED
        BY <4>1, <4>2
    <3>2. f[1] = sq[1]
      BY <2>1, <2>2
    <3>3. f = [i \in 1 .. Len(sq) |-> f[i]]
      OBVIOUS
    <3> HIDE DEF f
    <3> QED
      BY <3>1, <3>2, <3>3
  <2>4. P(it)
    <3> HIDE DEF P
    <3> QED
      BY <2>3, Zenon
  <2>5. FlattenSeq(sq) = it[Len(sq)]
    BY <1>2 DEF FlattenSeq
  <2>6. \A i \in 1 .. Len(sq) : it[i] = IF i = 1 THEN sq[i] ELSE it[i - 1] \o sq[i]
    BY <2>4
  <2> HIDE DEF it, f
  <2> DEFINE T == {n \in Nat : n + 1 <= Len(sq) => it[n + 1] = g[n + 1]}
  <2>7. 0 \in T
    BY <2>1, <2>2, <2>6
  <2>8. ASSUME NEW n \in T PROVE n + 1 \in T
    <3> SUFFICES ASSUME (n + 1) + 1 <= Len(sq) PROVE it[(n + 1) + 1] = g[(n + 1) + 1]
      OBVIOUS
    <3> DEFINE m == (n + 1) + 1
    <3>1. m \in 1 .. Len(sq) /\ m # 1 /\ it[m - 1] = g[m - 1]
      <4>1. n \in Nat /\ m - 1 = n + 1 /\ n + 1 <= Len(sq)
        BY <2>1
      <4> QED
        BY <2>1, <4>1
    <3> HIDE DEF m
    <3>2. it[m] = it[m - 1] \o sq[m] /\ g[m] = g[m - 1] \o sq[m]
      BY <2>6, <3>1 DEF Sums
    <3> QED
      BY <3>1, <3>2 DEF m
  <2> HIDE DEF T
  <2>9. Len(sq) - 1 \in T
    <3>1. T \in SUBSET Nat
      BY DEF T
    <3>2. T = Nat
      BY <2>7, <2>8, <3>1, Induct
    <3> QED
      BY <2>1, <3>2
  <2>10. (Len(sq) - 1) + 1 = Len(sq)
    BY <2>1
  <2>11. it[Len(sq)] = g[Len(sq)]
    BY <2>1, <2>9, <2>10 DEF T
  <2> QED
    BY <2>5, <2>11
<1> QED
  BY <1>1, <1>2

\* One word more adds what it stands for.
LEMMA ExpandPrefix ==
  ASSUME NEW S, NEW W, \A w \in W : Means(w) \in Seq(S), NEW words \in Seq(W)
  PROVE  /\ Expand(<<>>) = <<>>
         /\ \A n \in 0 .. Len(words) : Expand(SubSeq(words, 1, n)) \in Seq(S)
         /\ \A n \in 1 .. Len(words) :
              Expand(SubSeq(words, 1, n)) = Expand(SubSeq(words, 1, n - 1)) \o Means(words[n])
<1> DEFINE sq(l) == [i \in DOMAIN l |-> Means(l[i])]
           pre(n) == SubSeq(words, 1, n)
<1>1. ASSUME NEW l \in Seq(W)
      PROVE  /\ sq(l) \in Seq(Seq(S)) /\ Len(sq(l)) = Len(l)
             /\ \A i \in 1 .. Len(l) : sq(l)[i] = Means(l[i])
  <2>1. DOMAIN l = 1 .. Len(l) /\ Len(l) \in Nat /\ \A i \in 1 .. Len(l) : l[i] \in W
    OBVIOUS
  <2>2. sq(l) \in [1 .. Len(l) -> Seq(S)]
    BY <2>1
  <2> QED
    BY <2>1, <2>2
<1>2. PICK g : Sums(g, sq(words), S)
  <2> HIDE DEF sq
  <2> QED
    BY <1>1, SumsExist
<1>3. ASSUME NEW n \in 0 .. Len(words)
      PROVE  pre(n) \in Seq(W) /\ Len(pre(n)) = n /\ \A i \in 1 .. n : pre(n)[i] = words[i]
  <2>1. \A i \in 1 .. n : words[i] \in W
    BY <1>3
  <2> QED
    BY <1>3, <2>1, SubSeqProperties
<1>4. ASSUME NEW n \in 0 .. Len(words) PROVE Expand(pre(n)) = g[n]
  <2>1. pre(n) \in Seq(W) /\ Len(pre(n)) = n /\ \A i \in 1 .. n : pre(n)[i] = words[i]
    BY <1>3
  <2>2. /\ sq(pre(n)) \in Seq(Seq(S)) /\ Len(sq(pre(n))) = n
        /\ \A i \in 1 .. n : sq(pre(n))[i] = Means(words[i])
    <3> HIDE DEF sq, pre
    <3> QED
      BY <1>1, <2>1
  <2>3. /\ Len(sq(words)) = Len(words) /\ Len(words) \in Nat
        /\ \A i \in 1 .. Len(words) : sq(words)[i] = Means(words[i])
    <3> HIDE DEF sq
    <3> QED
      BY <1>1
  <2> HIDE DEF sq, pre
  <2>4. Sums(g, sq(pre(n)), S)
    <3>1. \A i \in 1 .. n : i \in 1 .. Len(sq(words)) /\ sq(pre(n))[i] = sq(words)[i]
      BY <2>2, <2>3
    <3>2. \A i \in 0 .. n : i \in 0 .. Len(sq(words))
      BY <2>3
    <3>3. \A i \in 1 .. n : g[i] = g[i - 1] \o sq(pre(n))[i]
      BY <1>2, <3>1, Zenon DEF Sums
    <3> QED
      BY <1>2, <2>2, <3>2, <3>3, Zenon DEF Sums
  <2>5. FlattenSeq(sq(pre(n))) = g[n]
    BY <2>2, <2>4, FlattenIs
  <2> QED
    BY <2>5 DEF Expand, sq
<1>5. /\ Len(sq(words)) = Len(words) /\ Len(words) \in Nat
      /\ \A i \in 1 .. Len(words) : sq(words)[i] = Means(words[i])
  <2> HIDE DEF sq
  <2> QED
    BY <1>1
<1>6. Expand(<<>>) = <<>>
  <2>1. pre(0) = <<>>
    BY SubSeqEmpty
  <2>2. Expand(pre(0)) = g[0]
    <3> HIDE DEF pre
    <3> QED
      BY <1>4, <1>5
  <2> HIDE DEF sq
  <2>3. g[0] = <<>>
    BY <1>2 DEF Sums
  <2> QED
    BY <2>1, <2>2, <2>3
<1> HIDE DEF sq, pre
<1>7. \A n \in 0 .. Len(words) : Expand(pre(n)) \in Seq(S)
  BY <1>2, <1>4, <1>5 DEF Sums
<1>8. \A n \in 1 .. Len(words) : Expand(pre(n)) = Expand(pre(n - 1)) \o Means(words[n])
  <2> TAKE n \in 1 .. Len(words)
  <2>1. n \in 0 .. Len(words) /\ n - 1 \in 0 .. Len(words)
    BY <1>5
  <2>2. g[n] = g[n - 1] \o Means(words[n])
    BY <1>2, <1>5 DEF Sums
  <2> QED
    BY <1>4, <2>1, <2>2
<1> QED
  BY <1>6, <1>7, <1>8 DEF pre

-----------------------------------------------------------------------------
(* Statements, files and words.                                            *)

Word == UNION {Range(l) : l \in ArgLists \cup UserLists}
InFile == UNION {UNION {Range(d[name]) : name \in DOMAIN d} : d \in Disks}
OfPolicy == {[key |-> "fit", val |-> w.val] : w \in Word}
Statement == InFile \cup Word \cup OfPolicy

\* Nothing said, nothing changed.
LEMMA EmptyText ==
  /\ \A S : <<>> \in Seq(S)
  /\ \A conf : conf = [k \in DOMAIN Defaults |-> conf[k]] => Overlay(conf, <<>>) = conf
<1>1. \A S : <<>> \in Seq(S)
  OBVIOUS
<1>2. ASSUME NEW k PROVE LastOf(<<>>, k) = 0
  <2>1. <<>> \in Seq({}) /\ Len(<<>>) = 0
    OBVIOUS
  <2>2. LastOf(<<>>, k) \in 0 .. Len(<<>>)
    BY <2>1, LastIs, Zenon
  <2> QED
    BY <2>1, <2>2
<1> QED
  BY <1>1, <1>2 DEF Overlay

\* One statement sets one setting, if there is one of that name.
LEMMA OneStatement ==
  ASSUME NEW conf, conf = [k \in DOMAIN Defaults |-> conf[k]], NEW w
  PROVE  Overlay(conf, <<w>>) = Apply(conf, w)
<1>1. <<w>> \in Seq({w}) /\ Len(<<w>>) = 1 /\ <<w>>[1] = w
  OBVIOUS
<1>2. ASSUME NEW k PROVE LastOf(<<w>>, k) = IF w.key = k THEN 1 ELSE 0
  <2> DEFINE one == <<w>>
             n == LastOf(one, k)
  <2>1. one \in Seq({w}) /\ Len(one) = 1 /\ one[1] = w
    BY <1>1
  <2> HIDE DEF one
  <2>2. /\ n \in 0 .. Len(one)
        /\ n # 0 => one[n].key = k
        /\ \A j \in 1 .. Len(one) : one[j].key = k => j <= n
    BY <2>1, LastIs, Zenon
  <2> HIDE DEF n
  <2>3. n = IF w.key = k THEN 1 ELSE 0
    BY <2>1, <2>2
  <2> QED
    BY <2>3 DEF n, one
<1>3. Overlay(conf, <<w>>) = [k \in DOMAIN Defaults |-> IF w.key = k THEN w.val ELSE conf[k]]
  BY <1>1, <1>2 DEF Overlay
<1> QED
  BY <1>3 DEF Apply

\* Where yyparse gives up.
LEMMA FirstBadIs ==
  ASSUME NEW S, NEW text \in Seq(S)
  PROVE  FirstBad(text) \in 1 .. Len(text) + 1
<1> DEFINE I == {i \in 1 .. Len(text) : text[i].key = "bad"}
<1>1. FirstBad(text) = IF (IF I # {} THEN Min(I) ELSE 0) = 0 THEN Len(text) + 1
                       ELSE IF I # {} THEN Min(I) ELSE 0
  BY DEF FirstBad, SelectInSeq
<1>2. I \in SUBSET Nat /\ Len(text) \in Nat /\ \A i \in I : i \in 1 .. Len(text)
  OBVIOUS
<1> HIDE DEF I
<1>3. CASE I = {}
  BY <1>1, <1>2, <1>3
<1>4. CASE I # {}
  <2> DEFINE P(m) == m \in I /\ \A y \in I : m <= y
  <2>1. PICK m : P(m)
    BY <1>2, <1>4, Least
  <2>2. P(Min(I))
    <3>1. Min(I) = CHOOSE n : P(n)
      BY DEF Min
    <3> QED
      BY <2>1, <3>1, Zenon
  <2>3. Min(I) \in 1 .. Len(text)
    BY <1>2, <2>2
  <2>4. FirstBad(text) = Min(I)
    <3>1. Min(I) # 0
      BY <1>2, <2>3
    <3> QED
      BY ONLY <1>1, <1>4, <3>1
  <2> QED
    BY <1>2, <2>3, <2>4
<1> QED
  BY <1>3, <1>4

\* What it takes, and what it leaves in the buffer.
LEMMA GoodText ==
  ASSUME NEW S, NEW text \in Seq(S)
  PROVE  /\ Good(text) \in Seq(S)
         /\ FirstBad(text) > Len(text) => SubSeq(text, FirstBad(text) + 1, Len(text)) = <<>>
<1>1. FirstBad(text) \in 1 .. Len(text) + 1 /\ Len(text) \in Nat
  BY FirstBadIs
<1>2. \A i \in 1 .. FirstBad(text) - 1 : text[i] \in S
  BY <1>1
<1>3. Good(text) \in Seq(S)
  BY <1>1, <1>2, SubSeqProperties DEF Good
<1>4. FirstBad(text) > Len(text) => SubSeq(text, FirstBad(text) + 1, Len(text)) = <<>>
  BY <1>1, SubSeqEmpty
<1> QED
  BY <1>3, <1>4

\* What is on disk and in the lists of words.
LEMMA Sources ==
  ASSUME ConfTypeOK
  PROVE  /\ argv \in Seq(Word) /\ useropts \in Seq(Word)
         /\ \A name \in DOMAIN disk : disk[name] \in Seq(Statement)
         /\ \A name : Text(name) \in Seq(Statement)
         /\ \A w \in Word : Means(w) \in Seq(Statement)
<1>0. \A R, S : R \subseteq S => Seq(R) \subseteq Seq(S)
  OBVIOUS
<1>1. ASSUME NEW l \in ArgLists \cup UserLists \cup {<<>>} PROVE l \in Seq(Word)
  <2>1. CASE l = <<>>
    BY <2>1
  <2>2. CASE l \in ArgLists \cup UserLists
    <3>1. l \in Seq(Range(l)) /\ Range(l) \subseteq Word
      BY <2>2, ConfAssumption DEF Word
    <3> QED
      BY <1>0, <3>1, Zenon
  <2> QED
    BY <2>1, <2>2
<1>2. argv \in Seq(Word) /\ useropts \in Seq(Word)
  BY <1>1 DEF ConfTypeOK
<1>3. ASSUME NEW name \in DOMAIN disk PROVE disk[name] \in Seq(Statement)
  <2>1. disk[name] \in Seq(Range(disk[name]))
    BY ConfAssumption, Zenon DEF ConfTypeOK
  <2>2. Range(disk[name]) \subseteq Statement
    <3> DEFINE all == UNION {Range(disk[q]) : q \in DOMAIN disk}
    <3>1. Range(disk[name]) \subseteq all
      OBVIOUS
    <3>2. all \subseteq InFile
      BY DEF ConfTypeOK, InFile
    <3> QED
      BY <3>1, <3>2 DEF Statement
  <2> QED
    BY <1>0, <2>1, <2>2, Zenon
<1>4. ASSUME NEW name PROVE Text(name) \in Seq(Statement)
  <2>1. CASE name \in DOMAIN disk
    BY <1>3, <2>1, GoodText DEF Text
  <2>2. CASE name \notin DOMAIN disk
    BY <2>2, EmptyText DEF Text
  <2> QED
    BY <2>1, <2>2
<1>5. ASSUME NEW w \in Word PROVE Means(w) \in Seq(Statement)
  <2>1. w \in Statement /\ [key |-> "fit", val |-> w.val] \in Statement
    <3>1. [key |-> "fit", val |-> w.val] \in OfPolicy
      BY DEF OfPolicy
    <3> QED
      BY <3>1 DEF Statement
  <2>2. <<w>> \in Seq(Statement) /\ <<[key |-> "fit", val |-> w.val]>> \in Seq(Statement)
    BY <2>1
  <2>3. Text(w.val) \in Seq(Statement) /\ <<>> \in Seq(Statement)
    BY <1>4, EmptyText
  <2> HIDE DEF Statement
  <2> QED
    BY <2>2, <2>3 DEF Means
<1> QED
  BY <1>2, <1>3, <1>4, <1>5

\* Files and words stay what they are.
LEMMA Unmoved ==
  ASSUME UNCHANGED confinput
  PROVE  /\ Text(SystemFile)' = Text(SystemFile)
         /\ Expand(argv)' = Expand(argv) /\ Expand(useropts)' = Expand(useropts)
         /\ Expand(Before(argv))' = Expand(SubSeq(argv, 1, word' - 1))
         /\ Expand(Before(useropts))' = Expand(SubSeq(useropts, 1, word' - 1))
BY DEF confinput, Text, Expand, Means, Before, SystemFile

-----------------------------------------------------------------------------
(* What the calls do to the settings.                                      *)

Functional == settings = [k \in DOMAIN Defaults |-> settings[k]]

\* A file is read with nothing left over from the one before.
LEMMA ParseIs ==
  ASSUME ConfTypeOK, Functional, buffer = <<>>, NEW name, cpuset_conf_parse(name)
  PROVE  settings' = Overlay(settings, Text(name)) /\ (FaultFree(name) => buffer' = <<>>)
<1>1. CASE name \notin DOMAIN disk
  <2>1. settings' = settings /\ buffer' = buffer /\ Text(name) = <<>>
    BY <1>1 DEF cpuset_conf_parse, Text
  <2> QED
    BY <2>1, EmptyText DEF Functional
<1>2. CASE name \in DOMAIN disk
  <2>1. disk[name] \in Seq(Statement)
    BY <1>2, Sources
  <2>2. buffer \o disk[name] = disk[name]
    BY <2>1, ConcatEmptySeq
  <2>3. /\ settings' = FoldLeft(Apply, settings, Good(disk[name]))
        /\ buffer' = SubSeq(disk[name], FirstBad(disk[name]) + 1, Len(disk[name]))
    BY <1>2, <2>2 DEF cpuset_conf_parse
  <2>4. Good(disk[name]) \in Seq(Statement) /\ Text(name) = Good(disk[name])
    BY <1>2, <2>1, GoodText DEF Text
  <2>5. FoldLeft(Apply, settings, Good(disk[name])) = Overlay(settings, Good(disk[name]))
    BY <2>4, FoldIs DEF Functional
  <2>6. FaultFree(name) => buffer' = <<>>
    BY <1>2, <2>1, <2>3, GoodText DEF FaultFree
  <2> QED
    BY <2>3, <2>4, <2>5, <2>6
<1> QED
  BY <1>1, <1>2

\* A word is taken.
LEMMA OptionIs ==
  ASSUME ConfTypeOK, NEW w \in Word, cpuset_conf_parse_opt(w)
  PROVE  /\ w.key = "conf" => named' = TRUE
         /\ w.key # "conf" => named' = named /\ buffer' = buffer
         /\ Functional /\ (w.key = "conf" => buffer = <<>>) =>
              /\ settings' = Overlay(settings, Means(w))
              /\ w.key = "conf" /\ FaultFree(w.val) => buffer' = <<>>
<1>0. {"conf", "policy=", "bad"} \cap DOMAIN Defaults = {} /\ "fit" \in DOMAIN Defaults
  BY DEF Defaults
<1>1. CASE w.key = "conf"
  <2>1. cpuset_conf_parse(w.val)
    BY <1>0, <1>1 DEF cpuset_conf_parse_opt
  <2>2. Means(w) = Text(w.val)
    BY <1>1 DEF Means
  <2>3. named' = TRUE
    BY <2>1 DEF cpuset_conf_parse
  <2>4. ASSUME Functional, buffer = <<>>
        PROVE  settings' = Overlay(settings, Means(w)) /\ (FaultFree(w.val) => buffer' = <<>>)
    BY <2>1, <2>2, <2>4, ParseIs
  <2> QED
    BY <1>1, <2>3, <2>4
<1>2. CASE w.key = "policy="
  <2>1. /\ settings' = Apply(settings, [key |-> "fit", val |-> w.val])
        /\ named' = named /\ buffer' = buffer
    BY <1>0, <1>2 DEF cpuset_conf_parse_opt
  <2>2. Means(w) = <<[key |-> "fit", val |-> w.val]>>
    BY <1>2 DEF Means
  <2> QED
    BY <1>2, <2>1, <2>2, OneStatement DEF Functional
<1>3. CASE w.key = "bad"
  <2>1. settings' = settings /\ named' = named /\ buffer' = buffer
    BY <1>0, <1>3 DEF cpuset_conf_parse_opt
  <2>2. Means(w) = <<>>
    BY <1>3 DEF Means
  <2> QED
    BY <1>3, <2>1, <2>2, EmptyText DEF Functional
<1>4. CASE w.key \notin {"conf", "policy=", "bad"}
  <2>1. settings' = Apply(settings, w) /\ named' = named /\ buffer' = buffer
    BY <1>4 DEF cpuset_conf_parse_opt
  <2>2. Means(w) = <<w>>
    BY <1>4 DEF Means
  <2> QED
    BY <1>4, <2>1, <2>2, OneStatement DEF Functional
<1> QED
  BY <1>1, <1>2, <1>3, <1>4

\* The settings of all that was said, and of more.
Says(text) == Overlay(Defaults, text)

LEMMA SaysMore ==
  ASSUME NEW S, NEW a \in Seq(S), NEW b \in Seq(S), settings = Says(a), settings' = Overlay(settings, b)
  PROVE  settings' = Says(a \o b)
BY OverlayTwice DEF Says

LEMMA SaysFunctional == \A text : settings = Says(text) => Functional
BY DEF Says, Overlay, Functional

LEMMA LastValues == \A text : Says(text) = [k \in DOMAIN Defaults |-> LastValue(text, k)]
BY DEF Says, Overlay, LastValue, LastOf

LEMMA SameFault ==
  ASSUME UNCHANGED confinput
  PROVE  OneFault' = OneFault /\ Confs(argv)' = Confs(argv) /\ Confs(useropts)' = Confs(useropts)
BY DEF confinput, OneFault, FaultFree, Confs, SystemFile

-----------------------------------------------------------------------------
(* The steps.                                                              *)

\* What the program has been told at a place.
LEMMA Told ==
  ASSUME ConfTypeOK
  PROVE  /\ reading = "system" => SoFar = IF program = "pam" THEN Expand(argv) ELSE <<>>
         /\ reading = "argv" =>
              SoFar = (IF program = "plugin" THEN Text(SystemFile) ELSE <<>>) \o Expand(Before(argv))
         /\ reading = "user" =>
              SoFar = (IF program = "plugin" THEN Text(SystemFile) \o Expand(argv) ELSE <<>>)
                        \o Expand(Before(useropts))
         /\ reading \in {"ready", "refused"} => SoFar = ReadOrder
BY DEF SoFar

\* And after a step.
LEMMA ToldNext ==
  ASSUME UNCHANGED confinput, ConfTypeOK'
  PROVE  /\ reading' = "system" => SoFar' = IF program = "pam" THEN Expand(argv) ELSE <<>>
         /\ reading' = "argv" =>
              SoFar' = (IF program = "plugin" THEN Text(SystemFile) ELSE <<>>)
                         \o Expand(SubSeq(argv, 1, word' - 1))
         /\ reading' = "user" =>
              SoFar' = (IF program = "plugin" THEN Text(SystemFile) \o Expand(argv) ELSE <<>>)
                         \o Expand(SubSeq(useropts, 1, word' - 1))
         /\ reading' \in {"ready", "refused"} => SoFar' = ReadOrder
<1>1. /\ Text(SystemFile)' = Text(SystemFile)
      /\ Expand(argv)' = Expand(argv) /\ Expand(useropts)' = Expand(useropts)
      /\ Expand(Before(argv))' = Expand(SubSeq(argv, 1, word' - 1))
      /\ Expand(Before(useropts))' = Expand(SubSeq(useropts, 1, word' - 1))
  BY Unmoved
<1>2. program' = program /\ Confs(argv)' = Confs(argv)
  BY SameFault DEF confinput
<1>3. ReadOrder' = ReadOrder
  BY <1>1, <1>2 DEF ReadOrder, Order
<1> QED
  BY <1>1, <1>2, <1>3 DEF SoFar

\* Concatenation, for what is told.
LEMMA Concats ==
  ASSUME NEW S, NEW a \in Seq(S), NEW b \in Seq(S), NEW c \in Seq(S)
  PROVE  /\ a \o b \in Seq(S) /\ a \o <<>> = a /\ <<>> \o a = a
         /\ (a \o b) \o c = a \o (b \o c)
BY ConcatProperties, ConcatEmptySeq, ConcatAssociative

\* And expansion.
LEMMA Expands ==
  ASSUME ConfTypeOK, NEW words \in Seq(Word)
  PROVE  /\ Expand(<<>>) = <<>> /\ Expand(words) \in Seq(Statement)
         /\ SubSeq(words, 1, 0) = <<>> /\ SubSeq(words, 1, Len(words)) = words
         /\ \A n \in 0 .. Len(words) : Expand(SubSeq(words, 1, n)) \in Seq(Statement)
         /\ \A n \in 1 .. Len(words) :
              Expand(SubSeq(words, 1, n)) = Expand(SubSeq(words, 1, n - 1)) \o Means(words[n])
<1>1. \A w \in Word : Means(w) \in Seq(Statement)
  BY Sources
<1>2. /\ Expand(<<>>) = <<>>
      /\ \A n \in 0 .. Len(words) : Expand(SubSeq(words, 1, n)) \in Seq(Statement)
      /\ \A n \in 1 .. Len(words) :
           Expand(SubSeq(words, 1, n)) = Expand(SubSeq(words, 1, n - 1)) \o Means(words[n])
  BY <1>1, ExpandPrefix
<1>3. SubSeq(words, 1, 0) = <<>> /\ SubSeq(words, 1, Len(words)) = words /\ Len(words) \in 0 .. Len(words)
  BY SubSeqEmpty, SubSeqFull
<1> QED
  BY <1>2, <1>3

LEMMA ConfStart == ConfInit => ConfInv
<1> SUFFICES ASSUME ConfInit PROVE ConfInv
  OBVIOUS
<1>1. ConfTypeOK
  <2>1. Len(argv) \in Nat /\ Len(useropts) \in Nat
    <3>1. argv \in ArgLists \cup {<<>>} /\ useropts \in UserLists \cup {<<>>}
      BY DEF ConfInit
    <3>2. \A l \in ArgLists \cup UserLists \cup {<<>>} : Len(l) \in Nat
      BY ConfAssumption
    <3> QED
      BY <3>1, <3>2
  <2>2. \/ program \in {"plugin", "agent"} /\ reading = "system"
        \/ program = "srun" /\ reading = "user"
        \/ program = "pam" /\ reading = "argv"
    BY DEF ConfInit
  <2>3. /\ program \in {"srun", "agent"} => argv = <<>>
        /\ program \in {"pam", "agent"} => useropts = <<>>
    BY DEF ConfInit
  <2>4. /\ disk \in Disks /\ argv \in ArgLists \cup {<<>>} /\ useropts \in UserLists \cup {<<>>}
        /\ named \in BOOLEAN /\ word = 1
    BY DEF ConfInit
  <2> QED
    BY <2>1, <2>2, <2>3, <2>4 DEF ConfTypeOK
<1>2. BufferInv
  BY DEF ConfInit, BufferInv, Confs
<1>3. SoFar = <<>>
  <2>1. argv \in Seq(Word) /\ useropts \in Seq(Word)
    BY <1>1, Sources
  <2>2. Before(argv) = <<>> /\ Before(useropts) = <<>> /\ Expand(<<>>) = <<>>
    BY <1>1, <2>1, Expands DEF Before, ConfInit
  <2>3. <<>> \o <<>> = <<>>
    BY EmptyText, ConcatEmptySeq
  <2> QED
    BY <1>1, <2>2, <2>3, Told DEF ConfInit
<1>4. settings = Says(<<>>)
  <2>1. Defaults = [k \in DOMAIN Defaults |-> Defaults[k]]
    BY DEF Defaults
  <2> QED
    BY <2>1, EmptyText DEF Says, ConfInit
<1> QED
  BY <1>1, <1>2, <1>3, <1>4, LastValues DEF ConfInv

LEMMA SystemStep ==
  ASSUME ConfInv, cpuset_conf_parse_system
  PROVE  ConfInv'
<1>0. ConfTypeOK /\ BufferInv
  BY DEF ConfInv
<1>1. /\ UNCHANGED confinput /\ word' = 1 /\ reading = "system"
      /\ program \in {"plugin", "pam", "agent"}
      /\ reading' = IF program = "plugin" THEN "argv" ELSE "ready"
  BY <1>0 DEF cpuset_conf_parse_system, ConfTypeOK, AfterSystem
<1>2. argv \in Seq(Word) /\ useropts \in Seq(Word) /\ Text(SystemFile) \in Seq(Statement)
      /\ Len(argv) \in Nat
  BY <1>0, Sources, Elements
<1>3. \/ ~named /\ buffer = <<>> /\ cpuset_conf_parse(SystemFile)
      \/ ~named /\ SystemFile \notin DOMAIN disk /\ UNCHANGED <<settings, named, buffer>>
      \/ named /\ program = "pam" /\ UNCHANGED <<settings, named, buffer>>
  BY <1>0, <1>1 DEF cpuset_conf_parse_system, BufferInv, ConfTypeOK
<1>4. ConfTypeOK'
  <2>1. named' \in BOOLEAN
    BY <1>0, <1>3 DEF cpuset_conf_parse, ConfTypeOK
  <2> QED
    BY <1>0, <1>1, <1>2, <2>1 DEF ConfTypeOK, confinput
<1>5. OneFault' = OneFault /\ Confs(argv)' = Confs(argv) /\ Confs(useropts)' = Confs(useropts)
  BY <1>1, SameFault
<1>6. ASSUME OneFault
      PROVE  /\ settings = Says(SoFar) /\ Functional
             /\ settings' = IF program = "pam" /\ named THEN settings ELSE Overlay(settings, Text(SystemFile))
  <2>1. settings = Says(SoFar)
    BY <1>1, <1>6, LastValues DEF ConfInv
  <2>2. Functional
    BY <2>1, SaysFunctional
  <2>3. CASE ~named /\ buffer = <<>> /\ cpuset_conf_parse(SystemFile)
    BY <1>0, <2>1, <2>2, <2>3, ParseIs
  <2>4. CASE ~named /\ SystemFile \notin DOMAIN disk /\ UNCHANGED <<settings, named, buffer>>
    <3>1. Text(SystemFile) = <<>>
      BY <2>4 DEF Text
    <3> QED
      BY <2>1, <2>2, <2>4, <3>1, EmptyText DEF Functional
  <2>5. CASE named /\ program = "pam" /\ UNCHANGED <<settings, named, buffer>>
    BY <2>1, <2>2, <2>5
  <2> QED
    BY <1>3, <2>3, <2>4, <2>5
<1>7. BufferInv'
  <2>1. CASE reading' = "ready"
    BY <1>1, <2>1 DEF BufferInv
  <2>2. CASE reading' = "argv"
    <3>1. program = "plugin" /\ ~named /\ buffer = <<>> /\ program' = program
      BY <1>0, <1>1, <2>2 DEF BufferInv, confinput
    <3>2. ~named' => buffer' = <<>>
      BY <1>3, <3>1 DEF cpuset_conf_parse
    <3>3. ASSUME OneFault, Confs(argv) \cup Confs(useropts) # {}
          PROVE  buffer' = <<>>
      <4>1. FaultFree(SystemFile)
        BY <3>3 DEF OneFault
      <4>2. CASE cpuset_conf_parse(SystemFile)
        BY <1>0, <1>6, <3>1, <3>3, <4>1, <4>2, ParseIs
      <4> QED
        BY <1>3, <3>1, <4>2
    <3> QED
      BY <1>1, <1>5, <2>2, <3>1, <3>2, <3>3 DEF BufferInv
  <2> QED
    BY <1>1, <2>1, <2>2
<1>8. ASSUME OneFault PROVE settings' = Says(SoFar')
  <2>1. Expand(<<>>) = <<>> /\ SubSeq(argv, 1, 0) = <<>> /\ Expand(argv) \in Seq(Statement)
    BY <1>0, <1>2, Expands
  <2>2. SoFar = IF program = "pam" THEN Expand(argv) ELSE <<>>
    BY <1>0, <1>1, Told
  <2>3. SoFar \in Seq(Statement)
    BY <2>1, <2>2, EmptyText
  <2>4. CASE program = "pam" /\ named
    <3>1. Confs(argv) # {}
      BY <1>0, <1>1, <2>4 DEF BufferInv
    <3>2. SoFar' = ReadOrder
      BY <1>1, <1>4, <2>4, ToldNext
    <3>3. ReadOrder = Expand(argv) \o <<>>
      BY <2>4, <3>1 DEF ReadOrder, Order
    <3>4. SoFar' = Expand(argv)
      BY <2>1, <3>2, <3>3, ConcatEmptySeq
    <3> QED
      BY <1>6, <1>8, <2>2, <2>4, <3>4
  <2>5. CASE program = "pam" /\ ~named
    <3>1. Confs(argv) = {}
      BY <1>0, <1>1, <2>5 DEF BufferInv
    <3>2. SoFar' = ReadOrder
      BY <1>1, <1>4, <2>5, ToldNext
    <3>3. ReadOrder = Expand(argv) \o Text(SystemFile)
      BY <2>5, <3>1 DEF ReadOrder, Order
    <3> QED
      BY <1>2, <1>6, <1>8, <2>1, <2>2, <2>5, <3>2, <3>3, SaysMore
  <2>6. CASE program # "pam"
    <3>1. settings' = Says(<<>> \o Text(SystemFile))
      BY <1>2, <1>6, <1>8, <2>2, <2>3, <2>6, SaysMore
    <3>2. settings' = Says(Text(SystemFile))
      BY <1>2, <3>1, ConcatEmptySeq
    <3>3. CASE program = "plugin"
      <4>1. SoFar' = Text(SystemFile) \o Expand(SubSeq(argv, 1, word' - 1))
        BY <1>1, <1>4, <3>3, ToldNext
      <4>2. SubSeq(argv, 1, word' - 1) = <<>>
        BY <1>1, <2>1
      <4> QED
        BY <1>2, <2>1, <3>2, <4>1, <4>2, ConcatEmptySeq
    <3>4. CASE program = "agent"
      BY <1>1, <1>4, <3>2, <3>4, ToldNext DEF ReadOrder, Order
    <3> QED
      BY <1>1, <2>6, <3>3, <3>4
  <2> QED
    BY <2>4, <2>5, <2>6
<1>9. OneFault' /\ reading' # "refused" => settings' = [k \in DOMAIN Defaults |-> LastValue(SoFar', k)]
  BY <1>5, <1>8, LastValues
<1> QED
  BY <1>4, <1>7, <1>9 DEF ConfInv

\* One more word has been taken.
LEMMA OneWordOn ==
  ASSUME ConfTypeOK, NEW words \in Seq(Word), word <= Len(words), NEW head \in Seq(Statement),
         settings = Says(head \o Expand(SubSeq(words, 1, word - 1))),
         settings' = Overlay(settings, Means(words[word]))
  PROVE  settings' = Says(head \o Expand(SubSeq(words, 1, word)))
<1>1. word \in 1 .. Len(words) /\ word - 1 \in 0 .. Len(words) /\ Len(words) \in Nat
  BY Elements DEF ConfTypeOK
<1> DEFINE a == Expand(SubSeq(words, 1, word - 1))
           b == Means(words[word])
<1>2. a \in Seq(Statement) /\ b \in Seq(Statement)
  <2>1. words[word] \in Word
    BY <1>1
  <2> QED
    BY <1>1, <2>1, Expands, Sources
<1>3. Expand(SubSeq(words, 1, word)) = a \o b
  BY <1>1, Expands
<1> HIDE DEF a, b
<1>4. head \o a \in Seq(Statement) /\ (head \o a) \o b = head \o (a \o b)
  BY <1>2, Concats
<1>5. settings' = Says((head \o a) \o b)
  BY <1>2, <1>4, SaysMore DEF a, b
<1> QED
  BY <1>3, <1>4, <1>5

LEMMA OptionsStep ==
  ASSUME ConfInv, parse_options
  PROVE  ConfInv'
<1>0. ConfTypeOK /\ BufferInv
  BY DEF ConfInv
<1> DEFINE w == argv[word]
<1>1. /\ UNCHANGED confinput /\ word' = word + 1 /\ reading = "argv" /\ word <= Len(argv)
      /\ program \in {"plugin", "pam"} /\ word \in Nat \ {0}
      /\ cpuset_conf_parse_opt(w)
      /\ reading' = IF program = "pam" /\ OptFails(w) THEN "refused" ELSE "argv"
  BY <1>0 DEF parse_options, ConfTypeOK
<1>2. /\ argv \in Seq(Word) /\ Text(SystemFile) \in Seq(Statement) /\ Len(argv) \in Nat
      /\ word \in DOMAIN argv /\ w \in Word
  <2>1. argv \in Seq(Word) /\ Text(SystemFile) \in Seq(Statement)
    BY <1>0, Sources
  <2> QED
    BY <1>1, <2>1, Elements
<1> HIDE DEF w
<1>3. /\ w.key = "conf" => named' = TRUE
      /\ w.key # "conf" => named' = named /\ buffer' = buffer
      /\ Functional /\ (w.key = "conf" => buffer = <<>>) =>
           /\ settings' = Overlay(settings, Means(w))
           /\ w.key = "conf" /\ FaultFree(w.val) => buffer' = <<>>
  BY <1>0, <1>1, <1>2, OptionIs
<1>4. ConfTypeOK'
  <2>1. named' \in BOOLEAN
    BY <1>0, <1>3 DEF ConfTypeOK
  <2>2. word' \in Nat \ {0} /\ word' <= Len(argv) + 1
    BY <1>1, <1>2
  <2> QED
    BY <1>0, <1>1, <2>1, <2>2 DEF ConfTypeOK, confinput
<1>5. OneFault' = OneFault /\ Confs(argv)' = Confs(argv) /\ Confs(useropts)' = Confs(useropts)
  BY <1>1, SameFault
<1>6. word \in Confs(argv) <=> w.key = "conf"
  BY <1>2 DEF Confs, w
<1>7. ASSUME OneFault
      PROVE  /\ settings = Says(SoFar) /\ Functional
             /\ settings' = Overlay(settings, Means(w))
             /\ w.key = "conf" /\ FaultFree(w.val) => buffer' = <<>>
  <2>1. settings = Says(SoFar)
    BY <1>1, <1>7, LastValues DEF ConfInv
  <2>2. Functional
    BY <2>1, SaysFunctional
  <2>3. w.key = "conf" => buffer = <<>>
    BY <1>0, <1>1, <1>6, <1>7 DEF BufferInv
  <2> QED
    BY <1>3, <2>1, <2>2, <2>3
<1>8. BufferInv'
  <2>1. CASE reading' = "refused"
    BY <2>1 DEF BufferInv
  <2>2. CASE reading' = "argv"
    <3>1. program' = program /\ \A i \in Confs(argv) : i \in Nat
      BY <1>1, <1>2 DEF confinput, Confs
    <3>2. ~named' => buffer' = <<>>
      BY <1>0, <1>1, <1>3 DEF BufferInv
    <3>3. ASSUME program = "pam" PROVE named' <=> \E i \in Confs(argv) : i < word'
      <4>1. named <=> \E i \in Confs(argv) : i < word
        BY <1>0, <1>1, <3>3 DEF BufferInv
      <4>2. (\E i \in Confs(argv) : i < word') <=> (\E i \in Confs(argv) : i < word) \/ word \in Confs(argv)
        BY <1>1, <3>1
      <4>3. named \in BOOLEAN
        BY <1>0 DEF ConfTypeOK
      <4> QED
        BY <1>3, <1>6, <4>1, <4>2, <4>3
    <3>4. ASSUME OneFault, Confs(useropts) # {} \/ \E i \in Confs(argv) : i >= word'
          PROVE  buffer' = <<>>
      <4>0. Confs(useropts) # {} \/ \E i \in Confs(argv) : i > word
        BY <1>1, <3>1, <3>4
      <4>1. CASE w.key = "conf"
        <5>1. word \in Confs(argv)
          BY <1>6, <4>1
        <5>2. Confs(useropts) # {} \/ \E j \in Confs(argv) : word < j
          BY <1>1, <3>1, <4>0
        <5>3. FaultFree(w.val)
          BY <3>4, <5>1, <5>2 DEF OneFault, w
        <5> QED
          BY <1>7, <3>4, <4>1, <5>3
      <4>2. CASE w.key # "conf"
        <5>1. Confs(useropts) # {} \/ \E i \in Confs(argv) : i >= word
          BY <1>1, <3>1, <4>0
        <5>2. buffer = <<>>
          BY <1>0, <1>1, <3>4, <5>1 DEF BufferInv
        <5> QED
          BY <1>3, <4>2, <5>2
      <4> QED
        BY <4>1, <4>2
    <3> QED
      BY <1>1, <1>5, <2>2, <3>1, <3>2, <3>3, <3>4 DEF BufferInv
  <2> QED
    BY <1>1, <2>1, <2>2
<1>9. ASSUME OneFault, reading' # "refused" PROVE settings' = Says(SoFar')
  <2> DEFINE head == IF program = "plugin" THEN Text(SystemFile) ELSE <<>>
  <2>1. head \in Seq(Statement)
    BY <1>2, EmptyText
  <2>2. SoFar = head \o Expand(SubSeq(argv, 1, word - 1))
    BY <1>0, <1>1, Told DEF Before
  <2>3. word' - 1 = word /\ reading' = "argv"
    BY <1>1, <1>9
  <2>4. SoFar' = head \o Expand(SubSeq(argv, 1, word))
    BY <1>1, <1>4, <2>3, ToldNext
  <2> HIDE DEF head
  <2>5. settings' = Says(head \o Expand(SubSeq(argv, 1, word)))
    BY <1>0, <1>1, <1>2, <1>7, <1>9, <2>1, <2>2, OneWordOn DEF w
  <2> QED
    BY <2>4, <2>5
<1>10. OneFault' /\ reading' # "refused" => settings' = [k \in DOMAIN Defaults |-> LastValue(SoFar', k)]
  BY <1>5, <1>9, LastValues
<1> QED
  BY <1>4, <1>8, <1>10 DEF ConfInv

LEMMA UserOptionStep ==
  ASSUME ConfInv, set_user_options
  PROVE  ConfInv'
<1>0. ConfTypeOK /\ BufferInv
  BY DEF ConfInv
<1> DEFINE w == useropts[word]
<1>1. /\ UNCHANGED confinput /\ word' = word + 1 /\ reading = "user" /\ word <= Len(useropts)
      /\ program \in {"plugin", "srun"} /\ word \in Nat \ {0}
      /\ cpuset_conf_parse_opt(w) /\ reading' = "user"
  BY <1>0 DEF set_user_options, ConfTypeOK
<1>2. /\ argv \in Seq(Word) /\ useropts \in Seq(Word)
      /\ Text(SystemFile) \in Seq(Statement) /\ Len(useropts) \in Nat
      /\ word \in DOMAIN useropts /\ w \in Word
  <2>1. argv \in Seq(Word) /\ useropts \in Seq(Word) /\ Text(SystemFile) \in Seq(Statement)
    BY <1>0, Sources
  <2> QED
    BY <1>1, <2>1, Elements
<1> HIDE DEF w
<1>3. /\ w.key = "conf" => named' = TRUE
      /\ w.key # "conf" => named' = named /\ buffer' = buffer
      /\ Functional /\ (w.key = "conf" => buffer = <<>>) =>
           /\ settings' = Overlay(settings, Means(w))
           /\ w.key = "conf" /\ FaultFree(w.val) => buffer' = <<>>
  BY <1>0, <1>1, <1>2, OptionIs
<1>4. ConfTypeOK'
  <2>1. named' \in BOOLEAN
    BY <1>0, <1>3 DEF ConfTypeOK
  <2>2. word' \in Nat \ {0} /\ word' <= Len(useropts) + 1
    BY <1>1, <1>2
  <2> QED
    BY <1>0, <1>1, <2>1, <2>2 DEF ConfTypeOK, confinput
<1>5. OneFault' = OneFault /\ Confs(argv)' = Confs(argv) /\ Confs(useropts)' = Confs(useropts)
  BY <1>1, SameFault
<1>6. word \in Confs(useropts) <=> w.key = "conf"
  BY <1>2 DEF Confs, w
<1>7. ASSUME OneFault
      PROVE  /\ settings = Says(SoFar) /\ Functional
             /\ settings' = Overlay(settings, Means(w))
             /\ w.key = "conf" /\ FaultFree(w.val) => buffer' = <<>>
  <2>1. settings = Says(SoFar)
    BY <1>1, <1>7, LastValues DEF ConfInv
  <2>2. Functional
    BY <2>1, SaysFunctional
  <2>3. w.key = "conf" => buffer = <<>>
    BY <1>0, <1>1, <1>6, <1>7 DEF BufferInv
  <2> QED
    BY <1>3, <2>1, <2>2, <2>3
<1>8. BufferInv'
  <2>1. \A i \in Confs(useropts) : i \in Nat
    BY <1>2 DEF Confs
  <2>2. ~named' => buffer' = <<>>
    BY <1>0, <1>1, <1>3 DEF BufferInv
  <2>3. ASSUME OneFault, NEW i \in Confs(useropts), i >= word' PROVE buffer' = <<>>
    <3>0. i > word
      BY <1>1, <2>1, <2>3
    <3>1. CASE w.key = "conf"
      <4>1. word \in Confs(useropts) /\ word < i
        BY <1>1, <1>6, <2>1, <3>0, <3>1
      <4>2. FaultFree(w.val)
        BY <2>3, <4>1 DEF OneFault, w
      <4> QED
        BY <1>7, <2>3, <3>1, <4>2
    <3>2. CASE w.key # "conf"
      <4>1. buffer = <<>>
        BY <1>0, <1>1, <2>1, <2>3, <3>0 DEF BufferInv
      <4> QED
        BY <1>3, <3>2, <4>1
    <3> QED
      BY <3>1, <3>2
  <2> QED
    BY <1>1, <1>5, <2>2, <2>3 DEF BufferInv
<1>9. ASSUME OneFault PROVE settings' = Says(SoFar')
  <2> DEFINE head == IF program = "plugin" THEN Text(SystemFile) \o Expand(argv) ELSE <<>>
  <2>1. head \in Seq(Statement)
    BY <1>0, <1>2, EmptyText, Expands, Concats
  <2>2. SoFar = head \o Expand(SubSeq(useropts, 1, word - 1))
    BY <1>0, <1>1, Told DEF Before
  <2>3. word' - 1 = word
    BY <1>1
  <2>4. SoFar' = head \o Expand(SubSeq(useropts, 1, word))
    BY <1>1, <1>4, <2>3, ToldNext
  <2> HIDE DEF head
  <2>5. settings' = Says(head \o Expand(SubSeq(useropts, 1, word)))
    BY <1>0, <1>1, <1>2, <1>7, <1>9, <2>1, <2>2, OneWordOn DEF w
  <2> QED
    BY <2>4, <2>5
<1>10. OneFault' /\ reading' # "refused" => settings' = [k \in DOMAIN Defaults |-> LastValue(SoFar', k)]
  BY <1>5, <1>9, LastValues
<1> QED
  BY <1>4, <1>8, <1>10 DEF ConfInv

LEMMA OptionsDoneStep ==
  ASSUME ConfInv, parse_options_done
  PROVE  ConfInv'
<1>0. ConfTypeOK /\ BufferInv
  BY DEF ConfInv
<1>1. /\ UNCHANGED <<program, disk, argv, useropts, settings, named, buffer>>
      /\ word' = 1 /\ reading = "argv" /\ word > Len(argv) /\ word <= Len(argv) + 1
      /\ program \in {"plugin", "pam"} /\ word \in Nat
      /\ reading' = IF program = "pam" THEN "system" ELSE "user"
  BY <1>0 DEF parse_options_done, ConfTypeOK, confinput
<1>2. /\ argv \in Seq(Word) /\ useropts \in Seq(Word) /\ Text(SystemFile) \in Seq(Statement)
      /\ Len(argv) \in Nat /\ Len(useropts) \in Nat /\ DOMAIN argv = 1 .. Len(argv)
  <2>1. argv \in Seq(Word) /\ useropts \in Seq(Word) /\ Text(SystemFile) \in Seq(Statement)
    BY <1>0, Sources
  <2> QED
    BY <2>1, Elements
<1>3. word - 1 = Len(argv) /\ \A i \in Confs(argv) : i < word
  BY <1>1, <1>2 DEF Confs
<1>4. ConfTypeOK'
  BY <1>0, <1>1, <1>2 DEF ConfTypeOK
<1>5. OneFault' = OneFault /\ Confs(argv)' = Confs(argv) /\ Confs(useropts)' = Confs(useropts)
  BY <1>1, SameFault DEF confinput
<1>6. BufferInv'
  <2>1. ~named => buffer = <<>>
    BY <1>0, <1>1 DEF BufferInv
  <2>2. program = "pam" => (named <=> Confs(argv) # {})
    BY <1>0, <1>1, <1>3 DEF BufferInv
  <2>3. OneFault /\ Confs(useropts) # {} => buffer = <<>>
    BY <1>0, <1>1 DEF BufferInv
  <2> QED
    BY <1>1, <1>5, <2>1, <2>2, <2>3 DEF BufferInv
<1>7. ASSUME OneFault PROVE settings' = Says(SoFar')
  <2>1. settings = Says(SoFar)
    BY <1>1, <1>7, LastValues DEF ConfInv
  <2>2. /\ Expand(<<>>) = <<>> /\ Expand(argv) \in Seq(Statement)
        /\ SubSeq(argv, 1, word - 1) = argv /\ SubSeq(useropts, 1, 0) = <<>>
    BY <1>0, <1>2, <1>3, Expands
  <2>3. SoFar = (IF program = "plugin" THEN Text(SystemFile) ELSE <<>>) \o Expand(argv)
    BY <1>0, <1>1, <2>2, Told DEF Before
  <2>4. CASE program = "pam"
    <3>1. SoFar' = Expand(argv)
      BY <1>1, <1>4, <2>4, ToldNext DEF confinput
    <3>2. SoFar = Expand(argv)
      BY <2>2, <2>3, <2>4, ConcatEmptySeq
    <3> QED
      BY <1>1, <2>1, <3>1, <3>2
  <2>5. CASE program = "plugin"
    <3>1. SoFar' = (Text(SystemFile) \o Expand(argv)) \o Expand(SubSeq(useropts, 1, word' - 1))
      BY <1>1, <1>4, <2>5, ToldNext DEF confinput
    <3>2. SubSeq(useropts, 1, word' - 1) = <<>>
      BY <1>1, <2>2
    <3>3. SoFar' = Text(SystemFile) \o Expand(argv)
      BY <1>2, <2>2, <3>1, <3>2, Concats, ConcatEmptySeq
    <3> QED
      BY <1>1, <2>1, <2>3, <2>5, <3>3
  <2> QED
    BY <1>1, <2>4, <2>5
<1>8. OneFault' /\ reading' # "refused" => settings' = [k \in DOMAIN Defaults |-> LastValue(SoFar', k)]
  BY <1>5, <1>7, LastValues
<1> QED
  BY <1>4, <1>6, <1>8 DEF ConfInv

LEMMA UserDoneStep ==
  ASSUME ConfInv, parse_user_option
  PROVE  ConfInv'
<1>0. ConfTypeOK
  BY DEF ConfInv
<1>1. /\ UNCHANGED <<program, disk, argv, useropts, settings, named, buffer, word>>
      /\ reading = "user" /\ word > Len(useropts) /\ word <= Len(useropts) + 1
      /\ program \in {"plugin", "srun"} /\ word \in Nat
      /\ reading' \in {"ready", "refused"}
  BY <1>0 DEF parse_user_option, ConfTypeOK, confinput
<1>2. /\ argv \in Seq(Word) /\ useropts \in Seq(Word) /\ Text(SystemFile) \in Seq(Statement)
      /\ Len(useropts) \in Nat
  <2>1. argv \in Seq(Word) /\ useropts \in Seq(Word) /\ Text(SystemFile) \in Seq(Statement)
    BY <1>0, Sources
  <2> QED
    BY <2>1, Elements
<1>3. ConfTypeOK'
  BY <1>0, <1>1 DEF ConfTypeOK
<1>4. OneFault' = OneFault
  BY <1>1, SameFault DEF confinput
<1>5. BufferInv'
  BY <1>1 DEF BufferInv
<1>6. ASSUME OneFault PROVE settings' = Says(SoFar')
  <2>1. settings = Says(SoFar)
    BY <1>1, <1>6, LastValues DEF ConfInv
  <2>2. Expand(useropts) \in Seq(Statement) /\ SubSeq(useropts, 1, word - 1) = useropts
    <3>1. word - 1 = Len(useropts)
      BY <1>1, <1>2
    <3> QED
      BY <1>0, <1>2, <3>1, Expands
  <2>3. SoFar = (IF program = "plugin" THEN Text(SystemFile) \o Expand(argv) ELSE <<>>) \o Expand(useropts)
    BY <1>0, <1>1, <2>2, Told DEF Before
  <2>4. SoFar' = ReadOrder
    BY <1>1, <1>3, ToldNext DEF confinput
  <2>5. CASE program = "plugin"
    BY <1>1, <2>1, <2>3, <2>4, <2>5 DEF ReadOrder, Order
  <2>6. CASE program = "srun"
    <3>1. SoFar = Expand(useropts) /\ ReadOrder = Expand(useropts)
      BY <2>2, <2>3, <2>6, ConcatEmptySeq DEF ReadOrder, Order
    <3> QED
      BY <1>1, <2>1, <2>4, <3>1
  <2> QED
    BY <1>1, <2>5, <2>6
<1>7. OneFault' /\ reading' # "refused" => settings' = [k \in DOMAIN Defaults |-> LastValue(SoFar', k)]
  BY <1>4, <1>6, LastValues
<1> QED
  BY <1>3, <1>5, <1>7 DEF ConfInv

LEMMA ConfStutter ==
  ASSUME ConfInv, UNCHANGED confvars
  PROVE  ConfInv'
<1>1. UNCHANGED confinput /\ UNCHANGED <<program, disk, argv, useropts, word, reading, settings, named, buffer>>
  BY DEF confvars, confinput
<1>2. ConfTypeOK'
  BY <1>1 DEF ConfInv, ConfTypeOK
<1>3. OneFault' = OneFault /\ Confs(argv)' = Confs(argv) /\ Confs(useropts)' = Confs(useropts)
  BY <1>1, SameFault
<1>4. BufferInv'
  BY <1>1, <1>3 DEF ConfInv, BufferInv
<1>5. SoFar' = SoFar
  <2>1. ConfTypeOK
    BY DEF ConfInv
  <2> QED
    <3>1. reading \in {"system", "argv", "user", "ready", "refused"}
      BY <2>1 DEF ConfTypeOK
    <3>2. CASE reading = "system"
      BY <1>1, <1>2, <2>1, <3>2, Told, ToldNext
    <3>3. CASE reading = "argv"
      <4>1. SoFar = (IF program = "plugin" THEN Text(SystemFile) ELSE <<>>) \o Expand(Before(argv))
        BY <2>1, <3>3, Told
      <4>2. SoFar' = (IF program = "plugin" THEN Text(SystemFile) ELSE <<>>)
                       \o Expand(SubSeq(argv, 1, word' - 1))
        BY <1>1, <1>2, <3>3, ToldNext
      <4>3. Before(argv) = SubSeq(argv, 1, word' - 1)
        BY <1>1 DEF Before
      <4> QED
        BY <4>1, <4>2, <4>3, Zenon
    <3>4. CASE reading = "user"
      <4>1. SoFar = (IF program = "plugin" THEN Text(SystemFile) \o Expand(argv) ELSE <<>>)
                      \o Expand(Before(useropts))
        BY <2>1, <3>4, Told
      <4>2. SoFar' = (IF program = "plugin" THEN Text(SystemFile) \o Expand(argv) ELSE <<>>)
                       \o Expand(SubSeq(useropts, 1, word' - 1))
        BY <1>1, <1>2, <3>4, ToldNext
      <4>3. Before(useropts) = SubSeq(useropts, 1, word' - 1)
        BY <1>1 DEF Before
      <4> QED
        BY <4>1, <4>2, <4>3, Zenon
    <3>5. CASE reading \in {"ready", "refused"}
      BY <1>1, <1>2, <2>1, <3>5, Told, ToldNext
    <3> QED
      BY <3>1, <3>2, <3>3, <3>4, <3>5
<1> QED
  BY <1>1, <1>2, <1>3, <1>4, <1>5 DEF ConfInv

\* In every reachable state and for any files and words, the settings are those of
\* the statements read so far, and files still to be read find the buffer empty,
\* if at most one file has a fault.
THEOREM ConfInvariance == ConfSpec => []ConfInv
<1>1. ConfInv /\ [ConfNext]_confvars => ConfInv'
  BY SystemStep, OptionsStep, OptionsDoneStep, UserOptionStep, UserDoneStep, ConfStutter DEF ConfNext
<1> QED
  BY <1>1, ConfStart, PTL DEF ConfSpec

\* Texts that do not both give a setting may be read in either order.
LEMMA EitherOrder ==
  ASSUME NEW S, NEW a \in Seq(S), NEW b \in Seq(S), NEW k \in DOMAIN Defaults
  PROVE  LastValue(a \o b, k) = IF LastOf(b, k) = 0 THEN LastValue(a, k) ELSE LastValue(b, k)
<1>1. \A text : Overlay(Defaults, text)[k] = LastValue(text, k)
  BY DEF Overlay, LastValue
<1>2. Overlay(Defaults, a \o b)[k] = Overlay(Overlay(Defaults, a), b)[k]
  BY OverlayTwice
<1>3. Overlay(Overlay(Defaults, a), b)[k] =
        IF LastOf(b, k) = 0 THEN Overlay(Defaults, a)[k] ELSE b[LastOf(b, k)].val
  BY DEF Overlay
<1>4. LastOf(b, k) # 0 => LastValue(b, k) = b[LastOf(b, k)].val
  BY DEF LastValue
<1> QED
  BY <1>1, <1>2, <1>3, <1>4

\* slurm-cpuset(8): if no file spoils the next one, every setting of each program
\* is the last one given, in the manual's order, and the default if none was
\* given; of what both give, the PAM module takes the system file's against its
\* arguments'.
THEOREM LastOneWins == ConfSpec => []LastSettingWins
<1>1. ConfInv => LastSettingWins
  <2> DEFINE sys == Text(SystemFile)
             args == Expand(argv)
             Reversed == program = "pam" /\ Confs(argv) = {}
  <2> SUFFICES ASSUME ConfInv, reading = "ready", OneFault, NEW k \in DOMAIN Defaults
               PROVE  settings[k] = LastValue(IF SystemOverrides(k) THEN sys ELSE Order, k)
    BY DEF LastSettingWins
  <2>1. settings = [q \in DOMAIN Defaults |-> LastValue(SoFar, q)]
    BY DEF ConfInv
  <2>2. SoFar = ReadOrder
    BY Told DEF ConfInv
  <2>3. settings[k] = LastValue(ReadOrder, k)
    BY <2>1, <2>2
  <2>4. SystemOverrides(k) <=> Reversed /\ LastOf(sys, k) # 0 /\ LastOf(args, k) # 0
    BY DEF SystemOverrides
  <2>5. CASE ~Reversed
    <3>1. ReadOrder = Order
      BY <2>5 DEF ReadOrder
    <3> QED
      BY <2>3, <2>4, <2>5, <3>1
  <2>6. CASE Reversed
    <3>1. ReadOrder = args \o sys /\ Order = sys \o args
      BY <2>6 DEF ReadOrder, Order
    <3>2. sys \in Seq(Statement) /\ args \in Seq(Statement)
      <4>1. argv \in Seq(Word) /\ sys \in Seq(Statement)
        BY Sources DEF ConfInv
      <4> HIDE DEF sys
      <4> QED
        BY <4>1, Expands DEF ConfInv
    <3> HIDE DEF sys, args, Reversed
    <3>3. /\ LastValue(args \o sys, k) =
               IF LastOf(sys, k) = 0 THEN LastValue(args, k) ELSE LastValue(sys, k)
          /\ LastValue(sys \o args, k) =
               IF LastOf(args, k) = 0 THEN LastValue(sys, k) ELSE LastValue(args, k)
      BY <3>2, EitherOrder
    <3>4. LastOf(sys, k) = 0 /\ LastOf(args, k) = 0 => LastValue(sys, k) = LastValue(args, k)
      BY DEF LastValue
    <3> QED
      BY <2>3, <2>4, <2>6, <3>1, <3>3, <3>4
  <2> QED
    BY <2>5, <2>6
<1> QED
  BY <1>1, ConfInvariance, PTL

=============================================================================
