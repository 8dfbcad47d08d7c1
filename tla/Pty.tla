-------------------------------- MODULE Pty ---------------------------------
(***************************************************************************)
(* pty.c: srun --pty. In srun a thread waits for SIGWINCH and sends the    *)
(* new size of the terminal over a connection; on the node the first       *)
(* process of task 0 stays behind as a relay between the task's pseudo     *)
(* terminal, the task's standard streams and that connection.              *)
(***************************************************************************)
EXTENDS Integers, Sequences

CONSTANTS
  MaxResize, \* bound: changes of the terminal's size; sizes are numbered
  MaxOutput, \* bound: buffers (4096 bytes) of output the task writes
  MaxInput   \* bound: buffers of input the user types

VARIABLES
  do_pty,   \* the option was given
  term,     \* size of the user's terminal
  pending,  \* SIGWINCH waits for the thread
  winch,
  thread,   \* where srun's thread is
  wire,     \* sizes sent and not read
  env,      \* SLURM_PTY_WIN_ROW and _COL
  relay,    \* where the relay is, or how it ended
  revents,  \* what poll returned to the relay
  rfd,      \* the relay is connected to the thread
  master,   \* the relay has the pseudo terminal
  ptysize,  \* size of the pseudo terminal
  child,    \* the task
  output,   \* buffers written by the task and not read: how many, of how many
  input     \* buffers typed and not read, of how many, and whether all is typed

srunvars == <<term, pending, winch, thread, env>>
nodevars == <<relay, revents, rfd, master, ptysize, child>>
ptyvars == <<do_pty, srunvars, wire, nodevars, output, input>>

RelayDone == relay \in {"exited", "aborted", "none_made"}

PtyInit ==
  /\ do_pty \in BOOLEAN
  /\ term = 0 /\ pending = FALSE /\ winch = FALSE /\ thread = "none" /\ env = 0
  /\ wire = <<>>
  /\ relay = "none" /\ revents = {} /\ rfd = FALSE /\ master = FALSE /\ ptysize = 0
  /\ child = "none"
  /\ output = [left |-> 0, all |-> 0] /\ input = [left |-> 0, all |-> 0, eof |-> FALSE]

-----------------------------------------------------------------------------
(* srun.                                                                   *)

\* slurm_spank_local_user_init: the size goes into the environment, SIGWINCH
\* is blocked, a thread starts. No port or no thread: the step goes on.
slurm_spank_local_user_init ==
  /\ do_pty /\ thread = "none"
  /\ env' = term
  /\ thread' \in {"new", "not_made"}
  /\ UNCHANGED <<do_pty, term, pending, winch, wire, nodevars, output, input>>

\* The thread unblocks the signal before it has a handler; what is pending is
\* ignored.
UnblockSigwinch ==
  /\ thread = "new"
  /\ thread' = "unblocked" /\ pending' = FALSE
  /\ UNCHANGED <<do_pty, term, winch, env, wire, nodevars, output, input>>

InstallHandler ==
  /\ thread = "unblocked"
  /\ thread' = "accept"
  /\ UNCHANGED <<do_pty, term, pending, winch, env, wire, nodevars, output, input>>

\* The places with a handler. In "loop" the thread is about to call poll.
Handled == {"accept", "loop", "poll", "woken", "notified"}

\* The user changes the size of the terminal, and the kernel signals srun.
Resize ==
  /\ do_pty /\ term < MaxResize
  /\ term' = term + 1
  /\ pending' = (pending \/ thread \in Handled \cup {"new", "not_made"})
  /\ UNCHANGED <<do_pty, winch, thread, env, wire, nodevars, output, input>>

\* The signal ends a poll in progress, and no later one; accept is restarted.
handle_sigwinch ==
  /\ pending /\ thread \in Handled
  /\ pending' = FALSE /\ winch' = TRUE
  /\ thread' = IF thread = "poll" THEN "woken" ELSE thread
  /\ UNCHANGED <<do_pty, term, env, wire, nodevars, output, input>>

Accept ==
  /\ thread = "accept" /\ rfd
  /\ thread' = "loop"
  /\ UNCHANGED <<do_pty, term, pending, winch, env, wire, nodevars, output, input>>

\* Faulty variant: the flag is cleared before it is looked at.
notify_winsize_changeNot ==
  /\ thread = "woken"
  /\ thread' = "notified" /\ winch' = FALSE
  /\ UNCHANGED <<do_pty, term, pending, env, wire, nodevars, output, input>>

notify_winsize_change ==
  /\ thread = "woken"
  /\ wire' = IF winch THEN Append(wire, term) ELSE wire
  /\ thread' = "notified"
  /\ UNCHANGED <<do_pty, term, pending, winch, env, nodevars, output, input>>

\* A signal handled since the size was read is forgotten here.
ClearWinch ==
  /\ thread = "notified"
  /\ winch' = FALSE /\ thread' = "loop"
  /\ UNCHANGED <<do_pty, term, pending, env, wire, nodevars, output, input>>

\* The thread blocks, whatever winch says: a signal handled since winch = 0, or
\* before the first poll, waits for the next one.
EnterPoll ==
  /\ thread = "loop"
  /\ thread' = "poll"
  /\ UNCHANGED <<do_pty, term, pending, winch, env, wire, nodevars, output, input>>

-----------------------------------------------------------------------------
(* The node.                                                               *)

\* slurm_spank_task_init of task 0: pty_connect_back may fail, forkpty too, in
\* which case the task goes on without a terminal.
slurm_spank_task_init ==
  /\ relay = "none" /\ thread # "none"
  /\ rfd' \in IF thread = "not_made" THEN {FALSE} ELSE BOOLEAN
  /\ \/ /\ relay' = "poll" /\ master' = TRUE /\ ptysize' = env /\ child' = "running"
     \/ /\ relay' = "none_made" /\ UNCHANGED <<master, ptysize, child>>
  /\ UNCHANGED <<do_pty, srunvars, wire, revents, output, input>>

Gone == child \in {"exited", "killed", "reaped"}

\* What poll finds. Without a connection its third entry was never set, and it
\* may find anything.
Ready ==
  (IF output.left > 0 \/ Gone THEN {"pty"} ELSE {})
  \cup (IF input.left > 0 \/ input.eof THEN {"stdin"} ELSE {})
  \cup (IF rfd /\ wire # <<>> THEN {"winsz"} ELSE {})

\* The relay has given the pseudo terminal up when its input ended, and the
\* assertion of fd_set_nonblocking fails.
PollFails ==
  /\ relay = "poll" /\ ~master
  /\ relay' = "aborted"
  /\ UNCHANGED <<do_pty, srunvars, wire, revents, rfd, master, ptysize, child, output, input>>

Poll ==
  /\ relay = "poll" /\ master
  /\ revents' \in {Ready} \cup (IF rfd THEN {} ELSE {Ready \cup {"winsz"}})
                    \cup (IF Gone THEN {Ready \cup {"err"}} ELSE {})
  /\ revents' # {}
  /\ relay' = "turn"
  /\ UNCHANGED <<do_pty, srunvars, wire, rfd, master, ptysize, child, output, input>>

process_pty ==
  output' = IF "pty" \in revents /\ output.left > 0
            THEN [output EXCEPT !.left = @ - 1] ELSE output

\* The end of the input closes the output too.
process_stdin ==
  IF "stdin" \notin revents THEN UNCHANGED <<input, master>>
  ELSE IF input.left > 0
  THEN input' = [input EXCEPT !.left = @ - 1] /\ UNCHANGED master
  ELSE master' = FALSE /\ UNCHANGED input

process_winsz_event ==
  IF "winsz" \notin revents \/ ~rfd THEN UNCHANGED <<wire, ptysize>>
  ELSE /\ wire' = Tail(wire)
       /\ ptysize' = IF master' THEN Head(wire) ELSE ptysize

\* Faulty variant: the task is only looked for after an error of the terminal.
check_for_slave_exitOnError ==
  IF "err" \in revents /\ child = "exited" THEN relay' = "exited" /\ UNCHANGED child
  ELSE relay' = "poll" /\ UNCHANGED child

\* A task that was killed is waited for and forgotten.
check_for_slave_exit ==
  CASE child = "exited" -> relay' = "exited" /\ UNCHANGED child
    [] child = "killed" -> relay' = "poll" /\ child' = "reaped"
    [] OTHER -> relay' = "poll" /\ UNCHANGED child

\* The rest of a turn of the relay's loop.
Turn ==
  /\ relay = "turn"
  /\ \/ "err" \in revents /\ UNCHANGED <<output, input, master, wire, ptysize>>
     \/ "err" \notin revents /\ process_pty /\ process_stdin /\ process_winsz_event
  /\ check_for_slave_exit
  /\ revents' = {}
  /\ UNCHANGED <<do_pty, srunvars, rfd>>

TaskWrites ==
  /\ child = "running" /\ output.all < MaxOutput
  /\ output' = [left |-> output.left + 1, all |-> output.all + 1]
  /\ UNCHANGED <<do_pty, srunvars, wire, nodevars, input>>

TaskEnds ==
  /\ child = "running" /\ child' \in {"exited", "killed"}
  /\ UNCHANGED <<do_pty, srunvars, wire, relay, revents, rfd, master, ptysize, output, input>>

UserTypes ==
  /\ do_pty /\ ~input.eof
  /\ input' \in {[input EXCEPT !.eof = TRUE]} \cup
       (IF input.all < MaxInput THEN {[input EXCEPT !.left = @ + 1, !.all = @ + 1]} ELSE {})
  /\ UNCHANGED <<do_pty, srunvars, wire, nodevars, output>>

PtyThread ==
  \/ UnblockSigwinch \/ InstallHandler \/ handle_sigwinch \/ Accept
  \/ notify_winsize_change \/ ClearWinch \/ EnterPoll

PtyRelay == PollFails \/ Poll \/ Turn

PtyNext ==
  \/ slurm_spank_local_user_init \/ PtyThread \/ Resize
  \/ slurm_spank_task_init \/ PtyRelay
  \/ TaskWrites \/ TaskEnds \/ UserTypes

\* The kernel runs the thread and the relay whenever they can go on.
PtyFairness ==
  /\ WF_ptyvars(PtyThread)
  /\ WF_ptyvars(PtyRelay)

-----------------------------------------------------------------------------
(* What the user sees.                                                     *)

\* When the task has exited the relay ends with it, whatever still is to be
\* read, typed or resized, connected or not. (A task that was killed is not
\* noticed: check_for_slave_exit only knows WIFEXITED.)
RelayEnds == child = "exited" ~> RelayDone

\* A size whose signal arrives while the thread is blocked in poll reaches the
\* task's terminal, or a later one does, as long as there is a task to see it. (A
\* signal handled anywhere else may be lost until the next one: before the first
\* poll, between notify_winsize_change and winch = 0, or between winch = 0 and
\* the poll that follows, which it sets winch for but does not end.)
ResizeReaches ==
  \A n \in 1 .. MaxResize :
    (thread = "poll" /\ pending /\ rfd /\ child = "running" /\ term = n)
      ~> (ptysize >= n \/ RelayDone \/ child # "running")

=============================================================================
