----------------------------- MODULE SystemSafe -----------------------------
(***************************************************************************)
(* system-safe.c and system-safe-preload.c: a plugin preloads a library    *)
(* into the task that forks a server at start and replaces system(3) by a  *)
(* request to it over a socket pair. Client and server write and read a    *)
(* request part by part; each may die anywhere, and a signal may interrupt *)
(* the client. One thread of the task calls system().                      *)
(***************************************************************************)
EXTENDS Integers, Sequences

CONSTANTS
  MaxCalls,     \* bound: calls of system()
  MaxInterrupts \* bound: reads of a result ended by a signal

VARIABLES
  plugin,     \* whether the plugin has run, and set LD_PRELOAD
  clientEnd,  \* the processes that hold client_fd open
  serverEnd,  \* ... and server_fd
  requests,   \* parts of requests written and not read
  results,    \* what the server wrote and the client has not read
  caller,     \* where the task is
  calls,      \* calls of system() made
  got,        \* what each call returned, in order
  interrupts, \* reads ended by a signal
  server,     \* where the server is
  serving     \* the call whose command the server has

safevars == <<plugin, clientEnd, serverEnd, requests, results, caller, calls, got, interrupts,
              server, serving>>

\* Results of a call other than a command's status, which is the call's number.
Error == -1
Undefined == -2 \* read() returned 0, and rc was never set
Setup == 0      \* the byte that tells that the server is there

SafeInit ==
  /\ plugin = "none" /\ clientEnd = {} /\ serverEnd = {} /\ requests = <<>> /\ results = <<>>
  /\ caller = "none" /\ calls = 0 /\ got = <<>> /\ interrupts = 0
  /\ server = "none" /\ serving = 0

-----------------------------------------------------------------------------
(* The plugin.                                                             *)

\* opt_enable and opt_disable after the options given; --no-system-safe sets
\* opt_disable to 0, which it is.
opt_process(words) == [opt_enable |-> "system-safe" \in words, opt_disable |-> FALSE]

\* The library is preloaded or not. A buffer that strncpy does not terminate
\* may name no library.
SafeUserInit(enabled, words) ==
  LET opt == opt_process(words) IN
  /\ plugin = "none"
  /\ plugin' \in IF opt.opt_disable \/ (~enabled /\ ~opt.opt_enable) THEN {"off"}
                 ELSE {"preloaded", "off"}
  /\ UNCHANGED <<clientEnd, serverEnd, requests, results, caller, calls, got, interrupts,
                 server, serving>>

-----------------------------------------------------------------------------
(* The task.                                                               *)

\* fork_safe_init up to the fork, which may fail; nobody looks.
fork_safe_init ==
  /\ plugin = "preloaded" /\ caller = "none"
  /\ \/ /\ server' = "new" /\ caller' = "forked"
        /\ clientEnd' = {"task", "server"} /\ serverEnd' = {"task", "server"}
     \/ /\ server' = "not_made" /\ caller' = "idle"
        /\ clientEnd' = {"task"} /\ serverEnd' = {"task"}
  /\ UNCHANGED <<plugin, requests, results, calls, got, interrupts, serving>>

\* Faulty variant: the task keeps the server's end open.
create_system_serverKeeps ==
  /\ caller = "forked"
  /\ caller' = "wait"
  /\ UNCHANGED <<plugin, clientEnd, serverEnd, requests, results, calls, got, interrupts,
                 server, serving>>

create_system_server ==
  /\ caller = "forked"
  /\ caller' = "wait" /\ serverEnd' = serverEnd \ {"task"}
  /\ UNCHANGED <<plugin, clientEnd, requests, results, calls, got, interrupts, server, serving>>

\* Faulty variant: the task does not wait for the server.
WaitForSetupNot ==
  /\ caller = "wait"
  /\ caller' = "idle"
  /\ UNCHANGED <<plugin, clientEnd, serverEnd, requests, results, calls, got, interrupts,
                 server, serving>>

\* The server's byte, or the end of file if it is gone.
WaitForSetup ==
  /\ caller = "wait"
  /\ results # <<>> \/ serverEnd = {}
  /\ caller' = "idle"
  /\ results' = IF results = <<>> THEN results ELSE Tail(results)
  /\ UNCHANGED <<plugin, clientEnd, serverEnd, requests, calls, got, interrupts, server, serving>>

\* A part of a request. Nobody looks whether it was written; if nobody can read
\* it, SIGPIPE ends the task unless the task ignores it.
Write(part, next) ==
  IF serverEnd # {}
  THEN /\ requests' = Append(requests, part) /\ caller' = next
       /\ UNCHANGED <<clientEnd, serverEnd>>
  ELSE \/ caller' = next /\ UNCHANGED <<requests, clientEnd, serverEnd>>
       \/ /\ caller' = "killed" /\ clientEnd' = clientEnd \ {"task"}
          /\ serverEnd' = serverEnd \ {"task"} /\ UNCHANGED requests

\* system(): command, directory, environment, each in turn. The command may be
\* empty.
WriteCommand(empty) ==
  /\ caller = "idle" /\ calls < MaxCalls
  /\ calls' = calls + 1
  /\ Write([call |-> calls + 1, empty |-> empty], "path")
  /\ UNCHANGED <<plugin, results, got, interrupts, server, serving>>

WritePath ==
  /\ caller = "path"
  /\ Write("path", "env")
  /\ UNCHANGED <<plugin, results, calls, got, interrupts, server, serving>>

WriteEnv ==
  /\ caller = "env"
  /\ Write("env", "read")
  /\ UNCHANGED <<plugin, results, calls, got, interrupts, server, serving>>

\* A single read: a result, an end of file (or a reset connection) if the
\* server is gone, or a signal, after which the result is still to come.
ReadResult ==
  /\ caller = "read"
  /\ \/ /\ results # <<>>
        /\ got' = Append(got, Head(results)) /\ results' = Tail(results)
        /\ UNCHANGED interrupts
     \/ /\ results = <<>> /\ serverEnd = {}
        /\ \E r \in {Undefined, Error} : got' = Append(got, r)
        /\ UNCHANGED <<results, interrupts>>
     \/ /\ results = <<>> /\ interrupts < MaxInterrupts
        /\ interrupts' = interrupts + 1 /\ got' = Append(got, Error)
        /\ UNCHANGED results
  /\ caller' = "idle"
  /\ UNCHANGED <<plugin, clientEnd, serverEnd, requests, calls, server, serving>>

\* The task ends between calls, or is killed anywhere.
TaskDies ==
  /\ caller \notin {"none", "ended", "killed"}
  /\ caller' = IF caller = "idle" THEN "ended" ELSE "killed"
  /\ clientEnd' = clientEnd \ {"task"} /\ serverEnd' = serverEnd \ {"task"}
  /\ UNCHANGED <<plugin, requests, results, calls, got, interrupts, server, serving>>

-----------------------------------------------------------------------------
(* The server.                                                             *)

ServerGone ==
  server' = "gone" /\ clientEnd' = clientEnd \ {"server"} /\ serverEnd' = serverEnd \ {"server"}

\* Faulty variant: the server keeps the client's end open.
SystemServerKeeps ==
  /\ server = "new"
  /\ results' = Append(results, Setup) /\ server' = "command"
  /\ UNCHANGED <<plugin, clientEnd, serverEnd, requests, caller, calls, got, interrupts, serving>>

\* system_server: close the client's end and write a byte, which SIGPIPE
\* answers if the task is gone.
SystemServer ==
  /\ server = "new"
  /\ IF "task" \in clientEnd
     THEN /\ results' = Append(results, Setup) /\ server' = "command"
          /\ clientEnd' = clientEnd \ {"server"} /\ UNCHANGED serverEnd
     ELSE ServerGone /\ UNCHANGED results
  /\ UNCHANGED <<plugin, requests, caller, calls, got, interrupts, serving>>

EndOfFile == requests = <<>> /\ clientEnd = {}

\* An empty command looks like the end of the file.
ReadCommand ==
  /\ server = "command"
  /\ \/ EndOfFile /\ ServerGone /\ UNCHANGED <<requests, serving>>
     \/ /\ requests # <<>> /\ Head(requests).empty
        /\ ServerGone /\ requests' = <<>> /\ UNCHANGED serving
     \/ /\ requests # <<>> /\ ~Head(requests).empty
        /\ serving' = Head(requests).call /\ requests' = Tail(requests)
        /\ server' = "path" /\ UNCHANGED <<clientEnd, serverEnd>>
  /\ UNCHANGED <<plugin, results, caller, calls, got, interrupts>>

\* Directory and environment; the end of the file is taken for an empty string
\* and for no environment, or ends the server in the middle of a string.
ReadRest ==
  /\ server \in {"path", "env"}
  /\ \/ /\ requests # <<>> \/ EndOfFile
        /\ requests' = IF requests = <<>> THEN requests ELSE Tail(requests)
        /\ server' = IF server = "path" THEN "env" ELSE "run"
        /\ UNCHANGED <<clientEnd, serverEnd>>
     \/ EndOfFile /\ ServerGone /\ UNCHANGED requests
  /\ UNCHANGED <<plugin, results, caller, calls, got, interrupts, serving>>

\* real_system has returned; the status is written.
RunCommand ==
  /\ server = "run"
  /\ IF clientEnd # {}
     THEN /\ results' = Append(results, serving) /\ server' = "command"
          /\ UNCHANGED <<clientEnd, serverEnd>>
     ELSE ServerGone /\ UNCHANGED results
  /\ UNCHANGED <<plugin, requests, caller, calls, got, interrupts, serving>>

ServerDies ==
  /\ server \notin {"none", "not_made", "gone"}
  /\ ServerGone
  /\ UNCHANGED <<plugin, requests, results, caller, calls, got, interrupts, serving>>

Server == SystemServer \/ ReadCommand \/ ReadRest \/ RunCommand
Caller == create_system_server \/ WaitForSetup \/ WritePath \/ WriteEnv \/ ReadResult

SafeNext ==
  \/ \E enabled \in BOOLEAN, words \in SUBSET {"system-safe", "no-system-safe"} :
       SafeUserInit(enabled, words)
  \/ fork_safe_init \/ Caller
  \/ \E empty \in BOOLEAN : WriteCommand(empty)
  \/ TaskDies \/ Server \/ ServerDies

SafeSpec == SafeInit /\ [][SafeNext]_safevars

\* Both processes go on whenever they can; the commands end (RunCommand).
SafeFairness ==
  /\ WF_safevars(Server)
  /\ WF_safevars(Caller)

-----------------------------------------------------------------------------
(* What a program that calls system() relies on.                           *)

\* Until a signal ends a read, a call of system() returns the status of its own
\* command, unless the server, killed or ended by an empty command, is gone
\* without an answer: then no answer of an earlier call is left for a later one,
\* and from that call on every one fails. A failed call returns -1, or an rc
\* that nobody set (Undefined), which its caller cannot tell from a status. (Once
\* a signal has ended a read, calls return the status of an earlier one.)
OwnResult ==
  interrupts = 0 =>
    \A k \in DOMAIN got : got[k] # k =>
      /\ got[k] \in {Error, Undefined} /\ server = "gone" /\ results = <<>>
      /\ \A j \in DOMAIN got : j > k => got[j] # j

\* Every call of system() returns or the task is gone, also if the server dies
\* in the middle of it. (If the fork of fork_safe_init failed, none returns.)
CallsReturn ==
  (caller \in {"path", "env", "read"} /\ server # "not_made")
    ~> (caller \in {"idle", "ended", "killed"})

\* The server does not outlive the task.
ServerEnds == (caller \in {"ended", "killed"}) ~> (server \in {"gone", "not_made"})

-----------------------------------------------------------------------------
(* The inductive invariant behind OwnResult.                               *)

Calling == {"path", "env", "read"}

\* A call returns one result.
GotOK ==
  /\ calls \in Nat /\ got \in Seq(Int)
  /\ caller \in {"none", "forked", "wait"} => calls = 0 /\ got = <<>>
  /\ caller = "idle" => Len(got) = calls
  /\ caller \in Calling => calls = Len(got) + 1

\* Who has the ends of the socket pair.
EndsOK ==
  /\ caller \in {"none", "forked", "wait", "idle", "ended", "killed"} \cup Calling
  /\ server \in {"none", "not_made", "new", "command", "path", "env", "run", "gone"}
  /\ caller = "none" <=> server = "none"
  /\ caller = "forked" => server # "not_made"
  /\ caller = "wait" => server # "not_made"
  /\ caller \in {"forked", "wait", "idle"} \cup Calling => "task" \in clientEnd
  /\ server \in {"new", "command", "path", "env", "run"} => "server" \in serverEnd
  /\ server = "not_made" /\ caller \in {"idle"} \cup Calling => "task" \in serverEnd

\* The parts of the call's request that are written.
Parts(empty) ==
  CASE caller = "path" -> <<[call |-> calls, empty |-> empty]>>
    [] caller = "env"  -> <<[call |-> calls, empty |-> empty], "path">>
    [] caller = "read" -> <<[call |-> calls, empty |-> empty], "path", "env">>
    [] OTHER -> <<>>

\* Before the first call there is the server's byte at most.
BeforeCalls ==
  caller \in {"none", "forked", "wait"} =>
    /\ requests = <<>>
    /\ \/ server \in {"none", "new"} /\ results = <<>>
       \/ server = "command" /\ results = <<Setup>>
       \/ server = "gone" /\ results \in {<<>>, <<Setup>>}

\* What is between caller and server belongs to the call that is being made.
InTransit ==
  caller \in {"idle"} \cup Calling =>
    \/ server = "not_made" /\ results = <<>>
    \/ server = "gone" /\ (results = <<>> \/ (caller = "read" /\ results = <<calls>>))
    \/ server = "command" /\ results = <<>> /\ \E empty \in BOOLEAN : requests = Parts(empty)
    \/ server = "command" /\ caller = "read" /\ requests = <<>> /\ results = <<calls>>
    \/ /\ serving = calls /\ results = <<>>
       /\ \/ server = "path" /\ caller \in Calling
             /\ requests = (CASE caller = "path" -> <<>> [] caller = "env" -> <<"path">>
                              [] OTHER -> <<"path", "env">>)
          \/ server = "env" /\ caller = "env" /\ requests = <<>>
          \/ server = "env" /\ caller = "read" /\ requests = <<"env">>
          \/ server = "run" /\ caller = "read" /\ requests = <<>>

SafeInv ==
  /\ interrupts \in Nat
  /\ interrupts = 0 => GotOK /\ EndsOK /\ BeforeCalls /\ InTransit /\ OwnResult

=============================================================================
