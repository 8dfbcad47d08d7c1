----------------------------- MODULE MCSession ------------------------------
(***************************************************************************)
(* The plugins of a job step that keep no cpusets: srun's pseudo terminal, *)
(* the server behind system(3), the mode of memory overcommit, and the lua *)
(* scripts of the site; and the reading of slurm-cpuset's configuration.   *)
(* They share no state: a behaviour is about one of them.                  *)
(***************************************************************************)
EXTENDS Pty, SystemSafe, Overcommit, SpankLua, CpusetConf

VARIABLE asked \* the plugin

\* Scripts that load or do not, share an option's name (with one that is dropped,
\* too), miss a field of an option, and register options from their own init.
Opt(n) == [name |-> n, cb |-> TRUE, whole |-> TRUE]
StepDefs == {"init", "user_init", "task_exit", "exit"}

MCScript ==
  [plain |-> [loads |-> TRUE, defs |-> StepDefs, table |-> <<Opt("a"), Opt("b")>>, adds |-> Nil],
   rival |-> [loads |-> TRUE, defs |-> {"init", "init_post_opt", "task_exit", "slurmd_init"},
              table |-> <<Opt("c"), Opt("b")>>, adds |-> Nil],
   late |-> [loads |-> TRUE, defs |-> StepDefs \cup {"job_prolog", "slurmd_exit"},
             table |-> <<[Opt("d") EXCEPT !.cb = FALSE]>>, adds |-> Opt("c")],
   faulty |-> [loads |-> TRUE, defs |-> {"init"}, table |-> <<>>,
               adds |-> [Opt("e") EXCEPT !.whole = FALSE]],
   panics |-> [loads |-> TRUE, defs |-> {"init"}, table |-> <<[Opt("e") EXCEPT !.whole = FALSE]>>,
               adds |-> Nil],
   twice |-> [loads |-> TRUE, defs |-> {"init"}, table |-> <<Opt("f"), Opt("f")>>, adds |-> Nil],
   heir |-> [loads |-> TRUE, defs |-> StepDefs, table |-> <<Opt("f")>>, adds |-> Nil],
   broken |-> [loads |-> FALSE, defs |-> {"init"}, table |-> <<Opt("a")>>, adds |-> Nil]]

MCListings ==
  {q \in UNION {[1 .. n -> DOMAIN MCScript] : n \in 0 .. 3} :
     IsInjective(q) /\ (Len(q) = 3 => {"twice", "heir"} \cap Range(q) = {})}

\* A system file and another, good or with a fault in the middle; words that set
\* what the files set.
Say(k, v) == [key |-> k, val |-> v]
Good1 == <<Say("fit", "worst"), Say("kill", TRUE), Say("idle", FALSE)>>
Bad1  == <<Say("fit", "first"), Say("bad", 0), Say("order", "reverse")>>
Good2 == <<Say("order", "reverse"), Say("mult", FALSE), Say("fit", "first")>>

MCDisks ==
  {[f \in DOMAIN d \ {""} |-> d[f]] :
     d \in {a @@ b : a \in {"" :> <<>>, SystemFile :> Good1, SystemFile :> Bad1},
                     b \in {"" :> <<>>, "other" :> Good2, "other" :> Bad1}}}

MCWords ==
  {Say("fit", "worst"), Say("idle", TRUE), Say("mult", FALSE), Say("mem", FALSE),
   Say("order", "normal"), Say("conf", "other"), Say("policy=", "first"), Say("bad", 0)}

MCArgLists  == UNION {[1 .. n -> MCWords] : n \in 0 .. 2}
MCUserLists ==
  UNION {[1 .. n -> {w \in MCWords : w.key \in {"order", "conf", "policy=", "bad"}}] : n \in 0 .. 2}

SessionInit ==
  /\ asked \in {"pty", "system-safe", "overcommit-memory", "lua", "cpuset"}
  /\ asked = "lua" \/ (ctx = "step" /\ matched = <<>> /\ fail = FALSE)
  /\ asked = "cpuset" \/ (program = "agent" /\ disk = <<>>)
  /\ asked = "overcommit-memory" \/ (mode = [s \in Steps |-> 0] /\ tool = [t \in Tools |-> "list-users"])
  /\ PtyInit /\ SafeInit /\ OcInit /\ LuaInit /\ ConfInit
  /\ do_pty <=> asked = "pty"

SessionNext ==
  \/ asked = "pty" /\ PtyNext /\ UNCHANGED <<asked, safevars, ocvars, luavars, confvars>>
  \/ asked = "system-safe" /\ SafeNext /\ UNCHANGED <<asked, ptyvars, ocvars, luavars, confvars>>
  \/ asked = "overcommit-memory" /\ OcNext /\ UNCHANGED <<asked, ptyvars, safevars, luavars, confvars>>
  \/ asked = "lua" /\ LuaNext /\ UNCHANGED <<asked, ptyvars, safevars, ocvars, confvars>>
  \/ asked = "cpuset" /\ ConfNext /\ UNCHANGED <<asked, ptyvars, safevars, ocvars, luavars>>

Spec ==
  /\ SessionInit /\ [][SessionNext]_<<asked, ptyvars, safevars, ocvars, luavars, confvars>>
  /\ PtyFairness /\ SafeFairness

=============================================================================
