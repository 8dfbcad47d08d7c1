------------------------------ MODULE SpankLua ------------------------------
(***************************************************************************)
(* lua/lua.c: a spank plugin that loads the lua scripts a pattern matches, *)
(* registers the options their tables list, and calls the function that   *)
(* each of them has for a callback. SLURM calls the plugin in a fixed      *)
(* order; a loop over the scripts takes one step per script.               *)
(***************************************************************************)
EXTENDS Integers, SequencesExt

CONSTANTS
  Listings,  \* what the pattern may match: sequences of scripts
  Script,    \* a script: loads, defs (its functions), table (its options),
             \*   adds (an option that its slurm_spank_init registers, or Nil)
  Contexts,  \* "step", "slurmd" or "job_script"
  MaxTasks,  \* bound: tasks whose exit is reported
  Nil       \* no option; no list of scripts

VARIABLES
  ctx, matched, failonerror, \* the context, the match, the argument
  fail,     \* opt.fail_on_error, which nothing sets without the argument
  stage,    \* "start", "load", "table", "call", "idle", and the ends
  callback, \* the callback that runs or ran last
  list,     \* lua_script_list
  todo,     \* the scripts that the present loop still has to visit
  nth,      \* options of the present script's table done
  opts,     \* script_option_list
  taken,    \* the options SLURM accepted, with the script that registered them
  freed,    \* scripts destroyed
  ran,      \* the calls of the present callback, in order
  rc,       \* its result
  tasks     \* task exits reported

given == <<ctx, matched, failonerror, fail>>
luavars == <<given, stage, callback, list, todo, nth, opts, taken, freed, ran, rc, tasks>>

Ends == {"failed", "aborted", "undefined", "closed"}

\* An option of a script: its name, whether it has a function, and whether it has
\* all that lua_script_option_create asks for.
Option == [name : STRING, cb : BOOLEAN, whole : BOOLEAN]

\* The pattern matches a file once (glob). Nil is neither a list,
\* nor an option, nor a callback.
ASSUME LuaAssumption ==
  /\ \A s \in DOMAIN Script :
       Script[s] \in [loads : BOOLEAN, defs : SUBSET STRING, table : Seq(Option),
                     adds : Option \cup {Nil}]
  /\ \A q \in Listings : q \in Seq(DOMAIN Script) /\ IsInjective(q)
  /\ Contexts \subseteq {"step", "slurmd", "job_script"}
  /\ Nil \notin Seq(DOMAIN Script) \cup Option \cup {"init"}

\* The first callback of a context and what may follow; a failure ends the step.
First == [step |-> "init", slurmd |-> "slurmd_init", job_script |-> "job_prolog"] \* job_epilog likewise

Follows(c, r) ==
  {d \in {"init_post_opt", "user_init", "task_exit", "exit", "slurmd_exit"} :
     \/ c = "init" /\ d = "init_post_opt"
     \/ c = "init_post_opt" /\ d = "user_init"
     \/ c \in {"user_init", "task_exit"} /\ d = "task_exit" /\ tasks < MaxTasks
     \/ c \in {"user_init", "task_exit"} /\ d = "exit"
     \/ ctx = "step" /\ r < 0 /\ d = "exit"
     \/ c = "slurmd_init" /\ d = "slurmd_exit"}

-----------------------------------------------------------------------------
(* Loading.                                                                *)

\* Scripts without a callback for slurmd or for the job scripts are not kept.
lua_script_valid_in_context(s) ==
  CASE ctx = "slurmd" -> Script[s].defs \cap {"slurmd_init", "slurmd_exit"} # {}
    [] ctx = "job_script" -> Script[s].defs \cap {"job_prolog", "job_epilog"} # {}
    [] OTHER -> TRUE

LuaInit ==
  /\ ctx \in Contexts /\ matched \in Listings /\ failonerror \in BOOLEAN
  /\ fail \in IF failonerror THEN {TRUE} ELSE BOOLEAN
  /\ stage = "start" /\ callback = Nil /\ list = Nil /\ todo = <<>> /\ nth = 0
  /\ opts = <<>> /\ taken = {} /\ freed = {} /\ ran = <<>> /\ rc = 0 /\ tasks = 0

\* liblua may be missing. list_push turns the order of the files around. With
\* no file, the loop over the option tables asserts that there is a list.
spank_lua_init ==
  /\ stage = "start"
  /\ \/ stage' = "failed" /\ UNCHANGED <<list, todo, callback>>
     \/ /\ matched = <<>>
        /\ stage' = IF ctx = "step" THEN "aborted" ELSE "idle"
        /\ callback' = First[ctx]
        /\ UNCHANGED <<list, todo>>
     \/ /\ matched # <<>>
        /\ stage' = "load"
        /\ list' = Reverse(matched) /\ todo' = Reverse(matched)
        /\ UNCHANGED callback
  /\ UNCHANGED <<given, nth, opts, taken, freed, ran, rc, tasks>>

\* list_remove of the script that the loop's iterator returned last, which is the
\* first of todo, and lua_script_destroy.
DropScript(s) ==
  /\ list' = RemoveAt(list, Len(list) - Len(todo) + 1)
  /\ freed' = freed \cup {s}

\* Faulty variant: a script that does not load is destroyed and stays listed.
LoadScriptKeeps ==
  /\ stage = "load" /\ todo # <<>>
  /\ LET s == Head(todo) IN
     \/ /\ ~Script[s].loads /\ fail
        /\ stage' = "failed" /\ UNCHANGED <<list, freed, todo>>
     \/ /\ Script[s].loads => ~lua_script_valid_in_context(s)
        /\ Script[s].loads \/ ~fail
        /\ freed' = freed \cup {s} /\ todo' = Tail(todo) /\ UNCHANGED <<stage, list>>
     \/ /\ Script[s].loads /\ lua_script_valid_in_context(s)
        /\ todo' = Tail(todo) /\ UNCHANGED <<stage, list, freed>>
  /\ UNCHANGED <<given, callback, nth, opts, taken, ran, rc, tasks>>

\* One turn of the loop of spank_lua_init: luaL_loadfile and lua_pcall.
LoadScript ==
  /\ stage = "load" /\ todo # <<>>
  /\ LET s == Head(todo) IN
     \/ /\ ~Script[s].loads /\ fail
        /\ stage' = "failed" /\ UNCHANGED <<list, freed, todo>>
     \/ /\ Script[s].loads => ~lua_script_valid_in_context(s)
        /\ Script[s].loads \/ ~fail
        /\ DropScript(s) /\ todo' = Tail(todo) /\ UNCHANGED stage
     \/ /\ Script[s].loads /\ lua_script_valid_in_context(s)
        /\ todo' = Tail(todo) /\ UNCHANGED <<stage, list, freed>>
  /\ UNCHANGED <<given, callback, nth, opts, taken, ran, rc, tasks>>

\* Only slurm_spank_init goes on to the tables of options.
LoadDone ==
  /\ stage = "load" /\ todo = <<>>
  /\ stage' = IF ctx = "step" THEN "table" ELSE "call"
  /\ callback' = First[ctx]
  /\ todo' = list
  /\ UNCHANGED <<given, list, nth, opts, taken, freed, ran, rc, tasks>>

-----------------------------------------------------------------------------
(* Options.                                                                *)

\* Faulty variant: options are numbered script by script.
OptionValOwn(s) == Len(SelectSeq(opts, LAMBDA p : p.script = s))

OptionVal(s) == Len(opts)

\* Whether SLURM accepts the option: nobody has the name yet.
NameFree(opt) == \A t \in taken : t.name # opt.name

\* The option is listed before SLURM is asked, and stays if it is refused.
lua_script_option_register(s, opt) ==
  /\ opts' = <<[val |-> OptionVal(s), script |-> s, name |-> opt.name, cb |-> opt.cb]>> \o opts
  /\ taken' = IF NameFree(opt) THEN taken \cup {[val |-> OptionVal(s), script |-> s, name |-> opt.name]}
              ELSE taken

\* One turn of load_spank_options_table. An option that is not whole raises a
\* lua error outside of any call: the panic handler jumps to spank_lua_init,
\* which has returned.
load_spank_options_table ==
  /\ stage = "table" /\ todo # <<>>
  /\ LET s == Head(todo)
         opt == Script[s].table[nth + 1] IN
     /\ nth < Len(Script[s].table)
     /\ \/ /\ ~opt.whole
           /\ stage' = "undefined" /\ UNCHANGED <<opts, taken, list, freed, todo, nth>>
        \/ /\ opt.whole /\ NameFree(opt)
           /\ lua_script_option_register(s, opt)
           /\ nth' = nth + 1 /\ UNCHANGED <<stage, list, freed, todo>>
        \/ /\ opt.whole /\ ~NameFree(opt)
           /\ lua_script_option_register(s, opt)
           /\ nth' = 0 /\ todo' = Tail(todo)
           /\ IF fail THEN stage' = "failed" /\ UNCHANGED <<list, freed>>
              ELSE DropScript(s) /\ UNCHANGED stage
  /\ UNCHANGED <<given, callback, ran, rc, tasks>>

TableDone ==
  /\ stage = "table" /\ todo # <<>> /\ nth = Len(Script[Head(todo)].table)
  /\ nth' = 0 /\ todo' = Tail(todo)
  /\ UNCHANGED <<given, stage, callback, list, opts, taken, freed, ran, rc, tasks>>

TablesDone ==
  /\ stage = "table" /\ todo = <<>>
  /\ stage' = "call" /\ todo' = list
  /\ UNCHANGED <<given, callback, list, nth, opts, taken, freed, ran, rc, tasks>>

\* SLURM saw option t on the command line: its number leads to the script, which
\* may have been destroyed since.
lua_spank_option_callback(t) ==
  /\ stage = "idle" /\ callback = "init" /\ t \in taken
  /\ LET o == SelectInSeq(opts, LAMBDA p : p.val = t.val)
         s == opts[o].script IN
     stage' = IF opts[o].cb /\ s \in freed THEN "undefined" ELSE stage
  /\ UNCHANGED <<given, callback, list, todo, nth, opts, taken, freed, ran, rc, tasks>>

-----------------------------------------------------------------------------
(* Callbacks.                                                              *)

\* The scripts that call_foreach goes through: none without a list.
Kept == IF list = Nil THEN <<>> ELSE list

\* l_spank_option_register, called by the script; a lua error there ends the
\* script's function and no more.
ScriptRegisters(s, r) ==
  LET opt == Script[s].adds IN
  IF callback # "init" \/ opt = Nil THEN UNCHANGED <<opts, taken>>
  ELSE IF opt.whole THEN lua_script_option_register(s, opt)
  ELSE r = "error" /\ UNCHANGED <<opts, taken>>

\* lua_spank_call and lua_script_rc.
lua_spank_call(s, r) ==
  /\ ran' = Append(ran, [script |-> s, result |-> r])
  /\ rc' = IF r = "failure" \/ (r = "error" /\ fail) THEN -1 ELSE rc
  /\ ScriptRegisters(s, r)

\* Faulty variant: the loop ends with the first script that fails.
CallScriptStops ==
  /\ stage = "call" /\ todo # <<>>
  /\ LET s == Head(todo) IN
     IF callback \notin Script[s].defs
     THEN todo' = Tail(todo) /\ UNCHANGED <<ran, rc, opts, taken>>
     ELSE \E r \in {"success", "failure", "error"} :
            lua_spank_call(s, r) /\ todo' = IF r = "failure" THEN <<>> ELSE Tail(todo)
  /\ UNCHANGED <<given, stage, callback, list, nth, freed, tasks>>

\* One turn of call_foreach; a script without the function is passed over.
CallScript ==
  /\ stage = "call" /\ todo # <<>>
  /\ todo' = Tail(todo)
  /\ LET s == Head(todo) IN
     \/ callback \notin Script[s].defs /\ UNCHANGED <<ran, rc, opts, taken>>
     \/ /\ callback \in Script[s].defs
        /\ \E r \in {"success", "failure", "error"} : lua_spank_call(s, r)
  /\ UNCHANGED <<given, stage, callback, list, nth, freed, tasks>>

\* The last callbacks destroy the lists and close the lua state.
CallDone ==
  /\ stage = "call" /\ todo = <<>>
  /\ \/ /\ callback \notin {"exit", "slurmd_exit"}
        /\ stage' = "idle" /\ UNCHANGED <<list, opts, freed>>
     \/ /\ callback \in {"exit", "slurmd_exit"}
        /\ stage' = "closed" /\ list' = Nil /\ opts' = <<>>
        /\ freed' = freed \cup Range(Kept)
  /\ UNCHANGED <<given, callback, todo, nth, taken, ran, rc, tasks>>

\* SLURM runs the next callback of the context.
CallForeach(c) ==
  /\ stage = "idle" /\ c \in Follows(callback, rc)
  /\ stage' = "call" /\ callback' = c
  /\ todo' = Kept
  /\ ran' = <<>> /\ rc' = 0
  /\ tasks' = IF c = "task_exit" THEN tasks + 1 ELSE tasks
  /\ UNCHANGED <<given, list, nth, opts, taken, freed>>

LuaNext ==
  \/ spank_lua_init \/ LoadScript \/ LoadDone
  \/ load_spank_options_table \/ TableDone \/ TablesDone
  \/ \E t \in taken : lua_spank_option_callback(t)
  \/ CallScript \/ CallDone
  \/ \E c \in Follows(callback, rc) : CallForeach(c)

-----------------------------------------------------------------------------
(* What the scripts' authors and the users of their options rely on.       *)

Scripts == Range(Kept)

\* SLURM refuses an option of the script's table: another script has the name,
\* which that one keeps even if it was itself dropped later, or the table has it
\* twice.
Refused(s) ==
  LET table == Script[s].table IN
  \E k \in DOMAIN table :
    \/ \E t \in taken : t.name = table[k].name /\ t.script # s
    \/ \E j \in 1 .. k - 1 : table[j].name = table[k].name

\* The calls so far are those that the first n scripts owe, in order: at leads from
\* each call to the place of its script in the list.
Called(n) ==
  \E at \in [DOMAIN ran -> DOMAIN Kept] :
    /\ \A j, k \in DOMAIN ran : j < k => at[j] < at[k]
    /\ \A k \in DOMAIN ran : Kept[at[k]] = ran[k].script
    /\ Range(at) = {i \in 1 .. n : callback \in Script[Kept[i]].defs}

\* The calls that make a callback fail.
Fails == {k \in DOMAIN ran : ran[k].result = "failure" \/ (ran[k].result = "error" /\ fail)}

\* The scripts that could be loaded and are of use in the context.
Fit == {s \in Range(matched) : Script[s].loads /\ lua_script_valid_in_context(s)}

\* When a callback returns, every script that is kept and has the function ran
\* it exactly once and in the list's order, whatever the ones before it did; the
\* callback failed only if one of them did, or raised an error that is to count.
EachCalledOnce ==
  stage = "idle" => Called(Len(Kept)) /\ (rc < 0 <=> Fails # {})

\* A script that cannot be loaded costs no other its place and leaves no option
\* with SLURM. One that can be is dropped only if an option of its table is
\* refused, and that may be the doing of a script that was itself dropped: the
\* options SLURM had accepted from it are not taken back. The plugin fails to
\* start only without liblua, or over a script that does not load or is refused
\* an option while fail_on_error is set, by failonerror or, without it, by what
\* the stack happens to hold.
BrokenScriptsAlone ==
  /\ stage = "idle" =>
       /\ Scripts = {s \in Fit : ctx = "step" => ~Refused(s)}
       /\ \A t \in taken : t.script \in Fit
       /\ failonerror => \A s \in Range(matched) : Script[s].loads /\ (s \in Scripts \/ s \notin Fit)
  /\ stage = "failed" /\ list # Nil =>
       fail /\ \E s \in Range(matched) : ~Script[s].loads \/ Refused(s)

\* The option a user gives is looked up by its number and leads to the script
\* that registered it; the script is still there, unless SLURM refused a later
\* option of its table: then it has been freed, and the number leads to it still.
OptionOwner ==
  stage = "idle" =>
    \A t \in taken :
      LET o == SelectInSeq(opts, LAMBDA p : p.val = t.val)
      IN /\ o # 0 /\ opts[o].script = t.script /\ opts[o].name = t.name
         /\ t.script \in Scripts \/ Refused(t.script)

-----------------------------------------------------------------------------
(* The specification of this plugin alone, and its inductive invariant.    *)

LuaSpec == LuaInit /\ [][LuaNext]_luavars

LuaTypeOK ==
  /\ ctx \in Contexts /\ matched \in Listings
  /\ failonerror \in BOOLEAN /\ fail \in BOOLEAN /\ (failonerror => fail)
  /\ stage \in {"start", "load", "table", "call", "idle"} \cup Ends
  /\ callback = "init" => ctx = "step"
  /\ list \in Seq(DOMAIN Script) \cup {Nil} /\ todo \in Seq(DOMAIN Script) /\ nth \in Nat
  /\ opts \in Seq([val : Nat, script : DOMAIN Script, name : STRING, cb : BOOLEAN])
  /\ taken \subseteq [val : Nat, script : DOMAIN Script, name : STRING]
  /\ ran \in Seq([script : DOMAIN Script, result : {"success", "failure", "error"}])
  /\ rc \in Int

\* A script is listed once, and a loop goes through the list to its end.
LoopInv ==
  /\ IsInjective(Kept)
  /\ Len(todo) <= Len(Kept)
  /\ \A i \in 1 .. Len(todo) : todo[i] = Kept[Len(Kept) - Len(todo) + i]
  /\ stage = "idle" => todo = <<>>
  /\ stage \in {"load", "table"} => list # Nil

\* SLURM accepted the first n options of the script's table from the script.
Owns(s, n) ==
  LET table == Script[s].table IN
  \A k \in 1 .. n :
    /\ \E t \in taken : t.name = table[k].name /\ t.script = s
    /\ \A j \in 1 .. k - 1 : table[j].name # table[k].name

\* What became of the scripts that the loop of a stage has passed.
ScriptsInv ==
  /\ stage = "start" => Kept = <<>>
  /\ stage = "load" =>
       /\ Scripts = {s \in Range(matched) : s \in Range(todo) \/ s \in Fit}
       /\ fail => \A s \in Range(matched) : s \in Range(todo) \/ Script[s].loads
  /\ stage \in {"table", "call", "idle"} =>
       /\ Scripts \subseteq Fit
       /\ fail => \A s \in Range(matched) : Script[s].loads
       /\ \A s \in Fit \ Scripts : ctx = "step" /\ Refused(s) /\ ~fail
       /\ ctx = "step" =>
            \A s \in Scripts : \/ stage = "table" /\ s \in Range(todo)
                              \/ Owns(s, Len(Script[s].table))

\* Options are numbered in the order in which they were listed, and a name is
\* accepted once.
OptsInv ==
  /\ \A t, u \in taken : t.name = u.name => t = u
  /\ \A t \in taken : ctx = "step" /\ t.script \in Fit
  /\ stage # "closed" =>
       /\ \A i \in 1 .. Len(opts) : opts[i].val = Len(opts) - i
       /\ \A t \in taken :
            /\ t.val < Len(opts)
            /\ opts[Len(opts) - t.val].script = t.script
            /\ opts[Len(opts) - t.val].name = t.name

\* The table that is being registered.
TableInv ==
  /\ stage \in {"start", "load"} => taken = {} /\ nth = 0
  /\ stage = "table" =>
       /\ ctx = "step"
       /\ todo # <<>> =>
            /\ nth <= Len(Script[Head(todo)].table)
            /\ Owns(Head(todo), nth)
            /\ \A t \in taken :
                 /\ t.script \notin Range(Tail(todo))
                 /\ t.script = Head(todo) =>
                      \E j \in 1 .. nth : Script[Head(todo)].table[j].name = t.name

\* The calls of the callback that runs or ran last.
RanInv ==
  /\ stage \in {"start", "load", "table"} => ran = <<>> /\ rc = 0
  /\ stage \in {"call", "idle"} => Called(Len(Kept) - Len(todo)) /\ (rc < 0 <=> Fails # {})

\* What made the plugin fail to start.
FailedInv ==
  /\ stage = "start" => list = Nil
  /\ stage = "failed" /\ list # Nil =>
       fail /\ \E s \in Range(matched) : ~Script[s].loads \/ Refused(s)

LuaInv == LuaTypeOK /\ LoopInv /\ ScriptsInv /\ OptsInv /\ TableInv /\ RanInv

=============================================================================
