----------------------------- MODULE CpusetConf -----------------------------
(***************************************************************************)
(* cpuset/conf.c, conf-parser.y and their callers: how the settings of     *)
(* slurm-cpuset come out of the system file, the files that conf= names,   *)
(* the arguments of a program and the words of --use-cpusets.              *)
(***************************************************************************)
EXTENDS Integers, SequencesExt

CONSTANTS
  Disks,    \* what may be on disk: functions from file names to statements
  ArgLists, \* the arguments of the plugin or of the PAM module to consider
  UserLists \* the words of --use-cpusets to consider

\* Texts and lists of words are sequences.
ASSUME ConfAssumption ==
  /\ \A d \in Disks : \A path \in DOMAIN d : d[path] \in Seq(Range(d[path]))
  /\ \A l \in ArgLists \cup UserLists : l \in Seq(Range(l))

\* A statement or a word is [key, val]. Its key is that of a setting, "policy="
\* or "conf", or "bad" for one that no code knows.
VARIABLES
  program,  \* "plugin", "srun", "pam", "agent"
  disk, argv, useropts,
  word,     \* index of the word that is read next
  reading,  \* what is read next: "system", "argv", "user"; "ready", "refused"
  settings, \* struct cpuset_conf
  named,    \* filename_valid
  buffer,   \* statements that an aborted yyparse left in the scanner's buffer
  bad       \* a word of --use-cpusets failed

confinput == <<program, disk, argv, useropts>>
confvars == <<confinput, word, reading, settings, named, buffer, bad>>

SystemFile == "slurm-cpuset.conf"

\* cpuset_conf_create. "idle" is alloc_idle_nodes, "mult" use_idle_if_multiple.
Defaults ==
  [fit |-> "best", order |-> "normal", idle |-> TRUE, mult |-> TRUE, mem |-> TRUE, kill |-> FALSE]

Apply(conf, w) == [conf EXCEPT ![w.key] = w.val]

\* Where yyparse gives up: the first statement it cannot take, or past the end.
FirstBad(text) ==
  LET k == SelectInSeq(text, LAMBDA w : w.key = "bad") IN IF k = 0 THEN Len(text) + 1 ELSE k

Good(text) == SubSeq(text, 1, FirstBad(text) - 1)

\* cpuset_conf_parse. The file counts as named even if it cannot be opened. The
\* scanner goes on with what it had in its buffer before it reads the file.
cpuset_conf_parse(path) ==
  /\ named' = TRUE
  /\ \/ path \notin DOMAIN disk /\ UNCHANGED <<settings, buffer>>
     \/ /\ path \in DOMAIN disk
        /\ LET text == buffer \o disk[path] IN
           /\ settings' = FoldLeft(Apply, settings, Good(text))
           /\ buffer' = SubSeq(text, FirstBad(text) + 1, Len(text))

ParseFails(path) ==
  path \notin DOMAIN disk \/ FirstBad(buffer \o disk[path]) <= Len(buffer \o disk[path])

\* cpuset_conf_parse_opt. After "policy=" the function falls through to the end,
\* where the word is unknown.
cpuset_conf_parse_opt(w) ==
  \/ w.key = "conf" /\ cpuset_conf_parse(w.val)
  \/ w.key \in DOMAIN Defaults /\ settings' = Apply(settings, w) /\ UNCHANGED <<named, buffer>>
  \/ /\ w.key = "policy="
     /\ settings' = Apply(settings, [key |-> "fit", val |-> w.val])
     /\ UNCHANGED <<named, buffer>>
  \/ w.key = "bad" /\ UNCHANGED <<settings, named, buffer>>

OptFails(w) == w.key \in {"policy=", "bad"} \/ (w.key = "conf" /\ ParseFails(w.val))

\* cpuset_conf_create. srun has only the words of the user to test.
ConfInit ==
  /\ program \in {"plugin", "srun", "pam", "agent"}
  /\ disk \in Disks
  /\ argv \in IF program \in {"plugin", "pam"} THEN ArgLists ELSE {<<>>}
  /\ useropts \in IF program \in {"plugin", "srun"} THEN UserLists ELSE {<<>>}
  /\ reading = CASE program = "pam" -> "argv" [] program = "srun" -> "user" [] OTHER -> "system"
  /\ settings = Defaults /\ named = FALSE /\ buffer = <<>> /\ bad = FALSE /\ word = 1

AfterSystem == IF program = "plugin" THEN "argv" ELSE "ready"

\* Faulty variant: the PAM module reads the system file in any case.
cpuset_conf_parse_systemAlways ==
  /\ reading = "system"
  /\ reading' = AfterSystem
  /\ \/ SystemFile \in DOMAIN disk /\ cpuset_conf_parse(SystemFile)
     \/ SystemFile \notin DOMAIN disk /\ UNCHANGED <<settings, named, buffer>>
  /\ UNCHANGED <<confinput, word, bad>>

\* cpuset_conf_parse_system, whose result nobody looks at. The PAM module comes
\* here after its arguments, and only if none of them named a file.
cpuset_conf_parse_system ==
  /\ reading = "system"
  /\ reading' = AfterSystem
  /\ \/ /\ SystemFile \in DOMAIN disk /\ ~named
        /\ cpuset_conf_parse(SystemFile)
     \/ /\ SystemFile \notin DOMAIN disk \/ named
        /\ UNCHANGED <<settings, named, buffer>>
  /\ UNCHANGED <<confinput, word, bad>>

\* parse_options: the plugin takes no notice of an error, the PAM module stops.
parse_options ==
  /\ reading = "argv" /\ word <= Len(argv)
  /\ cpuset_conf_parse_opt(argv[word])
  /\ word' = word + 1
  /\ reading' = IF program = "pam" /\ OptFails(argv[word]) THEN "refused" ELSE reading
  /\ UNCHANGED <<confinput, bad>>

parse_options_done ==
  /\ reading = "argv" /\ word > Len(argv)
  /\ reading' = IF program = "pam" THEN "system" ELSE "user"
  /\ word' = 1
  /\ UNCHANGED <<confinput, settings, named, buffer, bad>>

\* set_user_options takes all the words and then reports whether one failed.
set_user_options ==
  /\ reading = "user" /\ word <= Len(useropts)
  /\ cpuset_conf_parse_opt(useropts[word])
  /\ word' = word + 1
  /\ bad' = (bad \/ OptFails(useropts[word]))
  /\ UNCHANGED <<confinput, reading>>

parse_user_option ==
  /\ reading = "user" /\ word > Len(useropts)
  /\ reading' = IF bad THEN "refused" ELSE "ready"
  /\ UNCHANGED <<confinput, word, settings, named, buffer, bad>>

ConfNext ==
  \/ cpuset_conf_parse_system \/ parse_options \/ parse_options_done
  \/ set_user_options \/ parse_user_option

-----------------------------------------------------------------------------
(* The settings a program ends up with, told without its steps.            *)

Text(path) == IF path \in DOMAIN disk THEN Good(disk[path]) ELSE <<>>

\* The statements that a word stands for.
Means(w) ==
  CASE w.key = "conf" -> Text(w.val)
    [] w.key = "policy=" -> <<[key |-> "fit", val |-> w.val]>>
    [] w.key = "bad" -> <<>>
    [] OTHER -> <<w>>

Expand(words) == FlattenSeq([i \in DOMAIN words |-> Means(words[i])])

\* The words that name a file.
Confs(words) == {i \in DOMAIN words : words[i].key = "conf"}

\* slurm-cpuset(8): "All SLURM cpuset components will first attempt to read the
\* systemwide config file", whose location conf= may override in the PAM module.
Order ==
  CASE program = "agent"  -> Text(SystemFile)
    [] program = "srun"   -> Expand(useropts)
    [] program = "plugin" -> Text(SystemFile) \o Expand(argv) \o Expand(useropts)
    [] program = "pam"    -> (IF Confs(argv) = {} THEN Text(SystemFile) ELSE <<>>) \o Expand(argv)

\* The PAM module reads it last, unless its arguments name a file of their own.
ReadOrder ==
  IF program = "pam" /\ Confs(argv) = {} THEN Expand(argv) \o Text(SystemFile) ELSE Order

\* A file that yyparse gives up on spoils the next one, unless none is read.
FaultFree(path) == path \in DOMAIN disk => FirstBad(disk[path]) > Len(disk[path])

OneFault ==
  /\ Confs(argv) \cup Confs(useropts) # {} => FaultFree(SystemFile)
  /\ \A i \in Confs(argv) :
       Confs(useropts) # {} \/ (\E j \in Confs(argv) : i < j) => FaultFree(argv[i].val)
  /\ \A i, j \in Confs(useropts) : i < j => FaultFree(useropts[i].val)

\* The last statement about a setting, 0 if there is none.
LastOf(text, k) == SelectLastInSeq(text, LAMBDA w : w.key = k)

\* The last value that statements give to a setting.
LastValue(text, k) == IF LastOf(text, k) = 0 THEN Defaults[k] ELSE text[LastOf(text, k)].val

\* The one case in which the code departs from the manual: a setting that both the
\* system file and the PAM module's own arguments give.
SystemOverrides(k) ==
  /\ program = "pam" /\ Confs(argv) = {}
  /\ LastOf(Text(SystemFile), k) # 0 /\ LastOf(Expand(argv), k) # 0

\* slurm-cpuset(8): every program reads the system file first, and "Settings in this
\* config file [conf=] will override system configuration, as well as options
\* previously set on the command line". In each program every setting is the last
\* one given, in the manual's order, and the default if there is none; only of
\* what the PAM module's arguments and the system file both set does the module
\* take the system file's, against the manual.
LastSettingWins ==
  reading = "ready" /\ OneFault =>
    \A k \in DOMAIN Defaults :
      settings[k] = LastValue(IF SystemOverrides(k) THEN Text(SystemFile) ELSE Order, k)

-----------------------------------------------------------------------------
(* The inductive invariant.                                                *)

ConfSpec == ConfInit /\ [][ConfNext]_confvars

\* Which programs get to which place.
ConfTypeOK ==
  /\ disk \in Disks
  /\ argv \in ArgLists \cup {<<>>} /\ useropts \in UserLists \cup {<<>>}
  /\ \/ program = "plugin" /\ reading \in {"system", "argv", "user", "ready", "refused"}
     \/ program = "srun" /\ reading \in {"user", "ready", "refused"} /\ argv = <<>>
     \/ program = "pam" /\ reading \in {"argv", "system", "ready", "refused"} /\ useropts = <<>>
     \/ program = "agent" /\ reading \in {"system", "ready"} /\ argv = <<>> /\ useropts = <<>>
  /\ named \in BOOLEAN
  /\ word \in Nat \ {0}
  /\ reading = "system" => word = 1
  /\ reading = "argv" => word <= Len(argv) + 1
  /\ reading = "user" => word <= Len(useropts) + 1

\* The words before the one that is next.
Before(words) == SubSeq(words, 1, word - 1)

\* What the program has been told so far.
SoFar ==
  CASE reading = "system" -> IF program = "pam" THEN Expand(argv) ELSE <<>>
    [] reading = "argv" -> (IF program = "plugin" THEN Text(SystemFile) ELSE <<>>) \o Expand(Before(argv))
    [] reading = "user" ->
         (IF program = "plugin" THEN Text(SystemFile) \o Expand(argv) ELSE <<>>)
           \o Expand(Before(useropts))
    [] OTHER -> ReadOrder

\* The files still to be read find the scanner's buffer empty, if at most one has
\* a fault; and the PAM module knows whether a word named a file.
BufferInv ==
  /\ program = "pam" /\ reading = "argv" => (named <=> \E i \in Confs(argv) : i < word)
  /\ program = "pam" /\ reading = "system" => (named <=> Confs(argv) # {})
  /\ program # "pam" /\ reading = "system" => ~named
  /\ reading \in {"system", "argv", "user"} /\ ~named => buffer = <<>>
  /\ OneFault =>
       /\ reading = "argv" /\ (Confs(useropts) # {} \/ \E i \in Confs(argv) : i >= word)
            => buffer = <<>>
       /\ reading = "user" /\ (\E i \in Confs(useropts) : i >= word) => buffer = <<>>

ConfInv ==
  /\ ConfTypeOK /\ BufferInv
  /\ OneFault /\ reading # "refused" =>
       settings = [k \in DOMAIN Defaults |-> LastValue(SoFar, k)]

=============================================================================
