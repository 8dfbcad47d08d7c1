SPECIFICATION Spec
CONSTANTS
  MaxResize = 2
  MaxOutput = 2
  MaxInput = 1
  MaxCalls = 3
  MaxInterrupts = 1
  Steps = {s1, s2}
  Cleaners = {c1}
  Tools = {t1}
  Modes = {0, 2}
  MaxFiles = 2
  MaxCrash = 1
  Listings <- MCListings
  Script <- MCScript
  Contexts = {"step", "slurmd", "job_script"}
  MaxTasks = 2
  Disks <- MCDisks
  ArgLists <- MCArgLists
  UserLists <- MCUserLists
  None = None
  Nil = Nil
INVARIANT OwnResult
INVARIANT CleanupRestores
INVARIANT EachCalledOnce
INVARIANT BrokenScriptsAlone
INVARIANT OptionOwner
INVARIANT LastSettingWins
PROPERTY RelayEnds
PROPERTY ResizeReaches
PROPERTY CallsReturn
PROPERTY ServerEnds
CHECK_DEADLOCK FALSE
