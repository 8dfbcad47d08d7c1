SPECIFICATION Spec
CONSTANTS
  CPU = {c1, c2, c3}
  u1 = u1 u2 = u2 j1 = j1 j2 = j2 s1 = s1 s2 = s2
  t1 = t1 t2 = t2 t3 = t3 l1 = l1
  Users = {u1}
  Jobs = {j1}
  Owner <- NestedOwner
  JobCpus <- NestedCpus
  Steps = {s1, s2}
  StepJob <- NestedStep
  StepOpt <- NestedOpt
  CpusPerTask <- NestedPerTask
  Tasks = {t1, t2, t3}
  TaskStep <- NestedTask
  Logins = {l1}
  LoginUser <- Login1
  Agent = Agent
  Nobody = Nobody
  Root = Root
  Gone = Gone
  KillOrphans = TRUE
  HasPostOpt = TRUE
  AgentInstalled = TRUE
  CtldFails = FALSE
  SlurmReady = TRUE
  SetupFails = FALSE
  MayCrash = TRUE
CHECK_DEADLOCK FALSE
SYMMETRY CpuSymmetry
PROPERTY RunningKeepsCpus
PROPERTY KillsNoWorker
