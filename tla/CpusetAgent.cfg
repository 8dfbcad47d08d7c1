SPECIFICATION FairSpec
CONSTANTS
  CPU = {c1, c2}
  u1 = u1 u2 = u2 j1 = j1 j2 = j2 s1 = s1 s2 = s2
  t1 = t1 t2 = t2 t3 = t3 l1 = l1
  Users = {u1}
  Jobs = {j1}
  Owner <- NestedOwner
  JobCpus <- SoloCpus
  Steps = {s1}
  StepJob <- SoloStep
  StepOpt <- SoloPlain
  CpusPerTask <- SoloPerTask
  Tasks = {t1}
  TaskStep <- SoloTask
  Logins = {}
  LoginUser <- NoLogin
  Agent = Agent
  Nobody = Nobody
  Root = Root
  Gone = Gone
  KillOrphans = FALSE
  HasPostOpt = TRUE
  AgentInstalled = TRUE
  CtldFails = FALSE
  SlurmReady = TRUE
  SetupFails = FALSE
  MayCrash = FALSE
CHECK_DEADLOCK FALSE
PROPERTY JobCpusetFreed
