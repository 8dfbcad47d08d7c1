SPECIFICATION Spec
CONSTANTS
  CPU = {c1, c2}
  u1 = u1 u2 = u2 j1 = j1 j2 = j2 s1 = s1 s2 = s2
  t1 = t1 t2 = t2 t3 = t3 l1 = l1
  Users = {u1}
  Jobs = {j1, j2}
  Owner <- MateOwner
  JobCpus <- MateCpus
  Steps = {s1, s2}
  StepJob <- OwnStep
  StepOpt <- PlainOpt
  CpusPerTask <- OneCpu
  Tasks = {t1, t2}
  TaskStep <- OneTask
  Logins = {}
  LoginUser <- NoLogin
  Agent = Agent
  Nobody = Nobody
  Root = Root
  Gone = Gone
  KillOrphans = FALSE
  HasPostOpt = TRUE
  AgentInstalled = FALSE
  CtldFails = FALSE
  SlurmReady = FALSE
  SetupFails = FALSE
  MayCrash = TRUE
CHECK_DEADLOCK FALSE
INVARIANT SlurmUsable
