SPECIFICATION FairSpec
CONSTANTS
  CPU = {c1, c2, c3}
  u1 = u1 u2 = u2 j1 = j1 j2 = j2 s1 = s1 s2 = s2
  t1 = t1 t2 = t2 t3 = t3 l1 = l1
  Users = {u1}
  Jobs = {j1, j2}
  Owner <- MateOwner
  JobCpus <- MateCpus
  Steps = {s1, s2}
  StepJob <- OwnStep
  StepOpt <- BareOpt
  CpusPerTask <- UnsetCpu
  Tasks = {t1, t2}
  TaskStep <- OneTask
  Logins = {l1}
  LoginUser <- Login1
  Agent = Agent
  Nobody = Nobody
  Root = Root
  Gone = Gone
  KillOrphans = FALSE
  HasPostOpt = FALSE
  AgentInstalled = TRUE
  CtldFails = TRUE
  SlurmReady = FALSE
  SetupFails = TRUE
  MayCrash = TRUE
CHECK_DEADLOCK FALSE
INVARIANT Exclusive
INVARIANT NoOrphanTwin
INVARIANT TasksConfined
INVARIANT LoginCpus
PROPERTY LockReleased
