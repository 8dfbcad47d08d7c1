SPECIFICATION PlacementSpec
CONSTANTS
  CPU <- Machine
  Nodes = {0, 1, 2, 3, 4, 5}
  LocalCpus <- MachineCpus
  Cpusets <- SomeCpusets
  Fits = {"best", "first", "worst"}
  Requests <- FewAndNone
  Topologies <- MCTopologies
  Steps <- MCSteps
  Arguments <- MCArguments
  UserOptions <- MCUserOptions
  MaxChanges = 1
  None = None
CHECK_DEADLOCK FALSE
INVARIANT Conserved
INVARIANT WorstFitSpreads
INVARIANT ManualExamples
INVARIANT IdleNodesFirst
INVARIANT BestFitPacks
INVARIANT TasksApart
INVARIANT MasksFresh
INVARIANT FullShares
INVARIANT OnePackage
PROPERTY Returns
