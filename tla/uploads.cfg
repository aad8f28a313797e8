SPECIFICATION FairSpec
CONSTANTS
  MaxTasks = 3
  Tasks <- ThreeTasks
  Keys = {"a", "b", "c"}
  NBytes <- Sizes
  BudgetBytes = 3
  Workload <- SomeKeys
  NoOutcome = NoOutcome
INVARIANTS
  EveryTaskIsCounted
  EveryBufferIsCounted
PROPERTIES
  EveryTaskEnds
CHECK_DEADLOCK FALSE
