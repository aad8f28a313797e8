SPECIFICATION Spec
CONSTANTS
  MaxSeq = 3
  MaxClears = 1
  Workers = 2
  OptQuota = 1
  Threshold = 0
  Keys = {"a", "b", "d"}
  Scopes <- MCScopes
  Families = {"tex"}
  Lanes = {"visible", "optional"}
  Tiles = {0}
  VisibleLanes = {"visible"}
  Ancestors <- MCAncestors
  Workload <- TargetWorkload
  Endings = {"completed", "cancelled"}
  Specs <- TargetSpecs
  Clearable = {"win", "win:tile"}
  Handles = {2}
  Quotas <- VisibleHints
  Ranks = {1}
  InlineKeys = {}
  LookUpDeps = FALSE
  MayShutdown = FALSE
  NoSpec = NoSpec
  NoFamily = NoFamily
  NoQuota = NoQuota
  NoValue = NoValue
  NoOutcome = NoOutcome
  Absent = Absent
  Unscoped = Unscoped
INVARIANTS
  OneTerminalCompletion
  CompletedIsFresh
  StaleRunningIsCancelled
PROPERTIES
  NoInversion
  LatestWins
CHECK_DEADLOCK FALSE
