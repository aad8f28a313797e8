SPECIFICATION Spec
CONSTANTS
  MaxSeq = 3
  MaxClears = 1
  Workers = 2
  OptQuota = 1
  Threshold = 0
  Keys = {"a", "b", "c", "d"}
  Scopes <- MCScopes
  Families = {}
  Lanes = {"visible", "optional"}
  Tiles = {0}
  VisibleLanes = {"visible"}
  Ancestors <- MCAncestors
  Workload <- ChainWorkload
  Endings = {"completed", "failed"}
  Specs <- ChainSpecs
  Clearable = {"win:tile"}
  Handles = {1}
  Quotas = {}
  Ranks = {}
  InlineKeys = {"a"}
  LookUpDeps = FALSE
  MayShutdown = FALSE
  NoSpec = NoSpec
  NoFamily = NoFamily
  NoQuota = NoQuota
  NoValue = NoValue
  NoOutcome = NoOutcome
  Absent = Absent
  Unscoped = Unscoped
PROPERTIES
  DropReachesDependents
CHECK_DEADLOCK FALSE
