SPECIFICATION FairSpec
CONSTANTS
  MaxSeq = 3
  MaxClears = 0
  Workers = 2
  OptQuota = 1
  Threshold = 0
  Keys = {"a", "b", "c", "d", "q", "t"}
  Scopes <- MCScopes
  Families = {"tex"}
  Lanes = {"visible", "optional"}
  Tiles = {0, 1}
  VisibleLanes = {"visible"}
  Ancestors <- MCAncestors
  Workload <- LiveWorkload
  Endings = {"completed", "failed"}
  Specs <- LiveSpecs
  Clearable = {}
  Handles = {3}
  Quotas <- VisibleHints
  Ranks = {}
  InlineKeys = {"q"}
  LookUpDeps = TRUE
  MayShutdown = TRUE
  NoSpec = NoSpec
  NoFamily = NoFamily
  NoQuota = NoQuota
  NoValue = NoValue
  NoOutcome = NoOutcome
  Absent = Absent
  Unscoped = Unscoped
INVARIANTS
  ParkedForAReason
PROPERTIES
  DepsCompleteFirst
  ImplementsLedger
  AdmissionIsRespected
  EventuallyTold
CHECK_DEADLOCK FALSE
