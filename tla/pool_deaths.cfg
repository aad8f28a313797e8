SPECIFICATION FairSpec
CONSTANTS
  t1 = t1
  t2 = t2
  Threads <- TwoThreads
  Parent = Parent
  Blank = Blank
  NoSlot = NoSlot
  NoWorker = NoWorker
  NSlots = 1
  NWorkers = 1
  MaxJobs = 2
  MaxDeaths = 1
  MaxArrays = 1
  MayCancel = TRUE
  PickleMayFail = TRUE
  SpawnMayFail = FALSE
  MayClose = TRUE
INVARIANTS
  WorkerInOnePlace
  RepliesAreOwn
  NoSlotLost
PROPERTIES
  CallsReturn
CHECK_DEADLOCK FALSE
