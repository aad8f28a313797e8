SPECIFICATION Spec
CONSTANTS
  t1 = t1
  t2 = t2
  Threads <- TwoThreads
  Parent = Parent
  Blank = Blank
  NoSlot = NoSlot
  NoWorker = NoWorker
  NSlots = 2
  NWorkers = 2
  MaxJobs = 3
  MaxDeaths = 0
  MaxArrays = 1
  MayCancel = FALSE
  PickleMayFail = TRUE
  SpawnMayFail = FALSE
  MayClose = FALSE
SYMMETRY Symmetry
INVARIANTS
  OneWriter
  DescriptorsIntact
CHECK_DEADLOCK FALSE
