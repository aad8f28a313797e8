SPECIFICATION CommitsSpec
CONSTANTS
  a = a
  b = b
  Planes <- TwoPlanes
  Cells <- TwoCells
  Pools = {"raw"}
  Children <- CoarseOfOne
  MaxLayers = 3
  InitialLayers = 1
  PatchShare = 2
  PassMayFail = TRUE
  Unmapped = Unmapped
  NTiles = 2
  Rungs <- OneRung
  Offered <- Some
  Evidence = TRUE
  Policy = 2
  Headroom = 0
  Nothing = Nothing
  MaxCommits = 3
  MaxWarms = 2
  MaxCalls = 3
SYMMETRY Symmetry
INVARIANTS
  EveryLayerOnce
  FlatTableIsResidency
  PinsAreOwned
  DeltaWalkIsExact
  AcknowledgedStaysOwned
  NothingIsUploadedTwice
PROPERTIES
  ProtectedPagesStay
CHECK_DEADLOCK FALSE
