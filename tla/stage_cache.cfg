SPECIFICATION FairSpec
CONSTANTS
  th1 = th1
  th2 = th2
  StageThreads <- TwoThreads
  StageKeys <- WholeAndPart
  Size <- MCSize
  Answers <- MCAnswers
  Windows = {"A"}
  Budgets = {1, 3}
  FirstBudget = 3
  MaxCalls = 3
  MayGiveUp = TRUE
  MayClear = TRUE
  NoValue = NoValue
  NoKey = NoKey
  NoWindow = NoWindow
INVARIANTS
  ClaimsAreComputers
  CacheWithinBudget
  SegmentsAreOwned
  SegmentsWithinBudget
PROPERTIES
  CallsEnd
CHECK_DEADLOCK FALSE
