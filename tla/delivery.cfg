SPECIFICATION FairSpec
CONSTANTS
  MaxTasks = 4
  Routed = {1, 3}
  Waiters = {"slice"}
  MaxEvents = 1
  MaxChecks = 1
  None = None
INVARIANTS
  NobodySleepsOnWork
  QuietIsReconciled
  TurnIsGiven
PROPERTIES
  ImplementsMailboxes
  EventuallyDispatched
CHECK_DEADLOCK FALSE
