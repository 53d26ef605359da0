SPECIFICATION Spec
CHECK_DEADLOCK FALSE
CONSTANTS
  SlaveCount = 3
  MaxTasks = 3
  SyncPoints <- MCSyncPoints
  None = None
INVARIANTS
  NothingDangles
  BarriersHold
PROPERTY
  ProcessEnds
