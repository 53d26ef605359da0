SPECIFICATION FairSpec
CHECK_DEADLOCK FALSE
CONSTANTS
  Thread = {master, slave}
  Master = master
  ObjCount = 7
  Graphs <- MCGraphs
  MaxPackets = 5
  InitialPackets = 4
  BlockSize = 1
  None = None
INVARIANTS
  MarkingExact
  NothingForgotten
  WaitsOnce
  PacketsConserved
PROPERTY
  MarkingEnds
