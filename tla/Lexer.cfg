SPECIFICATION Spec
CHECK_DEADLOCK FALSE
CONSTANTS
  Texts <- MCTexts
  ShortLength = 3
  LongLength = 5
  SeparatorLength = 2
INVARIANTS
  NothingLost
  NoneMeansEnd
PROPERTY
  GetSymReturns
