CONSTANTS
  IntLimit = 2
  BigLimit = 8
  DblLimit = 4
  BitAnd <- MCBitAnd
  Literals <- MCLiterals
  MaxSends = 4
  MaxStack = 3
SPECIFICATION FairSpec
INVARIANTS
  StackBalanced
  IntegerExact
  IntegralExact
  ComparisonExact
PROPERTY CallsReturn
