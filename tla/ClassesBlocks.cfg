CONSTANTS
  UserClass <- MCUserClass
  ObjectTable <- MCObjectTable
  ClassTable <- MCClassTable
  Definitions <- MCDefinitions
  Extended = {"Object", "A"}
  BlockTable <- MCBlockTable
  BlockArgs = {1, 2, 3}
  Disks <- MCDisks
  Paths = 2
  PlainString <- MCPlainString
  EvalSelector <- MCEvalSelector
  MaxObjects = 1
SPECIFICATION Spec
INVARIANT EvaluationBound
