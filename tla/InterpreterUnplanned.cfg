SPECIFICATION FairSpec
CONSTANTS
  Method <- MCMethod
  BlockMethod = {"block", "empty"}
  EmptyBlock = {"empty"}
  BootMethod = "boot"
  NumArgs <- MCNumArgs
  NumLocals <- MCNumLocals
  MaxStack <- MCMaxStack
  Unplanned = {"send", "superSend", "global"}
  MaxFrames = 6
  MaxBlocks = 2
INVARIANTS
  TypeOK
  FrameStack
  ContextChain
  OperandStack
  UnwindTargetLive
PROPERTIES
  NonLocalReturnReachesCaller
  EscapeOnlyIfHomeReturned
  ImplementsCallStack
  UnwindEnds
