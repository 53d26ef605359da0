SPECIFICATION Spec
CONSTANTS
  Method <- MCMethod
  BlockMethod = {"block", "empty"}
  EmptyBlock = {"empty"}
  BootMethod = "boot"
  NumArgs <- MCNumArgs
  NumLocals <- MCNumLocals
  MaxStack <- MCMaxStack
  Unplanned = {"global"}
  MaxFrames = 5
  MaxBlocks = 1
INVARIANT NeverLost
