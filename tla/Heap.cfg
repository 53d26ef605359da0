SPECIFICATION Spec
CONSTANTS
  Obj = {o1, o2, o3, o4, o5}
  None = None
  Name = {First, FrameN, ClassN}
  FirstName = First
  FrameName = FrameN
  NewClassName = ClassN
  Built = {"Plain", "Array", "Class", "SystemClass", "Method", "Primitive", "EvaluationPrimitive", "Frame", "EmergencyFrame", "Block"}
  MethodIntegers = 2
  FrameIntegers = 1
  MaxHeld = 1
  MaxFields = 1
SYMMETRY MCSymmetry
INVARIANTS
  RootsIntact
  ObjectTableExact
  ConstructionSafe
