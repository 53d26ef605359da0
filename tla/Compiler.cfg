\* Every method of up to three constructs and declared names: nested terms, blocks
\* and messages, locals that shadow arguments, fields and globals, blocks in blocks.
CONSTANTS
  Names <- MCNames
  Fields <- MCFields
  MaxNodes = 3
SPECIFICATION Spec
INVARIANTS
  StackPlanned
  LiteralOperands
  VariableOperands
