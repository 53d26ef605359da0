\* Any subset of the files; up to five classes beyond the system classes.
\* Three nested calls for each of the five classes with files, and two more.
CONSTANTS
  Name <- MCName
  SystemClass <- MCSystemClass
  SystemSuper <- MCSystemSuper
  CoreClass <- MCCoreClass
  BlockClass = {"Block1"}
  UserClass = {"A", "B", "C"}
  Files <- MCFiles
  Statements <- MCStatements
  Paths = 2
  MaxClasses = 8
  MaxCalls = 17
SPECIFICATION Spec
INVARIANTS
  ResolvedUpward
  ParserOwned
  FirstOnPath
  AcyclicLoadsEnd
