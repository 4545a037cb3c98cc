\* A program with two imports and three calls.
SPECIFICATION Spec
CONSTANTS
  Dll = Dll
  End = End
  kernel = kernel
  user = user
  Modules <- MCModules
  Imports <- MCImports
  MaxCalls = 3
INVARIANTS
  AnswerIsTruthful
PROPERTIES
  AddsImport
CHECK_DEADLOCK FALSE
