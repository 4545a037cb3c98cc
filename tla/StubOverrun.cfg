\* Four calls for two functions that are out of each other's reach, over five pages.
SPECIFICATION Spec
CONSTANTS
  Pages <- MCPages
  PageSize = 4
  StubSize = 2
  Sizes <- MCSizes
  Functions <- MCFunctions
  Reach = 16
  JumpSize = 3
  MaxIntercepts = 4
INVARIANT StubsFit
\* There is nothing to do after the last call.
CHECK_DEADLOCK FALSE
