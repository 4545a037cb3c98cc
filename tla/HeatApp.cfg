\* One object for one process, as in the test programs.
SPECIFICATION FairSpec
CONSTANTS
  p1 = p1
  p2 = p2
  LocalAlloc = LocalAlloc
  CreateFileW = CreateFileW
  Processes <- MCOneProcess
  NoProcess = NoProcess
  Functions <- MCFunctions
  Reuse = FALSE
  MaxOpens = 1
  MaxCalls = 5
INVARIANTS TypeOK NothingPending PatchedOnce RunningMeansResumed
PROPERTIES ExitNoticed CallsReturn
\* The user may stop calling.
CHECK_DEADLOCK FALSE
