\* Two threads and one that may be created late; five functions.
SPECIFICATION Spec
CONSTANTS
  Threads = {t1, t2, t3}
  Started = {t1, t2}
  Codes <- MCCodes
  Out <- MCOut
  Stub <- MCStub
  Callee <- MCCallee
  Torn <- MCTorn
INVARIANT PausedIsSafe
PROPERTIES SafeOnceInstalled IsOneStep
\* A failed batch leaves the application paused.
CHECK_DEADLOCK FALSE
