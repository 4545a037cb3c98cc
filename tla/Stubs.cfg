\* One thread against the server thread: calls nested three deep, the third
\* stub frame is pushed past the RAS page.
SPECIFICATION Spec
CONSTANTS
  t1 = t1
  LocalAlloc = LocalAlloc
  CreateFileW = CreateFileW
  s1 = s1
  s2 = s2
  Threads <- MCThreads
  Functions <- MCFunctions
  Sites <- MCSites
  NoSite = NoSite
  NoInstall = NoInstall
  RASSlots = 2
  SpanningDisables = FALSE
  MaxDepth = 3
  MaxInstalls = 2
  MaxDisables = 1
SYMMETRY Symmetry
INVARIANTS TypeOK RASMirrorsStubs CounterMatchesContext ProtectedReentrance OwnOriginal
PROPERTIES PageSuffices Transparent
\* The AUT may die of a failed RAS allocation or a lost return address.
CHECK_DEADLOCK FALSE
