\* Three ids, one thread to start with, one batch, which may be abandoned.
SPECIFICATION FairSpec
CONSTANTS
  Ids <- MCIds
  Started <- MCStarted
  Nobody <- MCNobody
  MaxWalks = 1
INVARIANTS RunningIsRegistered NoStrangers NobodyLeftBehind
PROPERTIES RunsAtLast
\* All threads may exit, or stay suspended behind a walk that gave up or was abandoned.
CHECK_DEADLOCK FALSE
