\* Five units of allocation, 4 GB are three; the application changes two allocations.
SPECIFICATION FairSearchSpec
CONSTANTS
  Top <- MCTop
  Granule <- MCGranule
  Stops <- MCStops
  Memories <- MCMemories
  MaxChanges = 2
INVARIANTS NothingMissedBelow
PROPERTIES SearchEnds
\* One search, which ends.
CHECK_DEADLOCK FALSE
