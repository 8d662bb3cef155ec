CONSTANTS
  N = 3
  Interval <- MCInterval
  Horizon = 10
SPECIFICATION FairSpec
INVARIANTS
  NoDrift
  OvertakenOnce
PROPERTIES
  NoBurst
  DueIsPolled
  StopReturns
