CONSTANTS
  MaxStarts = 2
  MaxPublishes = 3
SPECIFICATION FairSpec
INVARIANTS
  ConnectedHasClient
  NoClientLeak
  AcknowledgedWasAccepted
  DisconnectSignalExact
PROPERTIES
  StopReturns
