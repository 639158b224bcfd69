SPECIFICATION FairSpec
CONSTANTS
  MaxTurns = 2
  MaxRequests = 3
  MaxChunks = 1
  MaxFaults = 1
INVARIANTS
  TypeOK
  RequestsAreExclusive
  TurnsAreDurable
PROPERTIES
  CompletedIsFinal
  ReturnsToIdle
CHECK_DEADLOCK FALSE
