SPECIFICATION Spec
CONSTANTS
  MaxTurns = 2
  MaxRequests = 3
  MaxChunks = 1
  MaxFaults = 1
INVARIANT
  VisibleChatHoldsTheLane
CHECK_DEADLOCK FALSE
