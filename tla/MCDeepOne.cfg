SPECIFICATION Spec
CONSTANTS
  Jobs <- MCOneJob
  NoJob = NoJob
  MaxJobAttempts = 2
  MaxSwitches = 3
  MaxFaults = 1
INVARIANTS
  TypeOK
  JobsAreOwned
  AppliedAgainOnlyByFaults
CHECK_DEADLOCK FALSE
