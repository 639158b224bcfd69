SPECIFICATION Spec
CONSTANTS
  Jobs <- MCJobs
  NoJob = NoJob
  MaxJobAttempts = 2
  MaxSwitches = 0
  MaxFaults = 0
INVARIANTS
  DeepWorkIsSerialized
CHECK_DEADLOCK FALSE
