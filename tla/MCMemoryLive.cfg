SPECIFICATION FairSpec
CONSTANTS
  Jobs <- MCJobs
  Kind <- MCSummaries
  Malformed = {}
  NoJob = NoJob
  MaxJobAttempts = 2
  MaxSwitches = 2
  MaxFaults = 1
PROPERTIES
  SummariesAreContiguous
  JobsEnd
CHECK_DEADLOCK FALSE
