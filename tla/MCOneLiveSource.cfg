SPECIFICATION Spec
CONSTANTS
  None = None
  MaxStarts = 2
  MaxPictures = 3
  MaxFaults = 1
INVARIANT
  OneLiveSource
CHECK_DEADLOCK FALSE
