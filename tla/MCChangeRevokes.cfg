SPECIFICATION Spec
CONSTANTS
  q1 = q1
  q2 = q2
  ChatCues = {q1}
  MemoryCues = {q2}
  Limit = 1
  MaxDay = 1
  MaxCycles = 0
  MaxShown = 1
  MaxChanges = 2
  MaxRare = 0
INVARIANT
  ChangeRevokes
CHECK_DEADLOCK FALSE
