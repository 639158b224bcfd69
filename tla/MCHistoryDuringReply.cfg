SPECIFICATION Spec
CONSTANTS
  c1 = c1
  c2 = c2
  c3 = c3
  Conversations = {c1, c2, c3}
  First = c1
  None = None
  MaxSends = 1
  MaxChanges = 1
  MaxWrites = 0
  MaxFaults = 0
INVARIANT
  NoChangeDuringReply
CHECK_DEADLOCK FALSE
