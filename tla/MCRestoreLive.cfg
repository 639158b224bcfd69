SPECIFICATION FairSpec
CONSTANTS
  c1 = c1
  c2 = c2
  o1 = o1
  o2 = o2
  o3 = o3
  Contents = {c1}
  Absent = Absent
  Partial = Partial
  Objects = {o1, o2, o3}
  Refs <- MCRefs1
  MaxFaults = 2
  DirSyncCanFail = FALSE
  FilesCanVanish = FALSE
INVARIANTS
  RecoveryNeverFailsClosed
PROPERTIES
  TransactionEnds
