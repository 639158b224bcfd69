SPECIFICATION Spec
CONSTANTS
  c1 = c1
  c2 = c2
  o1 = o1
  o2 = o2
  o3 = o3
  Contents = {c1, c2}
  Absent = Absent
  Partial = Partial
  Objects = {o1, o2, o3}
  Refs <- MCRefs
  MaxFaults = 2
  DirSyncCanFail = FALSE
  FilesCanVanish = TRUE
INVARIANTS
  TypeOK
  OutcomeIsSound
  SessionHasNoTransaction
PROPERTIES
  LiveChangesOnlyUnderMarker
  ImplementsAtomicRestore
