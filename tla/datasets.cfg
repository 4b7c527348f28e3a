SPECIFICATION Spec
CONSTANTS
  p1 = p1
  p2 = p2
  p3 = p3
  v1 = v1
  v2 = v2
  d1 = d1
  d2 = d2
  Processes = {p1, p2, p3}
  Versions = {v1, v2}
  Digests = {d1, d2}
  None = None
SYMMETRY Symmetry
INVARIANTS
  TypeOK
  IndexedObjectsExist
  AcknowledgedStays
PROPERTY VersionsSpec
CHECK_DEADLOCK FALSE
