SPECIFICATION Spec
CONSTANTS
  p1 = p1
  p2 = p2
  v1 = v1
  d1 = d1
  d2 = d2
  Processes = {p1, p2}
  Versions = {v1}
  Digests = {d1, d2}
  None = None
INVARIANTS
  VersionImmutable
CHECK_DEADLOCK FALSE
