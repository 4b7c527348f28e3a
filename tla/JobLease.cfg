SPECIFICATION Spec
CONSTANTS
  Ttl = 12
  Interval = 3
  Timeout = 3
INVARIANTS
  TypeOK
  HeartbeatKeepsLease
PROPERTIES
  NoTakeover
