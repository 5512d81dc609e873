SPECIFICATION Spec
CONSTANTS
  r1 = r1
  r2 = r2
  r3 = r3
  r4 = r4
  k1 = k1
  k2 = k2
  NoKey = NoKey
  NoChat = NoChat
  Requests <- MCRequests4
  Keys <- MCKeys
  Backends = {"json", "postgres"}
SYMMETRY Symmetry
INVARIANTS
  IdempotentAlone
  OwnChat
PROPERTIES
  OldestStays
CHECK_DEADLOCK FALSE
