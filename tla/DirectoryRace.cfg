SPECIFICATION Spec
CONSTANTS
  r1 = r1
  r2 = r2
  r3 = r3
  r4 = r4
  k1 = k1
  k2 = k2
  NoKey = NoKey
  NoChat = NoChat
  Requests <- MCRequests2
  Keys <- MCKeys
  Backends = {"postgres"}
SYMMETRY Symmetry
INVARIANTS
  Idempotent
CHECK_DEADLOCK FALSE
