SPECIFICATION Spec
CONSTANTS
  r1 = r1
  r4 = r4
  r2 = r2
  r3 = r3
  t1 = t1
  NoCall = NoCall
  NoThread = NoThread
  Requests <- MCRequests4
  Threads <- MCThreads
  Tools <- MCTools
  DANGEROUS_TOOLS <- MCDangerous
  Responses <- MCResponses
  MAX_ITERATIONS = 2
  Roles = {"full", "write-with-approve"}
  OneAtATime = TRUE
  Disconnects = FALSE
  Durable = TRUE
  MaxCrashes = 0
SYMMETRY Symmetry
INVARIANTS
  ApprovedAsMeant
  ActionWasShown
  SentOnce
PROPERTIES
  ImplementsApproval
CHECK_DEADLOCK FALSE
