SPECIFICATION FairSpec
CONSTANTS
  r1 = r1
  r4 = r4
  r2 = r2
  r3 = r3
  t1 = t1
  NoCall = NoCall
  NoThread = NoThread
  Requests <- MCRequests2
  Threads <- MCThreads
  Tools <- MCTools
  DANGEROUS_TOOLS <- MCDangerous
  Responses <- MCResponses
  MAX_ITERATIONS = 3
  Roles = {"full", "write-with-approve"}
  OneAtATime = FALSE
  Disconnects = TRUE
  Durable = FALSE
  MaxCrashes = 1
INVARIANTS
  GraphInv
  ActionNeedsApproval
  OneActionPerDecision
PROPERTIES
  InvocationsEnd
CHECK_DEADLOCK FALSE
