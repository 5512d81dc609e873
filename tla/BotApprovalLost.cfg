SPECIFICATION Spec
CONSTANTS
  u1 = u1
  u2 = u2
  u3 = u3
  u4 = u4
  u5 = u5
  NoTopic = NoTopic
  NoThread = NoThread
  NoUpdate = NoUpdate
  Updates <- MCUpdates4
  Topics = {"erp", "budget"}
  KeepsApproval = FALSE
  MaxRestarts = 0
  MaxSeconds = 0
SYMMETRY Symmetry
INVARIANTS
  ApprovalReachesUser
CHECK_DEADLOCK FALSE
