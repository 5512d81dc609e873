SPECIFICATION Spec
CONSTANTS
  u1 = u1
  u2 = u2
  u3 = u3
  u4 = u4
  u5 = u5
  NoTopic = NoTopic
  NoThread = NoThread
  NoUpdate = NoUpdate
  Updates <- MCUpdates5
  Topics = {"erp", "budget"}
  KeepsApproval = TRUE
  MaxRestarts = 1
  MaxSeconds = 1
SYMMETRY Symmetry
INVARIANTS
  ResumedOnce
  QuestionHasTopic
PROPERTIES
  ScenarioKept
CHECK_DEADLOCK FALSE
