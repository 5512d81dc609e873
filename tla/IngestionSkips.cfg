SPECIFICATION Spec
CONSTANTS
  f1 = f1
  f2 = f2
  t1 = t1
  t2 = t2
  Boot = Boot
  NoHash = NoHash
  None = None
  Torn = Torn
  Files <- MCOneFile
  Tasks <- MCTasks2
  MaxText = 2
  MaxDay = 1
  MaxStops = 0
  Kinds = {"upload"}
PROPERTIES
  SkippedIsIndexed
CHECK_DEADLOCK FALSE
