SPECIFICATION Spec
CONSTANTS
  f1 = f1
  f2 = f2
  t1 = t1
  t2 = t2
  Boot = Boot
  NoHash = NoHash
  None = None
  Torn = Torn
  Files <- MCFiles
  Tasks <- MCTasks2
  MaxText = 2
  MaxDay = 2
  MaxStops = 1
  Kinds = {"upload", "files", "all", "full"}
SYMMETRY Symmetry
INVARIANTS
  MirrorsDocstore
  NothingVanishes
  AllOrNothing
PROPERTIES
  SkippedIsIndexedAlone
CHECK_DEADLOCK FALSE
