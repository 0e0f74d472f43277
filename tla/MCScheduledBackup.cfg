SPECIFICATION Spec
CONSTANTS
  pathA = pathA
  pathB = pathB
  Procs = {p1, p2}
  Users = {u1}
  Schedules = {s1}
  Paths = {pathA, pathB}
  Namings <- BothNamings
  MaxRuns = 2
  MaxPending = 2
  MaxTime = 1
  NoProc = NoProc
  Retention = 1
  EventKinds = {"crash", "failure", "file"}
  MaxEvents = 1
INVARIANTS
  TypeOK
  InHandIsRunning
  SuccessHasFile
PROPERTIES
  ForeignFileStays
  KeepsLifecycle
CHECK_DEADLOCK FALSE
SYMMETRY Symmetric
