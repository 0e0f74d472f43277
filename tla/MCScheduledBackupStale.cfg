SPECIFICATION Spec
CONSTANTS
  pathA = pathA
  pathB = pathB
  Procs = {p1, p2}
  Users = {}
  Schedules = {s1}
  Paths = {pathA, pathB}
  Namings <- OnlyOwnPaths
  MaxRuns = 1
  MaxPending = 2
  MaxTime = 1
  NoProc = NoProc
  Retention = 1
  EventKinds = {"crash"}
  MaxEvents = 1
INVARIANT RecordedStaysVisible
CHECK_DEADLOCK FALSE
SYMMETRY Symmetric
