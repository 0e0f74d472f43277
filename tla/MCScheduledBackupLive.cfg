SPECIFICATION FairSpec
CONSTANTS
  pathA = pathA
  pathB = pathB
  Procs = {p1}
  Users = {}
  Schedules = {s1}
  Paths = {pathA, pathB}
  Namings <- OnlyOwnPaths
  MaxRuns = 2
  MaxPending = 1
  MaxTime = 2
  NoProc = NoProc
  Retention = 1
  EventKinds = {"crash", "stop", "edit"}
  MaxEvents = 1
INVARIANT NoReplay
PROPERTIES
  Settles
  DueIsServed
CHECK_DEADLOCK FALSE
