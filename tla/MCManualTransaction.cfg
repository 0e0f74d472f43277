\* Two requests, against the watcher, the disconnect and a shutdown, under fairness.
CONSTANTS
  r1 = r1
  r2 = r2
  Requests = {r1, r2}
  Disconnector = Disconnector
  Watcher = Watcher
  Nobody = Nobody
  MaxBatches = 2
SPECIFICATION FairSpec
INVARIANTS
  TypeOK
  OutcomesAreHonest
  NoLateSession
PROPERTIES
  CleanStream
  CommittedIsKept
  SessionsEnd
CHECK_DEADLOCK FALSE
