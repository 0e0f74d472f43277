\* Two calls; two sessions, which is all there is room for.
CONSTANTS
  Calls = {c1, c2}
  MaxIds = 2
  MaxSessions = 2
  MaxFaults = 1
SPECIFICATION FairSpec
INVARIANTS
  TypeOK
  NothingIsLeftBehind
  ActiveIsUndisturbed
PROPERTIES
  ReservationsEnd
CHECK_DEADLOCK FALSE
