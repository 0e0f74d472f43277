\* Two execution ids and two plans: three deliveries, two observers, a restart.
CONSTANTS
  i1 = i1
  i2 = i2
  p1 = p1
  p2 = p2
  r1 = r1
  r2 = r2
  r3 = r3
  o1 = o1
  o2 = o2
  Ids = {i1, i2}
  Plans = {p1, p2}
  None = None
  Requests = {r1, r2, r3}
  Observers = {o1, o2}
  MaxCrashes = 1
SYMMETRY Symmetry
SPECIFICATION Spec
INVARIANTS
  TypeOK
  AnswersAreReliable
  NoReplay
PROPERTY TerminalStays
