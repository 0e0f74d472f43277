\* Two callers against one registration, with fairness.
CONSTANTS
  ExecIds = {e1}
  Conns = {n1}
  Callers = {c1, c2}
  MaxReg = 1
  Reusable = {}
SPECIFICATION FairSpec
PROPERTIES
  DetachedIsReclaimed
  CallsReturn
