\* cancel_and_wait of a registration whose completion is not tracked.
CONSTANTS
  ExecIds = {e1}
  Conns = {n1}
  Callers = {c1}
  MaxReg = 1
  Reusable = {}
SPECIFICATION Spec
INVARIANT TerminalMeansOwnerFinished
