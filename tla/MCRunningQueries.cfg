\* Two statements, with fresh execution ids or with one that is used again, against
\* one caller.
CONSTANTS
  ExecIds = {e1, e2}
  Conns = {n1}
  Callers = {c1}
  MaxReg = 2
  Reusable = {e1, e2}
SPECIFICATION Spec
SYMMETRY Symmetry
INVARIANTS
  TypeOK
  NoneIsForgotten
  InterruptFollowsCancel
  AnswersAreHonest
  MatchingIsComplete
