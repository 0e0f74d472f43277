\* Two clients and two transactions, under fairness.
CONSTANTS
  Clients = {c1, c2}
  MaxTxn = 2
SPECIFICATION FairSpec
INVARIANTS
  TypeOK
  OutcomesAreHonest
  IdleHasNoTransaction
  OneLiveCommand
PROPERTIES
  UnknownIsFinal
  CancelledIsClosed
  RequestsAreAnswered
