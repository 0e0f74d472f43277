\* Crashes, failed calls and lost replies.
CONSTANTS
  N = 3
  MaxRetries = 2
  LostReplies = TRUE
  MaxCrashes = 2
  MaxFaults = 12
SPECIFICATION FairSpec
INVARIANTS
  TypeOK
  LogIsHonest
  CommitNeedsUnanimity
PROPERTY Terminates
\* A transaction with a final status has nothing left to do.
CHECK_DEADLOCK FALSE
