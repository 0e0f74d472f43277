\* One crash of the coordinator, no lost replies.
CONSTANTS
  N = 2
  MaxRetries = 2
  LostReplies = FALSE
  MaxCrashes = 1
  MaxFaults = 4
SPECIFICATION Spec
INVARIANT RolledBackIsClean
CHECK_DEADLOCK FALSE
