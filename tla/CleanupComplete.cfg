SPECIFICATION FairSpec
INVARIANTS
  CleanupComplete
CHECK_DEADLOCK FALSE
