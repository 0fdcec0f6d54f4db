SPECIFICATION FairSpec
INVARIANTS
  DeletedOnEnter
CHECK_DEADLOCK FALSE
