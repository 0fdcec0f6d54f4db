SPECIFICATION FairSpec
INVARIANTS
  TypeOK
  RequestsFitStatus
  NothingDeletedEarly
  CleanUnlessWarned
  OverrunBounded
PROPERTIES
  ImplementsRental
  EndsOrBlocks
CHECK_DEADLOCK FALSE
