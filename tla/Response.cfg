CONSTANTS
  Methods <- MCMethods
  MaxChunks = 4
SPECIFICATION Spec
INVARIANTS
  TypeOK
  BodiesSettled
  SuccessIsWhole
  IntactErrorsAreRaw
