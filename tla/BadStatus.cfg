CONSTANTS
  Methods <- MCMethods
  MaxChunks = 4
SPECIFICATION Spec
INVARIANTS
  BadStatusIsAPIError
