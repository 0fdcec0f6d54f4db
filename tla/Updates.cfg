CONSTANTS
  c1 = c1
  c2 = c2
  Callers = {c1, c2}
  Values = {0, 1, 2}
  Zero = 0
  Methods <- MCMethods
SPECIFICATION Spec
SYMMETRY CallersAreAlike
INVARIANTS
  TypeOK
  LastUpdateHolds
