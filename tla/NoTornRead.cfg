CONSTANTS
  p1 = p1
  p2 = p2
  p3 = p3
  NoProc = NoProc
  Procs = {p1, p2, p3}
  Services = {"identity", "object-store"}
  Explicit = {"identity"}
  Calls <- MCCalls
  MaxInstalls = 2
SPECIFICATION Spec
INVARIANTS
  NoTornRead
