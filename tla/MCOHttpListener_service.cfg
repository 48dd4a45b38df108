CONSTANTS
  Requests = {r1, r2, r3}
  NoRequest = NoRequest
  NumProcessors = 1
  Posix = FALSE
  HighConcurrency = 1024
  Overload = 0
SPECIFICATION SafetySpec
CHECK_DEADLOCK FALSE
SYMMETRY RequestSymmetry
INVARIANTS AtMostOneBehind
PROPERTIES ImplementsService
