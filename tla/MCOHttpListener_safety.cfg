CONSTANTS
  Requests = {r1, r2}
  NoRequest = NoRequest
  NumProcessors = 2
  Posix = FALSE
  HighConcurrency = 1024
  Overload = 0
SPECIFICATION SafetySpec
CHECK_DEADLOCK FALSE
SYMMETRY RequestSymmetry
INVARIANTS OneOwner RecvNotStranded ProcNotStranded NoUseAfterFree OnlyRefusedLeak
