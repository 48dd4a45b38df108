CONSTANTS
  Requests = {r1, r2}
  NoRequest = NoRequest
  NumProcessors = 1
  Posix = TRUE
  HighConcurrency = 0
  Overload = 1
SPECIFICATION BusySpec
CHECK_DEADLOCK FALSE
PROPERTIES EveryRequestSettled StopCompletes OverloadPasses
