CONSTANTS
  Requests = {r1}
  NoRequest = NoRequest
  NumProcessors = 1
  Posix = TRUE
  HighConcurrency = 3
  Overload = 1024
SPECIFICATION Spec
CHECK_DEADLOCK FALSE
PROPERTIES StopCompletes
