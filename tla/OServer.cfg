\* Two services and two callers of BreakLoop, on either build
CONSTANTS
  NumServices = 2
  Breakers = {b1, b2}
SPECIFICATION Spec
CHECK_DEADLOCK FALSE
INVARIANTS ServicesSound
PROPERTIES ProcessEnds
