CONSTANTS
  Producers = {p1, p2}
  Consumers = {c1, c2}
  Requested = 3
  ShuffleBits = 1
  Width = 3
  Limit = 3
  Start = 6
  MaxPushes = 5
  MaxPops = 3
SPECIFICATION Spec
CHECK_DEADLOCK FALSE
INVARIANTS QueueSound
PROPERTIES ImplementsFifo PopsEnd
