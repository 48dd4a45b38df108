\* One channel, two calls, two requests on each from the client in detail
CONSTANTS
  MaxOpens = 2
  MaxWrites = 2
  MaxRequests = 1
  MaxChannel = 1
SPECIFICATION Spec
CHECK_DEADLOCK FALSE
INVARIANTS ClientSound
PROPERTIES ChannelsSound CallsServed
