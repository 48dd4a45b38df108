CONSTANTS
  u1 = u1
  u2 = u2
  h1 = h1
  h2 = h2
  h3 = h3
  Urls = {u1, u2}
  Handlers = {h1, h2, h3}
  UrlOf <- MCUrlOf
  NoHandler = NoHandler
  NumListeners = 2
  NumProcessors = 2
SPECIFICATION Spec
INVARIANTS ProcessorsSound ServiceServesHandles StopFirstProtects
