CONSTANTS
  Threads = {t1, t2, t3}
SPECIFICATION Spec
INVARIANTS NoSleeperWhileSet
PROPERTIES ImplementsInverted WaitersReached
