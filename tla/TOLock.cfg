SPECIFICATION FairSpec
CONSTANTS
  Threads = {t1, t2, t3, t4}
  Impatient = {t1, t2, t3, t4}
  Increments = 1
  AVAILABLE = available
  NULL = null
INVARIANTS
  OneIntruderEach
  LeftFree
PROPERTY Termination
