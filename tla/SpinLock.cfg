SPECIFICATION Spec
CONSTANTS
  Threads = {t1, t2, t3}
  Increments = 2
  MaxDelay = 150
  Programs <- AllSpinLocks
INVARIANTS
  TypeOK
  MutualExclusion
  DelayNeedsContention
PROPERTIES
  ImplementsLockedCounter
