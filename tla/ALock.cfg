SPECIFICATION Spec
CONSTANTS
  Threads = {t1, t2, t3, t4}
  Increments = 2
  Capacity = 4
  Programs <- AllALocks
INVARIANTS
  FirstComeFirstServed
  KeyIntact
