SPECIFICATION Spec
CONSTANTS
  Threads = {t1, t2, t3, t4}
  InitNode = init
  NoNode = null
  Increments = 2
  Programs <- SoundCLH
INVARIANTS
  MutualExclusion
  FirstComeFirstServed
  ImplicitQueue
