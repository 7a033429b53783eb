SPECIFICATION TSOSpec
CONSTANTS
  Threads = {0, 1}
  Increments = 1
  Programs <- SelfVictim
INVARIANT MutualExclusion
