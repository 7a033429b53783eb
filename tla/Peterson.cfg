SPECIFICATION FairSpec
CONSTANTS
  Threads = {0, 1}
  Increments = 5
  Programs <- SelfVictim
INVARIANT MutualExclusion
PROPERTIES
  NoOvertaking
  Termination
