SPECIFICATION FairSpec
CONSTANTS
  Worlds = {1, 2, 3, 4, 5}
  Total = 8
  Programs <- AllPrograms
INVARIANT Collected
PROPERTY Completes
