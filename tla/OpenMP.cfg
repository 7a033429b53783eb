SPECIFICATION FairSpec
CONSTANTS
  NumThreads = 3
  N = 5
  Chunk = 2
  Above = 2
  Grain = 2
  Programs <- RunPrograms
INVARIANTS
  SequentialResult
  NoDataRace
  FramesAlive
PROPERTY Termination
