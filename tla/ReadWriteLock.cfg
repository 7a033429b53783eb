SPECIFICATION FairSpec
CONSTANTS
  Readers = {r1, r2}
  Writers = {w1, w2}
  Conditions = {"readerCondition", "writerCondition"}
  Programs <- WriteLocking
  Rounds = 2
  Limit = 2
INVARIANTS
  TypeOK
  NoLostWakeup
  FinalValue
PROPERTIES
  ImplementsReadersWriters
  WritersFirst
  Termination
