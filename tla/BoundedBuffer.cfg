SPECIFICATION FairSpec
CONSTANTS
  N = 7
  Producers = {0, 2, 4}
  Consumers = {1, 3, 5}
  Conditions = {"cond_producer", "cond_consumer"}
  Programs <- Testing
  Capacity = 2
INVARIANTS
  InBounds
  NoLostWakeup
PROPERTIES
  KeepsMoving
  AllServed
  Delivered
