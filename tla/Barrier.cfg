SPECIFICATION FairSpec
CONSTANTS
  Threads = {t1, t2, t3, t4, t5}
  Conditions = {"cond"}
  Programs <- AllBarriers
  Spurious <- Retesting
INVARIANT NobodyEarly
PROPERTY Termination
