SPECIFICATION FairSpec
CONSTANTS
  Threads = {t1, t2, t3, t4}
  Increments = 2
  NULL = null
  Programs <- Waiting
INVARIANTS
  FirstComeFirstServed
  NothingLost
  NoNullDereference
  NoDanglingNode
  LinksFollowQueue
PROPERTY Termination
