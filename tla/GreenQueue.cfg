CONSTANTS
  Lists = {ready, cond}
  Threads = {t1, t2, t3}
  NULL = NULL
SPECIFICATION GQSpec
INVARIANTS
  GQTypeOK
  OnePredecessor
PROPERTIES
  ImplementsQueues
  WalkEnds
