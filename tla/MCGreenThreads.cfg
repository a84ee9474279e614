CONSTANTS
  Workers = {w1, w2}
  Main = main
  Values = {v}
  NULL = NULL
  WaitWith = {"null"}
  Timer = "client"
SPECIFICATION Spec
SYMMETRY Symmetry
INVARIANTS
  IInv
  EveryThreadInOnePlace
  MutualExclusion
  LockHasOneOwner
  JoinAfterTermination
  NoUseAfterFree
  DiesOnlyWhenStuck
  RightStack
PROPERTIES
  NoBarging
