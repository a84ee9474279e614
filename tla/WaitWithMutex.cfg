CONSTANTS
  Workers = {w1, w2}
  Main = main
  Values = {v}
  NULL = NULL
  WaitWith = {"null", "mutex"}
  Timer = "client"
SPECIFICATION Spec
SYMMETRY Symmetry
INVARIANTS
  JoinAfterTermination
  RightStack
  NoUseAfterFree
