CONSTANTS
  Workers = {w1, w2}
  Main = main
  Values = {v}
  NULL = NULL
  WaitWith = {}
  Timer = "any"
SPECIFICATION Spec
SYMMETRY Symmetry
INVARIANTS
  JoinAfterTermination
