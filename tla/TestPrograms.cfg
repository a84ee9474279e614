CONSTANTS
  Workers = {0, 1, 2}
  Main = main
  Values = {five}
  NULL = NULL
  WaitWith = {}
  Timer = "client"
  Loops = 2
  Programs = {"test_mutex", "test_green"}
SPECIFICATION TestSpec
INVARIANTS
  ResultArrives
PROPERTIES
  UsesAsAgreed
  ImplementsCounter
  Finishes
