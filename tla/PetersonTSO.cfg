CONSTANTS
  Cpus = {0, 1}
  Buffered = {TRUE}
  Rounds = 3
  Programs = {"peterson"}
SPECIFICATION LSpec
INVARIANTS
  MutualExclusion
