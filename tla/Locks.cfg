CONSTANTS
  Cpus = {0, 1, 2}
  Buffered = {FALSE, TRUE}
  Rounds = 2
  Programs = {"peterson", "swap"}
SPECIFICATION LSpec
INVARIANTS
  Excludes
  OvertakenOnce
PROPERTIES
  ImplementsCounter
  AllCounted
