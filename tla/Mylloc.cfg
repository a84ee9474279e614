CONSTANTS
  BUFFER = 2
  Requests = {8, 24, 40}
  LIMIT = 184
  HEAD = 16
  IntSpan = 128
  Libraries = {"mylloc", "mhysa"}
  NULL = NULL
SPECIFICATION MSpec
INVARIANTS
  Accounted
  SizesAreReused
PROPERTIES
  ImplementsHeap
