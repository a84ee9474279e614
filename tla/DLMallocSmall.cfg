CONSTANTS
  ARENA = 136
  Requests = {8, 24}
  IntSpan = 1024
  ShortSpan = 65536
  Merging = {FALSE}
  NULL = NULL
SPECIFICATION DLSpec
INVARIANTS
  LinksFit
