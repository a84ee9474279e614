CONSTANTS
  ARENA = 136
  Requests = {0, 16, 17, 40}
  IntSpan = 1024
  ShortSpan = 65536
  Merging = {FALSE, TRUE}
  NULL = NULL
SPECIFICATION DLSpec
INVARIANTS
  DLTypeOK
  BoundaryTags
  FreeListComplete
  NoLeak
  LinksFit
  SanityHolds
  Coalesced
PROPERTIES
  ImplementsHeap
