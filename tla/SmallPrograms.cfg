CONSTANTS
  MAX = 10
  Examples = {"yield", "switch"}
  Commands = {"fork", "dolly", "orphan", "transform", "jango"}
SPECIFICATION SmallSpec
INVARIANTS
  RightContext
  MomIsLast
  Redirected
PROPERTIES
  ContextsEnd
