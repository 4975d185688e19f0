\* Filtered directories: a file under two filters, and paths without one; what
\* becomes of a handler.
SPECIFICATION FsSpec
CONSTANTS
  u1 = u1
  u2 = u2
  u3 = u3
  h1 = h1
  h2 = h2
  h3 = h3
  h4 = h4
  Caller <- TwoUsers
  Handler <- ThreeHandlers
  Key <- ToplevelKeys
  Filter <- FlatFilters
  TornFilter <- Torn
  Path <- ToplevelFiles
  ToplevelDirIsFilter = TRUE
  MaxSize = 1
  MaxTime = 1
  NoFilter = NoFilter
  NoHandler = NoHandler
PROPERTIES
  LifeOfOneHandler
  CacheSpec
