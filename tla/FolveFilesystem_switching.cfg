\* Three users of one file while the filter is switched, also while it is being
\* assigned; room for one handler.
SPECIFICATION FsSafety
CONSTANTS
  u1 = u1
  u2 = u2
  u3 = u3
  h1 = h1
  h2 = h2
  h3 = h3
  h4 = h4
  Caller <- ThreeUsers
  Handler <- FourHandlers
  Key <- FlatKeys
  Filter <- FlatFilters
  TornFilter <- Torn
  Path <- OneFile
  ToplevelDirIsFilter = FALSE
  MaxSize = 1
  MaxTime = 0
  NoFilter = NoFilter
  NoHandler = NoHandler
SYMMETRY Symmetry4
INVARIANTS
  FsTypeOK
  RefCountExact
  UnpinFindsEntry
  HandlerServesRequest
  OneConversionPerOpenFile
