\* Two callers of a cache of one entry, under the most general client, and a
\* page in the making.
SPECIFICATION Spec
CONSTANTS
  c1 = c1
  c2 = c2
  k1 = k1
  k2 = k2
  k3 = k3
  h1 = h1
  h2 = h2
  h3 = h3
  v1 = v1
  Caller <- TwoCallers
  Key <- ThreeKeys
  Handler <- ThreeHandlers
  Viewer <- OneViewer
  MaxSize = 1
  MaxTime = 1
  kMaxRetired = 1
SYMMETRY Symmetry
CONSTRAINT Bound
INVARIANTS
  OverfullOnlyWhenPinned
  OneOwner
  PageMissesNoHandler
  EveryHandlerAccounted
