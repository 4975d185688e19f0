\* Files that are shorter than a fragment.
SPECIFICATION Spec
CONSTANTS
  t1 = t1
  p1 = p1
  p2 = p2
  p3 = p3
  p4 = p4
  Files = 2
  Fragment = 3
  FrameCounts <- UpTo4
  Thread <- OneThread
  Processor <- FourProcessors
  MaxPerConfig = 1
  None = None
SYMMETRY Symmetry
INVARIANTS
  ShortFilesToo
