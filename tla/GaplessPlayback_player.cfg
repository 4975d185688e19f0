\* One player, three files of any length around that of a fragment.
SPECIFICATION Spec
CONSTANTS
  t1 = t1
  p1 = p1
  p2 = p2
  p3 = p3
  p4 = p4
  Files = 3
  Fragment = 3
  FrameCounts <- UpTo4
  Thread <- OneThread
  Processor <- ThreeProcessors
  MaxPerConfig = 1
  None = None
SYMMETRY Symmetry
INVARIANTS
  TypeOK
  OutputIsOwnInput
  ConvertedToTheEnd
  OneUserPerProcessor
  ProcessorAssertions
