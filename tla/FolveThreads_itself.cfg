\* A file is evicted by the thread that is converting it.
SPECIFICATION SafetySpec
CONSTANTS
  p1 = p1
  w1 = w1
  first = first
  second = second
  Player <- OnePlayer
  PreBuffer <- OneThread
  Caller <- OnePlayerOneThread
  Key <- ThreeFiles
  Handler <- TwoEach
  MaxSize = 1
  MaxTime = 0
  NoHandler = NoHandler
  NoThread = NoThread
  InitialThread <- StartedOrNot
SYMMETRY Symmetry
CHECK_DEADLOCK FALSE
INVARIANTS
  NeverWaitsForItself
