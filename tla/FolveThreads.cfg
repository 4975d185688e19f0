\* A player and the pre-buffer thread, which may have to be started first; three
\* files in a row. All may come to rest: no file open, no work queued.
SPECIFICATION Spec
CONSTANTS
  p1 = p1
  w1 = w1
  first = first
  second = second
  Player <- OnePlayer
  PreBuffer <- OneThread
  Caller <- OnePlayerOneThread
  Key <- ThreeFiles
  Handler <- TwoEach
  MaxSize = 1
  MaxTime = 0
  NoHandler = NoHandler
  NoThread = NoThread
  InitialThread <- StartedOrNot
CHECK_DEADLOCK FALSE
INVARIANTS
  NoCircularWait
  NoUseOfDeleted
PROPERTIES
  ErasedIsDeleted
  CallsReturn
