\* Two readers of two files, which are closed at any time; the goal may be more
\* than a chunk away, so that work is re-scheduled.
SPECIFICATION Spec
CONSTANTS
  b1 = b1
  b2 = b2
  r1 = r1
  r2 = r2
  Buffer <- TwoBuffers
  Requester <- TwoRequesters
  FileEnd = 2
  Ahead = 2
  NoBuffer = NoBuffer
INVARIANTS
  FrontIsCurrent
  OneItemPerBuffer
  NoUseAfterFree
  WaitersWaitForCurrent
  NoSleepOnWork
PROPERTIES
  ForgetReturns
  EveryoneGetsATurn
CHECK_DEADLOCK FALSE
