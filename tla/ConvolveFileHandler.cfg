\* A player, an indexer, the status page and two threads that ask for the size.
\* All reading may be done.
SPECIFICATION Spec
CONSTANTS
  player = player
  indexer = indexer
  s1 = s1
  s2 = s2
  Nothing = Nothing
  Input <- Inputs
  OUT = 2
  FRAGM = 2
  Loudness <- QuietOrLoud
  Player <- player
  Indexer <- indexer
  Stats <- TwoStats
  ReadSize <- TwoBytes
  kFudgeOverhang = 1
  Margin = 1
  INT = 64
SYMMETRY Symmetry
INVARIANTS
  HeaderWellFormed
  OneHeaderThenSound
  SequentialReaderGetsSound
  SizeIsEnough
  MaximumRecorded
