\* Two threads open files of two channels, for which there is a configuration of
\* their own, one for all numbers of channels, or none; the user edits both.
\* Both threads may hang: one in a read without end, one behind it.
SPECIFICATION Spec
CONSTANTS
  t1 = t1
  t2 = t2
  Nobody = Nobody
  None = None
  NoFile = NoFile
  Thread <- TwoThreads
  Processor <- Processors
  Path <- TwoConfigs
  Sound <- Stereo
  Text <- Texts
  Edits <- EditsOfBoth
  max_per_config = 1
  MaxTime = 1
  SoundFile <- Impulse
  HilbertLength <- Lengths
  MAXINP = 4
  MAXOUT = 4
  MAXQUANT = 8
  MINPART = 2
  MAXSIZE = 16
  BSIZE = 2
  UINT = 128
CHECK_DEADLOCK FALSE
INVARIANTS
  OnePlace
  FreshFilter
  EngineFits
PROPERTIES
  OpensReturn
