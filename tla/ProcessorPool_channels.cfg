\* Stereo and mono files, and a configuration for every number of channels.
SPECIFICATION Spec
CONSTANTS
  t1 = t1
  t2 = t2
  Nobody = Nobody
  None = None
  NoFile = NoFile
  Thread <- TwoThreads
  Processor <- Processors
  Path <- OneConfig
  Sound <- StereoAndMono
  Text <- Texts
  Edits <- EditsOfOne
  max_per_config = 1
  MaxTime = 1
  SoundFile <- Impulse
  HilbertLength <- Lengths
  MAXINP = 4
  MAXOUT = 4
  MAXQUANT = 8
  MINPART = 2
  MAXSIZE = 16
  BSIZE = 2
  UINT = 128
CHECK_DEADLOCK FALSE
INVARIANT
  RightChannels
