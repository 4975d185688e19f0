\* Two readers and the pre-buffer thread on one file.
SPECIFICATION Spec
CONSTANTS
  r1 = r1
  r2 = r2
  Reader <- TwoReaders
  Prebuffer = Prebuffer
  Free = Free
  HeaderSize = 1
  Blocks = 2
  MaxAppend = 1
  MaxRead = 2
INVARIANTS
  ShortReadMeansComplete
PROPERTIES
  ReadsReturn
  HeaderReadsConvertNothing
  CompleteIsFinal
