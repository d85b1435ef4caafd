SPECIFICATION FairSpec
CONSTANTS
  Words = 2
  MaxRx = 2
  PbufFails = TRUE
PROPERTY MainSendEnds
