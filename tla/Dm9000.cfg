SPECIFICATION FairSpec
CONSTANTS
  Words = 2
  MaxRx = 2
  PbufFails = TRUE
INVARIANTS
  MainSound
  PacketsWhole
  RxAligned
  KeySound
  IntNoticed
PROPERTIES
  UntornSendEnds
  KeySendEnds
