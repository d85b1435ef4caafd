SPECIFICATION TransferFairSpec
CONSTANTS
  MSS = 2
  TCP_SND_BUF = 6
  TCP_SND_QUEUELEN = 4
  TCP_MAXRTX = 1
  Packet = 3
  Buffer = 4
  CwndMax = 4
  RtxWidth = 3
  StreamMax = 6
  DataMax = 1
  AckMax = 2
CHECK_DEADLOCK FALSE
PROPERTY UpdateLossSurvived
