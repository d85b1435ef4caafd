SPECIFICATION NetworkFairSpec
CONSTANTS
  Part = {"heap", "timers", "arp", "transfer", "ipreass"}
  N = 4
  BlockSize = 2
  Sizes <- MCSizes
  NIL = NIL
  Wrap = 3
  Requests = {2, 4}
  Reading <- MCReading
  FrameTail <- MCFrameTail
  MaxLost = 3
  Periods = 10
  MinLast = 2
  MaxLast = 3
  Horizon = 21
  Bits = 1
  Limit = 2
  Pulse = 3
  Strobe = 1
  OnPress = {"WK_UP"}
  OnRelease = {"KEY1"}
  Settle = 1
  MinWait = 2
  MaxWait = 3
  Hold = 8
  v = v
  w = w
  Value = {v, w}
  Climate <- MCClimate
  Blank = Blank
  Pages = 2
  Columns = 3
  Nibble = 2
  ByteBits = 2
  DrawCells <- MCDrawCells
  MAXLEN = 4
  Byte = {a, b}
  MEM = 20
  HDR = 2
  MIN = 2
  Wanted = {1, 2, 3, 4}
  NestedMalloc = FALSE
  TCP_TMR_INTERVAL = 2
  IP_TMR_INTERVAL = 5
  ARP_TMR_INTERVAL = 7
  Slots = 5
  Gap = 1
  MaxPcbs = 1
  TableSize = 1
  MaxAge = 3
  Rerequest = 2
  MaxPending = 2
  gw = gw
  h1 = h1
  h2 = h2
  Host = {gw, h1}
  Gateway = gw
  Remote = {server}
  m1 = m1
  m2 = m2
  m3 = m3
  m4 = m4
  Mac = {m1, m2, m3, m4}
  Announce <- MCAnnounce2
  None = None
  MSS = 2
  TCP_SND_BUF = 6
  TCP_SND_QUEUELEN = 4
  TCP_MAXRTX = 1
  Packet = 3
  Buffer = 4
  CwndMax = 4
  RtxWidth = 3
  StreamMax = 6
  DataMax = 1
  AckMax = 1
  Datagram = {d1, d2, d3}
  Size = 4
  Routes = {{2}}
  REASSDATA = 3
  IP_REASS_MAX_PBUFS = 6
  IP_REASS_MAXAGE = 1
  PoolSize = 3
  BufSize = 2
  Headers = 1
  LongestPacket = 5
  MostHeld = 2
CHECK_DEADLOCK FALSE
PROPERTIES
  RefinesHeapPool
  TimersFire
  PendingEnds
  Delivered
  ReassEnds
