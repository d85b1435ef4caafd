SPECIFICATION TimersSpec
CONSTANTS
  TCP_TMR_INTERVAL = 2
  IP_TMR_INTERVAL = 5
  ARP_TMR_INTERVAL = 7
  Slots = 5
  Gap = 2
  MaxPcbs = 2
CHECK_DEADLOCK FALSE
INVARIANT
  TcpTimerServes
