SPECIFICATION IpReassSpec
CONSTANTS
  Datagram = {d1}
  Size = 4
  Routes = {{1, 2, 3}}
  REASSDATA = 5
  IP_REASS_MAX_PBUFS = 10
  IP_REASS_MAXAGE = 3
INVARIANT PassedUpWhole
