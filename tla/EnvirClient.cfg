SPECIFICATION FairSpec
CONSTANTS
  Pcb = {p1, p2}
  Es = {e1, e2}
  NULL = NULL
  MemFails = TRUE
CHECK_DEADLOCK FALSE
INVARIANTS
  OwnershipSound
  CommandNotOverwritten
PROPERTIES
  NoResurrection
  RefinesSession
  ClosingCloses
  StartTakesEffect
