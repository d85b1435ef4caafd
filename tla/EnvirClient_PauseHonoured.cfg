SPECIFICATION Spec
CONSTANTS
  Pcb = {p1, p2}
  Es = {e1, e2}
  NULL = NULL
  MemFails = TRUE
CHECK_DEADLOCK FALSE
PROPERTY PauseHonoured
