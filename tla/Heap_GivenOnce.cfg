SPECIFICATION HeapSpec
CONSTANTS
  MEM = 20
  HDR = 2
  MIN = 2
  Wanted = {1, 2, 3, 4}
  NestedMalloc = TRUE
CHECK_DEADLOCK FALSE
INVARIANT GivenOnce
