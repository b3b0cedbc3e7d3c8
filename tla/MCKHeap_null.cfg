SPECIFICATION Spec
CONSTANTS
  PageUnits = 12
  MaxPages = 3
  Requests = {0, 1, 3}
  Null = Null
CHECK_DEADLOCK FALSE
INVARIANTS
  KmallocSucceeds
