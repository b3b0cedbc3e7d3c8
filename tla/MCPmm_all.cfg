SPECIFICATION Spec
CONSTANTS
  Procs = {p, q}
  bitmap_size = 5
  RowBits = 4
  FullBits = 3
  Rows = 2
  BootUsed <- MCBootUsed
  UsedAtBoot = 2
  WordMod = 8
CHECK_DEADLOCK FALSE
INVARIANTS
  LockedByOne
  NoDoubleAllocation
  BitmapExact
PROPERTIES
  LockReleased
