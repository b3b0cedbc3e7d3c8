SPECIFICATION Spec
CONSTANTS
  TableSize = 5
  Half = 1
  Recursive = 3
  KernelSlot = 4
  KernelRoot = 5
  DataStart = 40
  SpaceStart = 51
  UserStart = 1
  Items = 3
  PageUnits = 2
  Devices = {1, 2}
  Images <- MCImages
  MaxGrow = 2
CHECK_DEADLOCK FALSE
INVARIANTS
  KernelHalfShared
  UserMemoryApart
PROPERTIES
  TranslationsStable
