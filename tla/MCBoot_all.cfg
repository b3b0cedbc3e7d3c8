SPECIFICATION Spec
CONSTANTS
  Boards <- MCBoards
  CALIBRATION_MS_TO_WAIT = 3
  PitPeriod = 3
  ApicMax = 10
  RtcBase = 2
  IO_APIC_SOURCE_OVERRIDE_MAX_ITEMS = 3
  MaxKeys = 2
INVARIANTS InterruptsExpected TimeIsReal
PROPERTIES CalibrationLongEnough BootCompletes
CHECK_DEADLOCK FALSE
