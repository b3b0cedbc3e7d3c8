SPECIFICATION Spec
CONSTANTS
  Boards <- MCBoards
  FrameUnits = 2
  PointerScale = 1
  TableEntries = 8
  HhdmEntry = 1
  RowBits = 3
  FullBits = 2
  BitmapUnits = 1
  AreaFrames = {1, 2, 3}
CHECK_DEADLOCK FALSE
INVARIANTS
  BootMemoryKept
PROPERTIES
  AllocationsApart
  UsedFramesExact
