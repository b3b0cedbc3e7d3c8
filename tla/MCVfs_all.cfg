SPECIFICATION Spec
CONSTANTS
  Block = 3
  OctWidth = 3
  Archives <- MCArchives
  Paths <- MCPaths
  NewMounts <- MCNewMounts
  Counts = {2, 12}
  MOUNTPOINTS_MAX = 5
  OPENEDFILES_MAX = 3
  MaxRegister = 1
  MaxOpens = 4
CHECK_DEADLOCK FALSE
INVARIANTS
  PathsResolve
  ReadReturnsFile
  VnodesOfOpenFiles
