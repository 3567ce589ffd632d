SPECIFICATION MCSpec
CONSTANTS
  Cores = {0, 1, 2}
  Tables <- MCTables
  Speeds = {1, 5}
  Hz = 2
  OffsetRange = 4096
  Geometries <- MCGeometries
  Trees <- MCTrees
  Paths <- MCPaths
  Programs <- MCPrograms
INVARIANTS
  ControllerReady
  MainIsLast
  KeyboardListens
  TreeIsRead
  ProgramIsLoaded
PROPERTIES
  BootEnds
CHECK_DEADLOCK FALSE
