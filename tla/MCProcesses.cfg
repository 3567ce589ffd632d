SPECIFICATION Spec
CONSTANTS
  Procs = {1, 2, 3}
  Layout <- MCLayout
  Apic = "t3"
  MaxFrame = 16
  Bytes = {0, 1}
  Sems = {1, 2}
  Files = {1}
  D = 2
  Std = 1
  Size = 2
  Stale <- MCStale
  CodePage = "code"
  StackPage = "stack"
  Menus <- MCMenus
INVARIANTS
  SemaphoreOutlivesUsers
  FramesAccounted
  MemoryIsPrivate
PROPERTIES
  DescriptorsKept
CHECK_DEADLOCK FALSE
