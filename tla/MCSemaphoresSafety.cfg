SPECIFICATION SemSpec
CONSTANTS
  c1 = c1
  c2 = c2
  w1 = w1
  w2 = w2
  w3 = w3
  s1 = s1
  Cores = {c1, c2}
  Workers = {w1, w2, w3}
  Main = w1
  Reaper = Reaper
  None = None
  UserSems = {s1}
  HeapLock = HeapLock
  Initial = 0
  MaxCount = 1
SYMMETRY Symmetry
INVARIANTS SemExclusiveOwner UnitsAccounted LockCrossesSwitch
PROPERTIES IsCountingSemaphores
