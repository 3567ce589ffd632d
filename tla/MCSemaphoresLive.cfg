SPECIFICATION LiveSpec
CONSTANTS
  c1 = c1
  w1 = w1
  w2 = w2
  w3 = w3
  w4 = w4
  w5 = w5
  Cores = {c1}
  Workers = {w1, w2, w3, w4, w5}
  Creators = {w1, w2}
  Stoppers = {w3}
  Main = w1
  Reaper = Reaper
  None = None
  UserSems = {}
  HeapLock = HeapLock
  Initial = 0
  MaxCount = 1
PROPERTIES ReadyRunsOrOutOfReach StoppedIsFreed HeapLockIsGranted
