SPECIFICATION Spec
CONSTANTS
  t1 = t1
  t2 = t2
  t3 = t3
  t4 = t4
  Threads = {t1, t2, t3, t4}
  Programs <- MCPrograms
  Values = {1, 2, 3, 4, 5}
  Room = 2
  Party = 3
INVARIANTS
  NoMissedSignal
  NobodyPassesEarly
  FutureSafe
PROPERTIES
  IsBoundedQueue
  AllReturn
CHECK_DEADLOCK FALSE
