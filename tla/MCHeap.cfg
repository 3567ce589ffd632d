SPECIFICATION HeapSpec
CONSTANTS
  len = 26
  Requests = {8, 48}
  CountDown = 2
  Data = 4
INVARIANTS HeapConsistent
