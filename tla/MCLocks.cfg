SPECIFICATION Spec
CONSTANTS
  Cores = {c1, c2}
  Locks <- MCLocks
  Kind <- MCKind
  Rank <- MCRank
INVARIANTS
  FlagRestored
  NeverInterruptedInside
PROPERTIES
  AreMutexes
  WaiterTakesInterrupts
