SPECIFICATION Spec
CONSTANTS
  c1 = c1
  c2 = c2
  w1 = w1
  w2 = w2
  w3 = w3
  Cores = {c1, c2}
  Workers = {w1, w2, w3}
  Main = w1
  Reaper = Reaper
  None = None
SYMMETRY Symmetry
INVARIANTS TypeOK ExclusiveOwner NoHoppingIdle TimerSafe StoppedNeverResumes
