CONSTANTS
  a = a
  u1 = u1
  r1 = r1
  j1 = j1
  j2 = j2
  w1 = w1
  w2 = w2
  Portions = {a}
  Elsewhere = Elsewhere
  NumPages = 2
  SectionSize = 1
  Presses = {u1}
  Readers = {r1}
  Jobs = {j1, j2}
  NoJob = NoJob
  Workers = {w1, w2}
  NoWorker = NoWorker
  MaxStalls = 1
  MaxPresses = 2
  MaxChanges = 1
  MaxFaults = 1
CHECK_DEADLOCK FALSE
SPECIFICATION Spec
SYMMETRY Symmetric
INVARIANT ReadyIsCurrent
