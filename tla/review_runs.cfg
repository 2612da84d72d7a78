CONSTANTS
  r1 = r1
  r2 = r2
  k1 = k1
  k2 = k2
  q1 = q1
  q2 = q2
  w1 = w1
  w2 = w2
  Runs = {r1, r2}
  NoRun = NoRun
  Keys = {k1, k2}
  NoKey = NoKey
  Requests = {q1, q2}
  Workers = {w1, w2}
  NoWorker = NoWorker
  MaxStalls = 1
  MaxChanges = 1
  MaxFaults = 1
CHECK_DEADLOCK FALSE
SPECIFICATION Spec
SYMMETRY Symmetric
INVARIANTS StartedOnce TwinsAreRefused
PROPERTIES CancelHeeded
