SPECIFICATION TrackedSpec
CONSTANTS
  Requests = {r1, r2, r3}
  Workers = {w1, w2}
  Prios = {0, 1, 2}
  WaitCap = 2
  WaitKeep = 1
SYMMETRY Symmetry
INVARIANT AtMostOnce
