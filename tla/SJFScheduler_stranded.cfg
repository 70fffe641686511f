SPECIFICATION PatientSpec
CONSTANTS
  Requests = {r1, r2}
  Workers = {w1}
  Prios = {0, 1}
  WaitCap = 2
  WaitKeep = 1
  Fallback = TRUE
PROPERTY EventuallyAcquired
