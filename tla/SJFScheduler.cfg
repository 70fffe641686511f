SPECIFICATION FairSpec
CONSTANTS
  Requests = {r1, r2}
  Workers = {w1, w2}
  Prios = {0, 1}
  WaitCap = 1
  WaitKeep = 1
  Fallback = TRUE
INVARIANTS AgingSeesQueue PendingTracks NoSleeperWhileQueued
PROPERTIES FallbackServes
