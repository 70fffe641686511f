SPECIFICATION FairSpec
CONSTANTS
  Requests = {r1, r2, r3}
  Workers = {w1, w2}
  Prios = {0, 1}
  WaitCap = 2
  WaitKeep = 1
INVARIANTS TypeOK LatestFirst PendingIsHeld NothingLost NoLostWakeup
INVARIANTS UnagedOnce StatsBalance
PROPERTIES ShortestFirst OnlyStaleRepeats EventuallyServed
PROPERTIES CancelHonoured ImplementsRequestQueue
