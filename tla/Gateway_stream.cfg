SPECIFICATION StreamSpec
CONSTANTS
  Requests = {r1}
  Workers = {w1}
  Prios = {0, 1}
  WaitCap = 1
  WaitKeep = 1
  Fallback = TRUE
  Free = Free
  Streams = {r1}
  MaxUnread = 1
PROPERTY StreamEnds
CHECK_DEADLOCK FALSE
