SPECIFICATION FairSpec
CONSTANTS
  Requests = {r1, r2}
  Workers = {w1}
  Prios = {0, 1}
  WaitCap = 1
  WaitKeep = 1
  Fallback = TRUE
  Free = Free
  Streams = {r2}
  MaxUnread = 1
INVARIANTS QueueAttended AnswersAgree BooksClosed
PROPERTIES ChatAnswered
CHECK_DEADLOCK FALSE
