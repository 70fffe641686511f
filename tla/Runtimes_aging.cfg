SPECIFICATION RTSpec
CONSTANTS
  Requests = {r1, r2}
  Callers = {r1, r2, w1}
  Workers = {w1}
  Prios = {2, 3}
  MaxBoost = 2
  Free = Free
PROPERTY AgingHonoured
CHECK_DEADLOCK FALSE
