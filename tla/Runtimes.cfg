SPECIFICATION RTSpec
CONSTANTS
  Requests = {r1, r2}
  Callers = {r1, r2, w1}
  Workers = {w1}
  Prios = {1, 2}
  MaxBoost = 1
  Free = Free
INVARIANTS BooksAgree NoLostWakeup
PROPERTIES ImplementsAgedQueue ChatAnswered
CHECK_DEADLOCK FALSE
