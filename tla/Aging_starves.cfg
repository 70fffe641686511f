SPECIFICATION Spec
CONSTANTS
  Lengths <- MCLengths
  Factor = 1
  Log1p <- MCLog1p
  Exp <- MCExp
  MaxBoost = 1000000
  Hysteresis = 20
  Timeout = 600
  None = 0
INVARIANT NoStarvation
CHECK_DEADLOCK FALSE
