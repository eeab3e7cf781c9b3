CONSTANTS
  Lines = {a, b}
  Callers = {t1}
  MaxRolls = 0
  None = None
SPECIFICATION FairSpec
PROPERTY EveryLineWritten
CHECK_DEADLOCK FALSE
