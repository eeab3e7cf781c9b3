\* Three lines by two threads, one rotation.  A destroyed logger rests.
CONSTANTS
  Lines = {a, b, c}
  Callers = {t1, t2}
  MaxRolls = 1
  None = None
SPECIFICATION Spec
INVARIANTS TypeOK LinesInOrder
PROPERTIES BatchInOneFile
CHECK_DEADLOCK FALSE
