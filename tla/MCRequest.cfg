\* Bodies of four characters and more are put in a file seen through windows
\* of five, so that escapes, delimiters and parts lie across windows.
CONSTANTS
  Window = 5
  IntSize = 2
  MinPostSize = 4
  MaxTurns = 6
  Inputs <- MCInputs
SPECIFICATION Spec
INVARIANTS FaithfulRetry FormMeaning MultipartMeaning ParseEnds
CHECK_DEADLOCK FALSE
