\* Files of up to five characters seen through windows of two, three and four,
\* so that every operation meets a delimiter, a read and a write that lie
\* across windows.  The white space has code 2, an index that occurs; at the
\* indices 3 and 4 isspace() is undefined.
CONSTANTS
  PageSizes = {1, 2}
  Windows = {2, 3}
  MaxSize = 5
  Chars = {0, 2}
  Spaces = {2}
  MaxChar = 2
  Word = 64
SPECIFICATION Spec
INVARIANTS Views AnswersAgree
