SPECIFICATION NamesSpec
CONSTANTS
  W8 = 2
  W16 = 3
  W32 = 6
  Id = {0, 3, 5}
  Bucket = {0, 1}
  Hash <- FirstDigit
  MaxLines = 4
INVARIANT LookupIsFirst
CHECK_DEADLOCK FALSE
