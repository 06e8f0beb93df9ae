\* Every text function on all small inputs.
SPECIFICATION TextSpec
CONSTANTS
  Chars <- MCChars
  Digits <- MCDigits
  Bytes <- MCBytes
  CodePoints <- MCCodePoints
  Errs <- MCErrs
  Messages <- MCMessages
  MaxLen = 3
  MaxDigits = 4
  MaxBytes = 4
  MaxPoints = 2
  MaxArgs = 2
  MaxBuf = 12
  IntMax = 127
  SizeMax = 1278
CHECK_DEADLOCK FALSE
INVARIANTS
  StringsRight
  BuffersKept
  PathsRight
