\* Finding: At 100 % the threshold overflows.
SPECIFICATION ParseSpec
CONSTANTS
  Words = {"w"}
  MaxLength = 0
  None = None
  Digits <- MCDigits
  Others = {"x"}
  MaxChars = 4
  TooLarge = 500
  Width = 8
  Overflowed <- MCOverflowed
CHECK_DEADLOCK FALSE
INVARIANTS HundredSamplesAll
