\* Numbers of 20 bits, hundredths in %f, below 15; printf has a buffer of 16 bytes.
CONSTANTS
  NUL = NUL
  LongMod = 1048576
  BeforeDigits <- MCBeforeDigits
  ModfMax = 15
  Chars <- MCChars
  FScale = 100
  PrintfSize = 16
  SizeMax = 64
  Calls <- MCCalls
SPECIFICATION PrintfSpec
INVARIANTS StaysInBuffer AgreesWithC99
CHECK_DEADLOCK FALSE
