SPECIFICATION Spec
CONSTANTS
  WordBits = 2
  V4 = V4
  V6 = V6
  LengthTooLong = LengthTooLong
INVARIANTS ParsesRight CommonRight RoundTrip
PROPERTIES Adjacent
CHECK_DEADLOCK FALSE
