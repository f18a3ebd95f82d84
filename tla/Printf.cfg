SPECIFICATION PrintfSpec
CONSTANTS
  ULONG = 65536
  Numbers = {0, 9, 10, 255, 9999, 32767, 32768, 65535}
  Sizes = {0, 2, 3}
  Widths = {0, 4, 10, 15}
  Befores = {0, 64}
  Plans <- AllDirectives
  Texts <- SomeTexts
INVARIANTS
  PrintfTypeOK
  PrintedAsAsked
  BufferHeld
PROPERTIES
  Returns
CHECK_DEADLOCK FALSE
