SPECIFICATION PrintfSpec
CONSTANTS
  ULONG = 65536
  Numbers = {9, 255}
  Sizes = {0}
  Widths = {0}
  Befores = {0}
  Plans <- CapitalX
  Texts <- SomeTexts
INVARIANT CapitalXIsSmall
CHECK_DEADLOCK FALSE
