SPECIFICATION PrintfSpec
CONSTANTS
  ULONG = 65536
  Numbers = {0}
  Sizes = {0, 2}
  Widths = {0}
  Befores = {0, 3}
  Plans <- StarSizes
  Texts <- SomeTexts
INVARIANT StarPadsItsSize
CHECK_DEADLOCK FALSE
