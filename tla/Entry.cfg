SPECIFICATION EntrySpec
CONSTANTS
  AddressModulus = 100003
  Calls = {"22a775b6", "a22cb465", "a9059cbb"}
  Words = {1}
  Indices = {0, 2, 4}
  Exceptions = {"0x6502", "EXCEPTION_OVERFLOW"}
INVARIANT EntryTypeOK
PROPERTIES
  CallsAreAtomic
  CallsReturn
