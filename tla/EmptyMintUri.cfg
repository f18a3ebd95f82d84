SPECIFICATION Spec
CONSTANTS
  AddressModulus = 100003
  Selectors = {"MINT_AND_TRANSFER"}
  Addresses = {1, 70001}
  Values = {500}
  Lengths = {0, 31}
  Quantities = {0, 1}
  MayBeEmpty = {"MINT_URI"}
  Trailing = {500}
INVARIANT ShownMatchesCalldata
CHECK_DEADLOCK FALSE
