SPECIFICATION Spec
CONSTANTS
  AddressModulus = 100003
  Selectors = {"MATCH_ORDERS"}
  Addresses = {1, 70001}
  Values = {500}
  Lengths = {0, 65}
  Quantities = {0, 1}
  MayBeEmpty = {"LEFT_SIGNATURE"}
  Trailing = {500}
INVARIANT ShownMatchesCalldata
CHECK_DEADLOCK FALSE
