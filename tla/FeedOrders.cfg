SPECIFICATION Spec
CONSTANTS
  AddressModulus = 100003
  Selectors = {"CANCEL", "MATCH_ORDERS"}
  Addresses = {1, 70001}
  Values = {7, 200001}
  Lengths = {0, 31, 65, 65535, 65536}
  Quantities = {0}
  MayBeEmpty = {"MAKE_DATA", "TAKE_DATA"}
  Trailing = {7}
INVARIANTS
  TypeOK
  InStep
  CountdownExact
  ShownMatchesCalldata
  RefusedExactly
PROPERTIES
  ParsedOrRefused
CHECK_DEADLOCK FALSE
