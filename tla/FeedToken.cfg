SPECIFICATION Spec
CONSTANTS
  AddressModulus = 100003
  Selectors = {"CREATE_TOKEN", "ERC721_RARIBLE_INIT", "SET_APPROVED_FOR_ALL"}
  Addresses = {1, 70001}
  Values = {7, 200001}
  Lengths = {0, 5, 32, 33, 65, 65536}
  Quantities = {0, 1, 3, 65536}
  MayBeEmpty = {"NAME", "SYMBOL", "BASE_URI", "CONTRACT_URI"}
  Trailing = {7}
INVARIANTS
  TypeOK
  InStep
  CountdownExact
  ShownMatchesCalldata
  RefusedExactly
PROPERTIES
  ParsedOrRefused
CHECK_DEADLOCK FALSE
