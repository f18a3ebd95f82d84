SPECIFICATION Spec
CONSTANTS
  AddressModulus = 100003
  Selectors = {"MINT_AND_TRANSFER", "TRANSFER_FROM_OR_MINT"}
  Addresses = {1, 70001}
  Values = {500, 10000, 10001, 65536, 200001}
  Lengths = {0, 31, 64, 65, 65536}
  Quantities = {0, 1, 2, 3, 65536}
  MayBeEmpty = {"TRANSFER_URI"}
  Trailing = {500}
INVARIANTS
  TypeOK
  InStep
  CountdownExact
  ShownMatchesCalldata
  RefusedExactly
PROPERTIES
  ParsedOrRefused
CHECK_DEADLOCK FALSE
