SPECIFICATION Spec
CONSTANTS
  AddressModulus = 100003
  Selectors = {"MINT_AND_TRANSFER", "TRANSFER_FROM_OR_MINT", "MATCH_ORDERS"}
  Addresses = {1, 70001}
  Values = {500, 65536}
  Lengths = {0, 65, 65536}
  Quantities = {0, 3, 65536}
  MayBeEmpty = {"TRANSFER_URI", "SIGNATURES", "MAKE_DATA", "TAKE_DATA", "RIGHT_SIGNATURE"}
  Trailing = {}
INVARIANT ShownMatchesCalldata
PROPERTIES
  SignaturesShowNothing
  LastSignatureShowsNothing
CHECK_DEADLOCK FALSE
