SPECIFICATION SessionSpec
CONSTANTS
  AddressModulus = 100003
  Selectors = {"MINT_AND_TRANSFER", "CANCEL", "MATCH_ORDERS", "TRANSFER_FROM_OR_MINT", "SET_APPROVED_FOR_ALL", "CREATE_TOKEN", "ERC721_RARIBLE_INIT"}
  Addresses = {1, 70001}
  Values = {9, 10, 99, 100, 110, 10000, 70001}
  Lengths = {0, 5}
  Quantities = {0, 1, 65536}
  MayBeEmpty = {"NAME", "SYMBOL"}
  Trailing = {9}
  Calls = {"22a775b6", "e2864fe3", "e99a3f80", "832fbb29", "a22cb465", "27050d1f", "3db397c6", "a9059cbb"}
  Exceptions = {"0x6502", "EXCEPTION_OVERFLOW"}
INVARIANTS
  SessionTypeOK
  AnswersExactly
PROPERTIES
  ClearSigned
