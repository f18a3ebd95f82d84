---------------------------- MODULE AbiCalldata ----------------------------
(***************************************************************************)
(* The calldata of the seven methods as a wallet encodes it: after the     *)
(* selector, a sequence of fields, each a static word, a byte string (its  *)
(* length, then its bytes in whole words), a list (its length, then one or *)
(* two words an element) or a list of byte strings (its length, an offset  *)
(* an element, then the strings).  The encoder knows nothing of the        *)
(* plugin.  It is code of the wallet, outside the repository, and is taken *)
(* from the transactions the repository's tests send.                      *)
(*                                                                         *)
(* `truth' says what the user is about to sign: the fields the README      *)
(* promises to show, in the words encoded so far.                          *)
(***************************************************************************)
EXTENDS PluginContext

CONSTANTS
  Addresses,   \* the address words
  Values,      \* the words that are no address and no count
  Lengths,     \* the lengths of byte strings
  Quantities,  \* the lengths of lists
  MayBeEmpty,  \* the byte strings of which an empty one is sent
  Trailing     \* the words sent after the end of the calldata

ASSUME CalldataAssumption ==
  /\ Addresses \subseteq 0..(AddressModulus - 1)
  /\ Values \subseteq Nat /\ Lengths \subseteq Nat /\ Quantities \subseteq Nat
  /\ Trailing \subseteq Nat

VARIABLES
  pos,    \* the field being sent, an index of the method's Layout
  part,   \* what of the field the next word is
  len,    \* the length of the byte string being sent
  qty,    \* the length of the list being sent
  sent,   \* words of that byte string, or elements of that list, sent so far
  done,   \* byte strings of the list sent so far
  truth   \* what the words sent so far say of each field to be shown

calldataVars == <<pos, part, len, qty, sent, done, truth>>

Order(maker, taker) ==
  <<maker, "MAKE_ASSET_OFFSET", taker, "TAKE_ASSET_OFFSET", "SALT", "START", "END",
    "DATA_TYPE", "DATA_OFFSET",
    "MAKE_TYPE_OFFSET", "MAKE_VALUE", "MAKE_CLASS", "MAKE_DATA_OFFSET", "MAKE_DATA",
    "TAKE_TYPE_OFFSET", "TAKE_VALUE", "TAKE_CLASS", "TAKE_DATA_OFFSET", "TAKE_DATA",
    "DATA">>

Layout ==
  [MINT_AND_TRANSFER |->
     <<"BODY_OFFSET", "BENEFICIARY", "ID", "URI_OFFSET", "CREATORS_OFFSET",
       "ROYALTIES_OFFSET", "SIGNATURES_OFFSET", "MINT_URI", "CREATORS", "ROYALTIES",
       "SIGNATURES">>,
   TRANSFER_FROM_OR_MINT |->
     <<"BODY_OFFSET", "FROM", "RECIPIENT", "ID", "URI_OFFSET", "CREATORS_OFFSET",
       "ROYALTIES_OFFSET", "SIGNATURES_OFFSET", "TRANSFER_URI", "LAST_CREATOR", "ROYALTIES",
       "SIGNATURES">>,
   CANCEL |-> <<"BODY_OFFSET">> \o Order("MAKER", "TAKER"),
   MATCH_ORDERS |->
     <<"LEFT_ORDER_OFFSET", "LEFT_SIGNATURE_OFFSET", "RIGHT_ORDER_OFFSET",
       "RIGHT_SIGNATURE_OFFSET">>
       \o Order("LEFT_MAKER", "LEFT_TAKER") \o <<"LEFT_SIGNATURE">>
       \o Order("RIGHT_MAKER", "RIGHT_TAKER") \o <<"RIGHT_SIGNATURE">>,
   SET_APPROVED_FOR_ALL |-> <<"OPERATOR", "APPROVED">>,
   CREATE_TOKEN |->
     <<"NAME_OFFSET", "SYMBOL_OFFSET", "BASE_URI_OFFSET", "CONTRACT_URI_OFFSET",
       "OPERATORS_OFFSET", "SALT", "NAME", "SYMBOL", "BASE_URI", "CONTRACT_URI",
       "OPERATORS">>,
   ERC721_RARIBLE_INIT |->
     <<"NAME_OFFSET", "SYMBOL_OFFSET", "BASE_URI_OFFSET", "CONTRACT_URI_OFFSET",
       "TRANSFER_PROXY", "LAZY_TRANSFER_PROXY", "NAME", "SYMBOL", "BASE_URI",
       "CONTRACT_URI">>]

AddressFields ==
  {"BENEFICIARY", "FROM", "RECIPIENT", "MAKER", "TAKER", "LEFT_MAKER", "LEFT_TAKER",
   "RIGHT_MAKER", "RIGHT_TAKER", "OPERATOR", "TRANSFER_PROXY", "LAZY_TRANSFER_PROXY"}
ByteStrings ==
  {"NAME", "SYMBOL", "BASE_URI", "CONTRACT_URI", "MINT_URI", "TRANSFER_URI",
   "MAKE_DATA", "TAKE_DATA", "DATA", "LEFT_SIGNATURE", "RIGHT_SIGNATURE"}
Lists == {"OPERATORS", "CREATORS", "LAST_CREATOR", "ROYALTIES", "SIGNATURES"}

(* What is shown of a method before anything is known of it. *)
NothingKnown ==
  [MINT_AND_TRANSFER |-> [ID |-> 0, BENEFICIARY |-> 0, CREATORS |-> <<>>, ROYALTIES |-> 0],
   TRANSFER_FROM_OR_MINT |->
     [ID |-> 0, FROM |-> 0, RECIPIENT |-> 0, LAST_CREATOR |-> 0, ROYALTIES |-> 0],
   CANCEL |-> [MAKER |-> 0, TAKER |-> 0],
   MATCH_ORDERS |->
     [LEFT_MAKER |-> 0, LEFT_TAKER |-> 0, RIGHT_MAKER |-> 0, RIGHT_TAKER |-> 0],
   SET_APPROVED_FOR_ALL |-> [OPERATOR |-> 0, APPROVED |-> 0],
   CREATE_TOKEN |-> [NAME |-> no_text, SYMBOL |-> no_text, OPERATORS |-> <<>>],
   ERC721_RARIBLE_INIT |->
     [NAME |-> no_text, SYMBOL |-> no_text, TRANSFER_PROXY |-> 0, LAZY_TRANSFER_PROXY |-> 0]]

-----------------------------------------------------------------------------
field == Layout[selectorIndex][pos]

FirstPart(f) ==
  IF f \in ByteStrings THEN "length" ELSE IF f \in Lists THEN "quantity" ELSE "static"

(* Words that hold n bytes, the last one filled up with zeros. *)
WordsOf(n) == (n + 31) \div 32

(* The byte string being sent is one of the SIGNATURES list. *)
InSignatures == qty > 0

Tell(value) ==
  truth' = IF field \in DOMAIN truth THEN [truth EXCEPT ![field] = value] ELSE truth

StartCalldata(sel) ==
  /\ pos = 1 /\ part = "static"
  /\ len = 0 /\ qty = 0 /\ sent = 0 /\ done = 0
  /\ truth = NothingKnown[sel]

(* The calldata of another transaction. *)
RestartCalldata(sel) ==
  /\ pos' = 1 /\ part' = "static"
  /\ len' = 0 /\ qty' = 0 /\ sent' = 0 /\ done' = 0
  /\ truth' = NothingKnown[sel]

NextField ==
  /\ pos' = pos + 1
  /\ part' = IF pos = Len(Layout[selectorIndex]) THEN "end"
             ELSE FirstPart(Layout[selectorIndex][pos + 1])
  /\ len' = 0 /\ qty' = 0 /\ sent' = 0 /\ done' = 0

EndOfString ==
  IF InSignatures /\ done + 1 < qty
  THEN /\ part' = "length" /\ len' = 0 /\ sent' = 0 /\ done' = done + 1
       /\ UNCHANGED <<pos, qty>>
  ELSE NextField

EndOfElement ==
  IF sent + 1 < qty
  THEN /\ sent' = sent + 1
       /\ part' = IF field = "SIGNATURES" THEN "offset" ELSE "first"
       /\ UNCHANGED <<pos, len, qty, done>>
  ELSE IF field = "SIGNATURES"
  THEN part' = "length" /\ sent' = 0 /\ UNCHANGED <<pos, len, qty, done>>
  ELSE NextField

StaticWord(w) ==
  /\ part = "static"
  /\ w \in IF field \in AddressFields THEN Addresses
           ELSE IF field = "APPROVED" THEN {0, 1} ELSE Values
  /\ Tell(w)
  /\ NextField

LengthWord(w) ==
  /\ part = "length" /\ w \in Lengths
  /\ \/ w = 0 /\ field \in MayBeEmpty /\ EndOfString
     \/ w > 0 /\ part' = "chunk" /\ len' = w /\ UNCHANGED <<pos, qty, sent, done>>
  /\ UNCHANGED truth

(* A text is shown as the bytes of it the first word holds. *)
ChunkWord(w) ==
  /\ part = "chunk" /\ w \in Values
  /\ IF sent = 0 THEN Tell(text(IF len > 32 THEN 32 ELSE len, w)) ELSE UNCHANGED truth
  /\ IF sent + 1 < WordsOf(len)
     THEN sent' = sent + 1 /\ UNCHANGED <<pos, part, len, qty, done>>
     ELSE EndOfString

QuantityWord(w) ==
  /\ part = "quantity" /\ w \in Quantities
  /\ \/ w = 0 /\ NextField
     \/ /\ w > 0
        /\ part' = IF field = "SIGNATURES" THEN "offset" ELSE "first"
        /\ qty' = w /\ UNCHANGED <<pos, len, sent, done>>
  /\ UNCHANGED truth

OffsetWord(w) == part = "offset" /\ w \in Values /\ EndOfElement /\ UNCHANGED truth

(* An operator is one word; a creator or a royalty is an address and a     *)
(* value.  Of a list the last operator, creator or royalty value is shown. *)
FirstWord(w) ==
  /\ part = "first" /\ w \in Addresses
  /\ IF field # "ROYALTIES" /\ sent + 1 = qty
     THEN Tell(IF field = "LAST_CREATOR" THEN w ELSE <<w>>)
     ELSE UNCHANGED truth
  /\ IF field = "OPERATORS" THEN EndOfElement
     ELSE part' = "second" /\ UNCHANGED <<pos, len, qty, sent, done>>

SecondWord(w) ==
  /\ part = "second" /\ w \in Values
  /\ IF field = "ROYALTIES" /\ sent + 1 = qty THEN Tell(w) ELSE UNCHANGED truth
  /\ EndOfElement

(* A word after the end of the calldata the method takes. *)
SurplusWord(w) == part = "end" /\ w \in Trailing /\ UNCHANGED calldataVars

EncodeWord(w) ==
  \/ StaticWord(w) \/ LengthWord(w) \/ ChunkWord(w) \/ QuantityWord(w)
  \/ OffsetWord(w) \/ FirstWord(w) \/ SecondWord(w) \/ SurplusWord(w)
=============================================================================
