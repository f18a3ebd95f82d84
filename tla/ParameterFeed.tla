--------------------------- MODULE ParameterFeed ---------------------------
(***************************************************************************)
(* A transaction fed to the plugin: the encoder of AbiCalldata emits the   *)
(* words of a transaction, handle_provide_parameter takes each as it       *)
(* comes, and the Ethereum app stops at the first one it refuses.  The     *)
(* plugin sees no offset and no total length: it knows where it is only by *)
(* counting, and these are the properties of that counting.                *)
(***************************************************************************)
EXTENDS ProvideParameter, AbiCalldata

CONSTANT Selectors  \* the methods whose transactions are fed
ASSUME SelectorsAssumption == Selectors \subseteq SelectorNames

VARIABLE refusable  \* history: the last word was one the plugin has to refuse

vars == <<contextVars, calldataVars, refusable>>

Init ==
  /\ selectorIndex \in Selectors
  /\ next_param = first_param[selectorIndex] /\ sub_param = "BODY_OFFSET"
  /\ counter = 0 /\ max_counter = 0
  /\ body = zero_body[selectorIndex]
  /\ result = "OK"
  /\ StartCalldata(selectorIndex)
  /\ refusable = FALSE

(* The words the plugin has to refuse: a count that its uint16_t cannot    *)
(* hold, a last royalty it cannot hold or (mint_and_transfer only) above   *)
(* 100%, and a word beyond the end.                                        *)
MaxRoyalty ==
  IF selectorIndex = "MINT_AND_TRANSFER" THEN ROYALTY_MAX_VALUE ELSE U16 - 1
MustRefuse(w) ==
  \/ part = "end"
  \/ part \in {"length", "quantity"} /\ w >= U16
  \/ part = "second" /\ field = "ROYALTIES" /\ sent + 1 = qty /\ w > MaxRoyalty

WordsToSend == {0, 1} \cup Addresses \cup Values \cup Lengths \cup Quantities \cup Trailing

Feed ==
  /\ result = "OK"
  /\ \E w \in WordsToSend :
       /\ EncodeWord(w)
       /\ handle_provide_parameter(w)
       /\ refusable' = MustRefuse(w)

Next == Feed

(* The app hands over every word of the calldata it has until one is       *)
(* refused, so a word that can be fed is fed.                              *)
Spec == Init /\ [][Next]_vars /\ WF_vars(Feed)

-----------------------------------------------------------------------------
(* The parameter the parser takes the next word for, when it is in step.   *)

Renamed ==
  [FROM |-> "BENEFICIARY", RECIPIENT |-> "SELLER", OPERATOR |-> "TO",
   APPROVED |-> "IS_APPROVED", TRANSFER_PROXY |-> "TRANSFER_PROXY_ADDRESS",
   LAZY_TRANSFER_PROXY |-> "LAZY_TRANSFER_PROXY_ADDRESS",
   LEFT_MAKER |-> "MAKER", LEFT_TAKER |-> "TAKER",
   RIGHT_MAKER |-> "MAKER", RIGHT_TAKER |-> "TAKER"]
AssetPart ==
  [MAKE_TYPE_OFFSET |-> "ASSET_TYPE_OFFSET", MAKE_VALUE |-> "ASSET_VALUE",
   MAKE_CLASS |-> "ASSET_CLASS", MAKE_DATA_OFFSET |-> "ASSET_DATA_OFFSET",
   TAKE_TYPE_OFFSET |-> "ASSET_TYPE_OFFSET", TAKE_VALUE |-> "ASSET_VALUE",
   TAKE_CLASS |-> "ASSET_CLASS", TAKE_DATA_OFFSET |-> "ASSET_DATA_OFFSET"]
MakeAsset == {"MAKE_TYPE_OFFSET", "MAKE_VALUE", "MAKE_CLASS", "MAKE_DATA_OFFSET", "MAKE_DATA"}
TakeAsset == {"TAKE_TYPE_OFFSET", "TAKE_VALUE", "TAKE_CLASS", "TAKE_DATA_OFFSET", "TAKE_DATA"}

LengthParam ==
  [NAME |-> "NAME_LENGTH", SYMBOL |-> "SYMBOL_LENGTH", BASE_URI |-> "BASE_URI_LENGTH",
   CONTRACT_URI |-> "CONTRACT_URI_LENGTH", MINT_URI |-> "URI_CHUNK_OFFSET",
   TRANSFER_URI |-> "URI_CHUNK_OFFSET", DATA |-> "DATA_LENGTH",
   LEFT_SIGNATURE |-> "SIGNATURE_LENGTH", RIGHT_SIGNATURE |-> "SIGNATURE_LENGTH",
   SIGNATURES |-> "SIGNATURE_LENGTH"]
ChunkParam ==
  [NAME |-> "NAME", SYMBOL |-> "SYMBOL", BASE_URI |-> "BASE_URI",
   CONTRACT_URI |-> "CONTRACT_URI", MINT_URI |-> "WAIT_UNTIL_CREATORS",
   TRANSFER_URI |-> "WAIT_UNTIL_CREATORS", DATA |-> "DATA",
   LEFT_SIGNATURE |-> "SIGNATURE", RIGHT_SIGNATURE |-> "SIGNATURE",
   SIGNATURES |-> "SIGNATURE"]
QuantityParam ==
  [OPERATORS |-> "OPERATORS_QTY", CREATORS |-> "CREATORS_QTY",
   LAST_CREATOR |-> "CREATORS_QTY", ROYALTIES |-> "ROYALTIES_QTY",
   SIGNATURES |-> "SIGNATURES_QTY"]
FirstParam ==
  [OPERATORS |-> "OPERATORS_ADDRESS", CREATORS |-> "CREATORS_ADDRESS",
   LAST_CREATOR |-> "CREATORS_ADDRESS", ROYALTIES |-> "ROYALTIES_ADDRESS"]
SecondParam ==
  [CREATORS |-> "CREATORS_VALUE", LAST_CREATOR |-> "CREATORS_VALUE",
   ROYALTIES |-> "ROYALTIES_VALUE"]

(* For part p of field f. *)
CalledForAs(p, f) ==
  CASE p = "end" -> "UNEXPECTED_PARAMETER"
    [] p # "end" /\ f \in MakeAsset -> "MAKE_ASSET"
    [] p # "end" /\ f \in TakeAsset -> "TAKE_ASSET"
    [] p = "static" /\ f \notin MakeAsset \cup TakeAsset ->
         IF f \in DOMAIN Renamed THEN Renamed[f] ELSE f
    [] p = "length" /\ f \notin MakeAsset \cup TakeAsset -> LengthParam[f]
    [] p = "chunk" /\ f \notin MakeAsset \cup TakeAsset -> ChunkParam[f]
    [] p = "quantity" -> QuantityParam[f]
    [] p = "offset" -> "SIGNATURE_OFFSET"
    [] p = "first" -> FirstParam[f]
    [] p = "second" -> SecondParam[f]
CalledFor == CalledForAs(part, field)

SubPartCalledFor ==
  CASE part = "static" -> AssetPart[field]
    [] part = "length" -> "ASSET_DATA_LENGTH"
    [] part = "chunk" -> "ASSET_DATA"

(* A match has four offsets, then the fields and the signature of each of  *)
(* the two orders.                                                         *)
SideCalledFor ==
  LET fields == Len(Order("MAKER", "TAKER")) + 1
  IN IF pos <= 4 THEN NO_ORDER
     ELSE IF pos <= 4 + fields THEN LEFT_ORDER
     ELSE IF pos <= 4 + 2 * fields THEN RIGHT_ORDER ELSE ERROR_ORDER

-----------------------------------------------------------------------------
(* The context stays within its C types, and a text within its buffer; the *)
(* encoder stays within the calldata.                                      *)
TypeOK ==
  /\ ContextTypeOK
  /\ selectorIndex \in Selectors /\ result \in {"OK", "ERROR"}
  /\ pos \in Nat /\ len \in Nat /\ qty \in Nat /\ sent \in Nat /\ done \in Nat
  /\ part \in {"static", "length", "chunk", "quantity", "first", "second", "offset", "end"}
  /\ refusable \in BOOLEAN

(* The parser takes every word for what it is: after any calldata, of any  *)
(* lengths, the parameter next_param (and inside an asset sub_param, and   *)
(* of a match order_side) names is the one the encoder sends next.         *)
InStep ==
  result = "OK" =>
    /\ next_param = CalledFor
    /\ next_param \in {"MAKE_ASSET", "TAKE_ASSET"} => sub_param = SubPartCalledFor
    /\ selectorIndex = "MATCH_ORDERS" => body.order_side = SideCalledFor

(* The counters agree with the calldata: what a counter of the context     *)
(* holds is the number of words, elements or signatures still to come.     *)
WordsLeft == WordsOf(len) - sent
CountdownExact ==
  result = "OK" =>
    /\ part = "chunk" /\ field \notin {"MINT_URI", "TRANSFER_URI", "SIGNATURES"} =>
         counter = WordsLeft
    /\ part = "chunk" /\ field \in {"NAME", "SYMBOL"} => max_counter = WordsOf(len)
    /\ part = "first" /\ field = "OPERATORS" => counter = qty - sent
    /\ part = "chunk" /\ field \in {"MINT_URI", "TRANSFER_URI"} => body.uri_length = WordsLeft
    /\ part = "chunk" /\ field = "SIGNATURES" => body.signature_length = WordsLeft
    /\ part \in {"first", "second"} /\ field \in {"CREATORS", "LAST_CREATOR"} =>
         body.creators_qty = qty - sent
    /\ part \in {"first", "second"} /\ field = "ROYALTIES" => body.royalties_qty = qty - sent
    /\ part = "offset" => body.signatures_counter = qty - sent
    /\ qty > 0 /\ field = "SIGNATURES" => body.signatures_qty = qty - done

(* What the context would show of the method being parsed. *)
Found(found, value) == IF found THEN <<value>> ELSE <<>>
Shown ==
  CASE selectorIndex = "MINT_AND_TRANSFER" ->
         [ID |-> body.id, BENEFICIARY |-> body.beneficiary,
          CREATORS |-> Found(body.creator_found, body.creator), ROYALTIES |-> body.royalties]
    [] selectorIndex = "TRANSFER_FROM_OR_MINT" ->
         [ID |-> body.id, FROM |-> body.seller, RECIPIENT |-> body.beneficiary,
          LAST_CREATOR |-> body.creator, ROYALTIES |-> body.royalties]
    [] selectorIndex = "CANCEL" -> [MAKER |-> body.maker, TAKER |-> body.taker]
    [] selectorIndex = "MATCH_ORDERS" ->
         [LEFT_MAKER |-> body.left_maker, LEFT_TAKER |-> body.left_taker,
          RIGHT_MAKER |-> body.right_maker, RIGHT_TAKER |-> body.right_taker]
    [] selectorIndex = "SET_APPROVED_FOR_ALL" ->
         [OPERATOR |-> body.to, APPROVED |-> body.isApproved]
    [] selectorIndex = "CREATE_TOKEN" ->
         [NAME |-> body.name_text, SYMBOL |-> body.symbol_text,
          OPERATORS |-> Found(body.operator_found, body.operator)]
    [] selectorIndex = "ERC721_RARIBLE_INIT" ->
         [NAME |-> body.name_text, SYMBOL |-> body.symbol_text,
          TRANSFER_PROXY |-> body.transfer_proxy,
          LAZY_TRANSFER_PROXY |-> body.lazy_transfer_proxy]

(* At every moment of a transaction the plugin has not refused, the fields *)
(* kept for the screens are the fields of the calldata, all of those sent  *)
(* so far and nothing else: no word is shown as a field it is not.         *)
ShownMatchesCalldata == result = "OK" => Shown = truth

(* Of a mint or a transfer nothing that comes from its signatures on is    *)
(* shown, whatever comes: the parser does not test for an empty signature  *)
(* (SIGNATURE_LENGTH always goes on to SIGNATURE) and loses its place at   *)
(* one, but never gets back to a parameter that is shown.                  *)
MintMethods == {"MINT_AND_TRANSFER", "TRANSFER_FROM_OR_MINT"}
SignatureParams ==
  {"SIGNATURES_QTY", "SIGNATURE_OFFSET", "SIGNATURE_LENGTH", "SIGNATURE",
   "UNEXPECTED_PARAMETER"}
AmongSignatures == selectorIndex \in MintMethods /\ next_param \in SignatureParams
SignaturesShowNothing == [][AmongSignatures => AmongSignatures' /\ Shown' = Shown]_vars

(* Of a match the same holds from the length of the right order's          *)
(* signature on, which is the end of the calldata: an empty one is waited  *)
(* for, so that one word too many is taken, but for the end of the order   *)
(* and of nothing that is shown.                                           *)
AmongLastSignature ==
  /\ selectorIndex = "MATCH_ORDERS"
  /\ \/ body.order_side = RIGHT_ORDER /\ next_param \in {"SIGNATURE_LENGTH", "SIGNATURE"}
     \/ body.order_side = ERROR_ORDER /\ next_param = "UNEXPECTED_PARAMETER"
LastSignatureShowsNothing ==
  [][AmongLastSignature => AmongLastSignature' /\ Shown' = Shown]_vars

(* The plugin refuses the words it has to, and no other: a transaction it  *)
(* supports is never blocked by where its lists and strings end.           *)
RefusedExactly == result = "ERROR" <=> refusable

(* A transaction without a word to refuse is parsed to its end. *)
ParsedOrRefused == <>(result = "ERROR" \/ next_param = "UNEXPECTED_PARAMETER")
=============================================================================
