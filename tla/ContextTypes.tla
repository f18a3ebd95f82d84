---------------------------- MODULE ContextTypes ----------------------------
(***************************************************************************)
(* Proof that the parsers keep the context within its C types, whatever    *)
(* words they are given: every step of handle_provide_parameter preserves  *)
(* ContextTypeOK.                                                          *)
(***************************************************************************)
EXTENDS ProvideParameter, TLAPS

(* The bounds, as facts: the provers do without their definitions. *)
LEMMA Bounds == U16 = 65536 /\ U16 \in Nat /\ PARAMETER_LENGTH = 32
  BY SMT DEF U16, PARAMETER_LENGTH

LEMMA CountDef == \A n : n \in Count <=> n \in Nat /\ n < U16
<1>1. U16 \in Nat  BY Bounds
<1> QED BY <1>1, SMT DEF Count

(* The helpers stay within their types. *)
LEMMA CopyAddressType == ASSUME NEW w \in Nat PROVE copy_address(w) \in Address
<1>1. AddressModulus \in Nat /\ AddressModulus > 0
  BY AddressAssumption, Bounds, SMT
<1> QED BY <1>1, SMT DEF copy_address, Address

LEMMA CopyTextType ==
  ASSUME NEW w \in Nat, NEW n \in Count PROVE copy_text(n, w) \in Text
<1>1. (IF n < PARAMETER_LENGTH THEN n ELSE PARAMETER_LENGTH) \in 0..PARAMETER_LENGTH
  BY Bounds, CountDef, SMT
<1> QED BY <1>1, Zenon DEF copy_text, Text, text

(* get_counter rounds up to whole words, in a uint16_t. *)
LEMMA GetCounterRoundsUp ==
  ASSUME NEW n \in Nat PROVE get_counter(n) = (n + 31) \div 32
  BY SMT DEF get_counter, PARAMETER_LENGTH

LEMMA GetCounterType ==
  ASSUME NEW n \in Count
  PROVE get_counter(n) \in Count /\ (get_counter(n) = 0 <=> n = 0)
  BY GetCounterRoundsUp, Bounds, CountDef, SMT

LEMMA Minus1Type == ASSUME NEW n \in Count PROVE Minus1(n) \in Count
  BY Bounds, CountDef, SMT DEF Minus1

LEMMA DecrementType == ASSUME NEW n \in Count PROVE decrement_counter(n) \in Count
  BY Bounds, CountDef, SMT DEF decrement_counter

LEMMA FitsType == ASSUME NEW w \in Nat, FitsU16(w) PROVE w \in Count
  BY CountDef, SMT DEF FitsU16

LEMMA ParseCounterType ==
  ASSUME NEW w \in Nat, counter \in Count, parse_counter(w)
  PROVE counter' \in Count /\ result' \in {"OK", "ERROR"}
  BY GetCounterType, FitsType, Zenon DEF parse_counter

(* What handle_init_contract prepares is well typed. *)
LEMMA FreshContext ==
  ASSUME NEW sel \in SelectorNames
  PROVE  /\ first_param[sel] \in Parameters /\ "BODY_OFFSET" \in SubParameters /\ 0 \in Count
         /\ sel = "MINT_AND_TRANSFER" => zero_body[sel] \in mint_body
         /\ sel = "TRANSFER_FROM_OR_MINT" => zero_body[sel] \in transfer_body
         /\ sel = "CANCEL" => zero_body[sel] \in cancel_body
         /\ sel = "MATCH_ORDERS" => zero_body[sel] \in match_body
         /\ sel = "SET_APPROVED_FOR_ALL" => zero_body[sel] \in approval_body
         /\ sel = "CREATE_TOKEN" => zero_body[sel] \in create_body
         /\ sel = "ERC721_RARIBLE_INIT" => zero_body[sel] \in init_body
<1>1. 0 \in Count /\ 0 \in Address /\ no_text \in Text
  <2>1. AddressModulus \in Nat /\ AddressModulus > 0
    BY AddressAssumption, Bounds, SMT
  <2>2. 0 \in Count /\ 0 \in Address
    BY <2>1, Bounds, CountDef, SMT DEF Address
  <2>3. no_text \in Text
    BY SMT DEF no_text, text, Text, PARAMETER_LENGTH
  <2> QED BY <2>2, <2>3
<1>2. first_param[sel] \in Parameters
  <2>1. first_param[sel] \in {"BODY_OFFSET", "LEFT_ORDER_OFFSET", "TO", "NAME_OFFSET"}
    BY SMT DEF first_param, SelectorNames
  <2>2. {"BODY_OFFSET", "LEFT_ORDER_OFFSET", "TO", "NAME_OFFSET"} \subseteq Parameters
    BY SMT DEF Parameters, mint_params, mint_skips, match_head, create_token_head
  <2> QED BY <2>1, <2>2, Zenon
<1>3. "BODY_OFFSET" \in SubParameters
  BY Zenon DEF SubParameters
<1>4. sel = "MINT_AND_TRANSFER" => zero_body[sel] \in mint_body
  <2>1. zero_mint \in mint_body
    BY <1>1, SMT DEF zero_mint, mint_body
  <2> QED BY <2>1, SMT DEF zero_body
<1>5. sel = "TRANSFER_FROM_OR_MINT" => zero_body[sel] \in transfer_body
  <2>1. zero_transfer \in transfer_body
    BY <1>1, SMT DEF zero_transfer, transfer_body
  <2> QED BY <2>1, SMT DEF zero_body
<1>6. sel = "CANCEL" => zero_body[sel] \in cancel_body
  <2>1. zero_cancel \in cancel_body
    BY <1>1, SMT DEF zero_cancel, cancel_body, OrderSides
  <2> QED BY <2>1, SMT DEF zero_body
<1>7. sel = "MATCH_ORDERS" => zero_body[sel] \in match_body
  <2>1. zero_match \in match_body
    BY <1>1, SMT DEF zero_match, match_body, OrderSides
  <2> QED BY <2>1, SMT DEF zero_body
<1>8. sel = "SET_APPROVED_FOR_ALL" => zero_body[sel] \in approval_body
  <2>1. zero_approval \in approval_body
    BY <1>1, SMT DEF zero_approval, approval_body
  <2> QED BY <2>1, SMT DEF zero_body
<1>9. sel = "CREATE_TOKEN" => zero_body[sel] \in create_body
  <2>1. zero_create \in create_body
    BY <1>1, SMT DEF zero_create, create_body
  <2> QED BY <2>1, SMT DEF zero_body
<1>10. sel = "ERC721_RARIBLE_INIT" => zero_body[sel] \in init_body
  <2>1. zero_init \in init_body
    BY <1>1, SMT DEF zero_init, init_body
  <2> QED BY <2>1, SMT DEF zero_body
<1> QED BY <1>1, <1>2, <1>3, <1>4, <1>5, <1>6, <1>7, <1>8, <1>9, <1>10, Zenon

(* What is shown of a handler: B is the type of the union's member.        *)
TypedAs(B) ==
  /\ next_param \in Parameters /\ sub_param \in SubParameters
  /\ counter \in Count /\ max_counter \in Count /\ body \in B
KeepsType(B) ==
  TypedAs(B)' /\ selectorIndex' = selectorIndex /\ result' \in {"OK", "ERROR"}

LEMMA RefuseType == ASSUME NEW B, TypedAs(B), Refuse PROVE KeepsType(B)
  BY Zenon DEF TypedAs, KeepsType, Refuse, context

LEMMA AcceptType ==
  ASSUME NEW B, TypedAs(B), next_param' \in Parameters, body' \in B, Accept
  PROVE KeepsType(B)
  BY Zenon DEF TypedAs, KeepsType, Accept

LEMMA SkipType ==
  ASSUME NEW B, TypedAs(B), NEW T, \A p \in DOMAIN T : T[p] \in Parameters, Skip(T)
  PROVE KeepsType(B)
  BY AcceptType, Zenon DEF Skip, TypedAs

LEMMA UnsupportedType ==
  ASSUME NEW B, TypedAs(B), NEW P, Unsupported(P) PROVE KeepsType(B)
  BY RefuseType, Zenon DEF Unsupported

-----------------------------------------------------------------------------
(* The methods with names and URIs. *)

LEMMA LengthUpdate ==
  ASSUME NEW B \in {create_body, init_body}, body \in B, NEW v \in Count,
         NEW len \in {"name_len", "symbol_len"}
  PROVE [body EXCEPT ![len] = v] \in B
<1>1. CASE B = create_body /\ len = "name_len"
  BY <1>1, SMT DEF create_body
<1>2. CASE B = create_body /\ len = "symbol_len"
  BY <1>2, SMT DEF create_body
<1>3. CASE B = init_body /\ len = "name_len"
  BY <1>3, SMT DEF init_body
<1>4. CASE B = init_body /\ len = "symbol_len"
  BY <1>4, SMT DEF init_body
<1> QED BY <1>1, <1>2, <1>3, <1>4, Zenon

LEMMA TextLengthType ==
  ASSUME NEW B \in {create_body, init_body}, TypedAs(B), NEW w \in Nat,
         NEW at, NEW len \in {"name_len", "symbol_len"},
         NEW chunks \in Parameters, NEW after \in Parameters,
         text_length(at, len, chunks, after, w)
  PROVE KeepsType(B)
<1>1. CASE ~FitsU16(w) /\ Refuse
  BY <1>1, RefuseType, Zenon
<1>2. CASE /\ FitsU16(w) /\ body' = [body EXCEPT ![len] = w]
           /\ counter' = get_counter(w) /\ max_counter' = get_counter(w)
           /\ next_param' = chunks /\ result' = "OK"
           /\ UNCHANGED <<selectorIndex, sub_param>>
  <2>1. w \in Count /\ get_counter(w) \in Count
    BY <1>2, FitsType, GetCounterType, Zenon
  <2> QED BY <1>2, <2>1, LengthUpdate, Zenon DEF TypedAs, KeepsType
<1>3. CASE body' = [body EXCEPT ![len] = 0] /\ next_param' = after /\ Accept
  <2>1. 0 \in Count
    BY Bounds, CountDef, SMT
  <2> QED BY <1>3, <2>1, LengthUpdate, AcceptType, Zenon DEF TypedAs
<1> QED BY <1>1, <1>2, <1>3, Zenon DEF text_length

LEMMA TextUpdate ==
  ASSUME NEW B \in {create_body, init_body}, body \in B, NEW w \in Nat,
         NEW len \in {"name_len", "symbol_len"}, NEW buffer \in {"name_text", "symbol_text"}
  PROVE [body EXCEPT ![buffer] = copy_text(body[len], w)] \in B
<1>1. body[len] \in Count
  <2>1. CASE B = create_body
    BY <2>1, SMT DEF create_body
  <2>2. CASE B = init_body
    BY <2>2, SMT DEF init_body
  <2> QED BY <2>1, <2>2, Zenon
<1>2. copy_text(body[len], w) \in Text
  BY <1>1, CopyTextType, Zenon
<1>3. CASE B = create_body /\ buffer = "name_text"
  BY <1>2, <1>3, SMT DEF create_body
<1>4. CASE B = create_body /\ buffer = "symbol_text"
  BY <1>2, <1>4, SMT DEF create_body
<1>5. CASE B = init_body /\ buffer = "name_text"
  BY <1>2, <1>5, SMT DEF init_body
<1>6. CASE B = init_body /\ buffer = "symbol_text"
  BY <1>2, <1>6, SMT DEF init_body
<1> QED BY <1>3, <1>4, <1>5, <1>6, Zenon

LEMMA TextChunkType ==
  ASSUME NEW B \in {create_body, init_body}, TypedAs(B), NEW w \in Nat,
         NEW at, NEW len \in {"name_len", "symbol_len"},
         NEW buffer \in {"name_text", "symbol_text"}, NEW after \in Parameters,
         text_chunk(at, len, buffer, after, w)
  PROVE KeepsType(B)
<1>1. body' \in B
  BY TextUpdate, Zenon DEF text_chunk, TypedAs
<1>2. counter' \in Count
  BY DecrementType, Zenon DEF text_chunk, TypedAs
<1>3. next_param' \in Parameters
  BY Zenon DEF text_chunk, TypedAs
<1> QED BY <1>1, <1>2, <1>3, Zenon DEF text_chunk, TypedAs, KeepsType

LEMMA UriLengthType ==
  ASSUME NEW B, TypedAs(B), NEW w \in Nat, NEW at, NEW chunks \in Parameters,
         NEW after \in Parameters, uri_length(at, chunks, after, w)
  PROVE KeepsType(B)
<1>1. counter' \in Count /\ result' \in {"OK", "ERROR"}
  BY ParseCounterType, Zenon DEF uri_length, TypedAs
<1>2. next_param' \in Parameters
  BY Zenon DEF uri_length
<1> QED BY <1>1, <1>2, Zenon DEF uri_length, TypedAs, KeepsType

LEMMA UriChunkType ==
  ASSUME NEW B, TypedAs(B), NEW at, NEW after \in Parameters, uri_chunk(at, after)
  PROVE KeepsType(B)
<1>1. counter' \in Count
  BY DecrementType, Zenon DEF uri_chunk, TypedAs
<1>2. next_param' \in Parameters
  BY Zenon DEF uri_chunk, TypedAs
<1> QED BY <1>1, <1>2, Zenon DEF uri_chunk, TypedAs, KeepsType

(* The parameters of the cases are parameters of the enum. *)
LEMMA TokenParameters ==
  /\ name_and_uri_params \subseteq Parameters
  /\ {"OPERATORS_QTY", "OPERATORS_ADDRESS", "TRANSFER_PROXY_ADDRESS",
      "LAZY_TRANSFER_PROXY_ADDRESS", "UNEXPECTED_PARAMETER"} \subseteq Parameters
  /\ \A p \in DOMAIN create_token_head : create_token_head[p] \in Parameters
  /\ \A p \in DOMAIN rarible_init_head : rarible_init_head[p] \in Parameters
<1>1. /\ DOMAIN create_token_head \subseteq Parameters
      /\ name_and_uri_params \subseteq Parameters
      /\ {"OPERATORS_QTY", "OPERATORS_ADDRESS", "TRANSFER_PROXY_ADDRESS",
          "LAZY_TRANSFER_PROXY_ADDRESS", "UNEXPECTED_PARAMETER"} \subseteq Parameters
  BY Zenon DEF Parameters
<1>2. \A p \in DOMAIN create_token_head :
        create_token_head[p] \in DOMAIN create_token_head \cup name_and_uri_params
  BY SMT DEF create_token_head, name_and_uri_params
<1>3. \A p \in DOMAIN rarible_init_head :
        rarible_init_head[p] \in DOMAIN create_token_head \cup {"TRANSFER_PROXY_ADDRESS"}
  BY SMT DEF create_token_head, rarible_init_head
<1> QED BY <1>1, <1>2, <1>3, Zenon

LEMMA NamesAndUrisType ==
  ASSUME NEW B \in {create_body, init_body}, TypedAs(B), NEW w \in Nat,
         NEW end \in Parameters, names_and_uris(w, end)
  PROVE KeepsType(B)
<1>1. name_and_uri_params \subseteq Parameters
  BY TokenParameters, Zenon
<1>2. {"NAME", "SYMBOL", "SYMBOL_LENGTH", "BASE_URI", "BASE_URI_LENGTH", "CONTRACT_URI",
       "CONTRACT_URI_LENGTH"} \subseteq Parameters
  BY <1>1, Zenon DEF name_and_uri_params
<1>3. CASE \/ text_length("NAME_LENGTH", "name_len", "NAME", "SYMBOL_LENGTH", w)
           \/ text_length("SYMBOL_LENGTH", "symbol_len", "SYMBOL", "BASE_URI_LENGTH", w)
  BY <1>2, <1>3, TextLengthType, Zenon
<1>4. CASE \/ text_chunk("NAME", "name_len", "name_text", "SYMBOL_LENGTH", w)
           \/ text_chunk("SYMBOL", "symbol_len", "symbol_text", "BASE_URI_LENGTH", w)
  BY <1>2, <1>4, TextChunkType, Zenon
<1>5. CASE \/ uri_length("BASE_URI_LENGTH", "BASE_URI", "CONTRACT_URI_LENGTH", w)
           \/ uri_length("CONTRACT_URI_LENGTH", "CONTRACT_URI", end, w)
  BY <1>2, <1>5, UriLengthType, Zenon
<1>6. CASE uri_chunk("BASE_URI", "CONTRACT_URI_LENGTH") \/ uri_chunk("CONTRACT_URI", end)
  BY <1>2, <1>6, UriChunkType, Zenon
<1> QED BY <1>3, <1>4, <1>5, <1>6, Zenon DEF names_and_uris

LEMMA CreateTokenType ==
  ASSUME TypedAs(create_body), NEW w \in Nat, handle_create_token(w)
  PROVE KeepsType(create_body)
<1>1. CASE Skip(create_token_head)
  BY <1>1, SkipType, TokenParameters, Zenon
<1>2. CASE names_and_uris(w, "OPERATORS_QTY")
  BY <1>2, NamesAndUrisType, TokenParameters, Zenon
<1>3. CASE operators_qty(w)
  <2>1. CASE ~FitsU16(w) /\ Refuse
    BY <2>1, RefuseType, Zenon
  <2>2. CASE FitsU16(w) /\ counter' = w
    BY <1>3, <2>2, FitsType, TokenParameters, Zenon
    DEF operators_qty, TypedAs, KeepsType, Refuse
  <2> QED BY <1>3, <2>1, <2>2, Zenon DEF operators_qty
<1>4. CASE operators_address(w)
  <2> DEFINE a == copy_address(w)
  <2>1. [body EXCEPT !.operator_found = TRUE, !.operator = a] \in create_body
    <3>1. a \in Address /\ body \in create_body
      BY CopyAddressType, Zenon DEF TypedAs
    <3> HIDE DEF a
    <3>2. [body EXCEPT !.operator_found = TRUE] \in create_body
      BY <3>1, Zenon DEF create_body
    <3>3. \A b \in create_body : [b EXCEPT !.operator = a] \in create_body
      BY <3>1, SMT DEF create_body
    <3> QED BY <3>2, <3>3, Zenon
  <2>2. counter' \in Count /\ body' \in create_body /\ next_param' \in Parameters
    BY <1>4, <2>1, DecrementType, TokenParameters, Zenon DEF operators_address, TypedAs
  <2> QED BY <1>4, <2>2, Zenon DEF operators_address, TypedAs, KeepsType
<1>5. CASE Unsupported(DOMAIN create_token_head \cup name_and_uri_params
                         \cup {"OPERATORS_QTY", "OPERATORS_ADDRESS"})
  BY <1>5, UnsupportedType, Zenon
<1> QED BY <1>1, <1>2, <1>3, <1>4, <1>5, Zenon DEF handle_create_token

LEMMA RaribleInitType ==
  ASSUME TypedAs(init_body), NEW w \in Nat, handle_erc721_rarible_init(w)
  PROVE KeepsType(init_body)
<1>1. CASE Skip(rarible_init_head)
  BY <1>1, SkipType, TokenParameters, Zenon
<1>2. CASE TakeAddress("TRANSFER_PROXY_ADDRESS", "transfer_proxy",
                       "LAZY_TRANSFER_PROXY_ADDRESS", w)
  <2>1. [body EXCEPT !.transfer_proxy = copy_address(w)] \in init_body
    BY CopyAddressType, SMT DEF TypedAs, init_body
  <2> QED BY <1>2, <2>1, AcceptType, TokenParameters, Zenon DEF TakeAddress
<1>3. CASE TakeAddress("LAZY_TRANSFER_PROXY_ADDRESS", "lazy_transfer_proxy", "NAME_LENGTH", w)
  <2>1. [body EXCEPT !.lazy_transfer_proxy = copy_address(w)] \in init_body
    BY CopyAddressType, SMT DEF TypedAs, init_body
  <2> QED BY <1>3, <2>1, AcceptType, TokenParameters, Zenon
      DEF TakeAddress, name_and_uri_params
<1>4. CASE names_and_uris(w, "UNEXPECTED_PARAMETER")
  BY <1>4, NamesAndUrisType, TokenParameters, Zenon
<1>5. CASE Unsupported(DOMAIN rarible_init_head \cup name_and_uri_params
                         \cup {"TRANSFER_PROXY_ADDRESS", "LAZY_TRANSFER_PROXY_ADDRESS"})
  BY <1>5, UnsupportedType, Zenon
<1> QED BY <1>1, <1>2, <1>3, <1>4, <1>5, Zenon DEF handle_erc721_rarible_init

-----------------------------------------------------------------------------
(* The methods with creators, royalties and signatures. *)

MintBodies == {mint_body, transfer_body}
Counts == {"royalties", "uri_length", "creators_qty", "royalties_qty", "signatures_qty",
           "signatures_counter", "signature_length"}

LEMMA CountUpdate ==
  ASSUME NEW B \in MintBodies, NEW b \in B, NEW f \in Counts, NEW v \in Count
  PROVE [b EXCEPT ![f] = v] \in B /\ b[f] \in Count
<1>1. CASE B = mint_body
  BY <1>1, SMT DEF mint_body, Counts
<1>2. CASE B = transfer_body
  BY <1>2, SMT DEF transfer_body, Counts
<1> QED BY <1>1, <1>2, Zenon DEF MintBodies

LEMMA MintParameters ==
  /\ mint_params \cup {"SELLER", "UNEXPECTED_PARAMETER"} \subseteq Parameters
  /\ \A p \in DOMAIN mint_skips : mint_skips[p] \in Parameters
<1>1. mint_params \cup {"SELLER", "UNEXPECTED_PARAMETER"} \subseteq Parameters
  BY Zenon DEF Parameters
<1>2. \A p \in DOMAIN mint_skips : mint_skips[p] \in mint_params
  BY SMT DEF mint_skips, mint_params
<1> QED BY <1>1, <1>2, Zenon

LEMMA MovesType ==
  ASSUME NEW B, TypedAs(B), NEW p \in mint_params \cup {"SELLER", "UNEXPECTED_PARAMETER"},
         body' \in B, Moves(p)
  PROVE KeepsType(B)
  BY AcceptType, MintParameters, Zenon DEF Moves

LEMMA UriWordsType ==
  ASSUME NEW B \in MintBodies, TypedAs(B), NEW w \in Nat,
         NEW ifEmpty \in mint_params, uri_words(w, ifEmpty)
  PROVE KeepsType(B)
<1>1. CASE ~FitsU16(w) /\ Refuse
  BY <1>1, RefuseType, Zenon
<1>2. CASE /\ FitsU16(w) /\ body' = [body EXCEPT !.uri_length = get_counter(w)]
           /\ Moves(IF get_counter(w) = 0 THEN ifEmpty ELSE "WAIT_UNTIL_CREATORS")
  <2>1. get_counter(w) \in Count
    BY <1>2, FitsType, GetCounterType, Zenon
  <2>2. body' \in B
    BY <1>2, <2>1, CountUpdate, Zenon DEF Counts, TypedAs
  <2> QED BY <1>2, <2>2, MovesType, Zenon DEF mint_params
<1> QED BY <1>1, <1>2, Zenon DEF uri_words

LEMMA ReadQuantityType ==
  ASSUME NEW B \in MintBodies, TypedAs(B), NEW w \in Nat, NEW at, NEW qty \in Counts,
         NEW element \in mint_params, NEW ifNone \in mint_params,
         read_quantity(at, qty, element, ifNone, w)
  PROVE KeepsType(B)
<1>1. CASE ~FitsU16(w) /\ Refuse
  BY <1>1, RefuseType, Zenon
<1>2. CASE /\ FitsU16(w) /\ body' = [body EXCEPT ![qty] = w]
           /\ Moves(IF w = 0 THEN ifNone ELSE element)
  <2>1. body' \in B
    BY <1>2, FitsType, CountUpdate, Zenon DEF TypedAs
  <2> QED BY <1>2, <2>1, MovesType, Zenon
<1> QED BY <1>1, <1>2, Zenon DEF read_quantity

LEMMA ListsAndSignaturesType ==
  ASSUME NEW B \in MintBodies, TypedAs(B), NEW w \in Nat, lists_and_signatures(w)
  PROVE KeepsType(B)
<1>0. \A f \in Counts : Minus1(body[f]) \in Count
  BY CountUpdate, Minus1Type, Zenon DEF TypedAs
<1>1. CASE take_id(w)
  <2>1. CASE B = mint_body
    <3>1. body' \in B
      BY <1>1, <2>1, SMT DEF take_id, TypedAs, mint_body
    <3> QED BY <1>1, <3>1, MovesType, Zenon DEF take_id, mint_params, mint_skips
  <2>2. CASE B = transfer_body
    <3>1. body' \in B
      BY <1>1, <2>2, SMT DEF take_id, TypedAs, transfer_body
    <3> QED BY <1>1, <3>1, MovesType, Zenon DEF take_id, mint_params, mint_skips
  <2> QED BY <2>1, <2>2, Zenon DEF MintBodies
<1>2. CASE wait_until_creators
  <2>1. body' \in B
    BY <1>0, <1>2, CountUpdate, Zenon DEF wait_until_creators, TypedAs, Counts
  <2> QED BY <1>2, <2>1, MovesType, Zenon DEF wait_until_creators, mint_params
<1>3. CASE \/ read_quantity("CREATORS_QTY", "creators_qty", "CREATORS_ADDRESS",
                            "ROYALTIES_QTY", w)
           \/ read_quantity("ROYALTIES_QTY", "royalties_qty", "ROYALTIES_ADDRESS",
                            "SIGNATURES_QTY", w)
  <2>1. {"CREATORS_ADDRESS", "ROYALTIES_QTY", "ROYALTIES_ADDRESS", "SIGNATURES_QTY"}
          \subseteq mint_params
    BY SMT DEF mint_params, mint_skips
  <2> QED BY <1>3, <2>1, ReadQuantityType, Zenon DEF Counts
<1>4. CASE creators_value
  <2>1. body' \in B
    BY <1>0, <1>4, CountUpdate, Zenon DEF creators_value, TypedAs, Counts
  <2> QED BY <1>4, <2>1, MovesType, Zenon DEF creators_value, mint_params
<1>5. CASE signatures_qty(w)
  <2>1. CASE ~FitsU16(w) /\ Refuse
    BY <2>1, RefuseType, Zenon
  <2>2. CASE FitsU16(w)
    <3>1. [body EXCEPT !.signatures_qty = w] \in B
      BY <2>2, FitsType, CountUpdate, Zenon DEF TypedAs, Counts
    <3>2. [[body EXCEPT !.signatures_qty = w] EXCEPT !.signatures_counter = w] \in B
      BY <2>2, <3>1, FitsType, CountUpdate, Zenon DEF TypedAs, Counts
    <3>3. body' = [body EXCEPT !.signatures_qty = w, !.signatures_counter = w]
      BY <1>5, <2>2, Zenon DEF signatures_qty
    <3>4. \E p \in mint_params \cup {"UNEXPECTED_PARAMETER"} : Moves(p)
      BY <1>5, <2>2, Zenon DEF signatures_qty, mint_params
    <3> QED BY <3>2, <3>3, <3>4, MovesType, Zenon
  <2> QED BY <1>5, <2>1, <2>2, Zenon DEF signatures_qty
<1>6. CASE signature_offset
  <2>1. body' \in B
    BY <1>0, <1>6, CountUpdate, Zenon DEF signature_offset, TypedAs, Counts
  <2> QED BY <1>6, <2>1, MovesType, Zenon DEF signature_offset, mint_params
<1>7. CASE signature_words(w)
  <2>1. CASE ~FitsU16(w) /\ Refuse
    BY <2>1, RefuseType, Zenon
  <2>2. CASE FitsU16(w)
    <3>1. body' = [body EXCEPT !.signature_length = get_counter(w)]
      BY <1>7, <2>2, Zenon DEF signature_words
    <3>2. get_counter(w) \in Count
      BY <2>2, FitsType, GetCounterType, Zenon
    <3>3. body' \in B
      BY <3>1, <3>2, CountUpdate, Zenon DEF TypedAs, Counts
    <3> QED BY <1>7, <2>2, <3>3, MovesType, Zenon DEF signature_words, mint_params
  <2> QED BY <1>7, <2>1, <2>2, Zenon DEF signature_words
<1>8. CASE signature_chunk
  <2> DEFINE left == Minus1(body.signature_length)
             signatures == IF left = 0 THEN Minus1(body.signatures_qty)
                                       ELSE body.signatures_qty
  <2>1. left \in Count /\ signatures \in Count
    BY <1>0, CountUpdate, Zenon DEF TypedAs, Counts
  <2>2. body' = [[body EXCEPT !.signature_length = left] EXCEPT !.signatures_qty = signatures]
    BY <1>8, Zenon DEF signature_chunk
  <2>3. \E p \in mint_params \cup {"UNEXPECTED_PARAMETER"} : Moves(p)
    BY <1>8, Zenon DEF signature_chunk, mint_params
  <2> HIDE DEF left, signatures
  <2>4. [body EXCEPT !.signature_length = left] \in B
    BY <2>1, CountUpdate, Zenon DEF TypedAs, Counts
  <2>5. body' \in B
    BY <2>1, <2>2, <2>4, CountUpdate, Zenon DEF Counts
  <2> QED BY <2>3, <2>5, MovesType, Zenon
<1> QED BY <1>1, <1>2, <1>3, <1>4, <1>5, <1>6, <1>7, <1>8, Zenon DEF lists_and_signatures

LEMMA CreatorsAddressType ==
  ASSUME NEW B \in MintBodies, TypedAs(B), NEW w \in Nat, NEW flagged \in BOOLEAN,
         flagged => B = mint_body, creators_address(w, flagged)
  PROVE KeepsType(B)
<1> DEFINE a == copy_address(w)
<1>1. a \in Address /\ body \in B
  BY CopyAddressType, Zenon DEF TypedAs
<1>2. body' = IF body.creators_qty # 1 THEN body
              ELSE IF flagged THEN [body EXCEPT !.creator_found = TRUE, !.creator = a]
              ELSE [body EXCEPT !.creator = a]
  BY Zenon DEF creators_address
<1> HIDE DEF a
<1>3. \A b \in B : [b EXCEPT !.creator = a] \in B
  <2>1. CASE B = mint_body  BY <1>1, <2>1, SMT DEF mint_body
  <2>2. CASE B = transfer_body  BY <1>1, <2>2, SMT DEF transfer_body
  <2> QED BY <2>1, <2>2, Zenon DEF MintBodies
<1>4. ASSUME B = mint_body PROVE [body EXCEPT !.creator_found = TRUE] \in B
  <2>1. body \in mint_body  BY <1>1, <1>4, Zenon
  <2>2. \A t \in BOOLEAN : [body EXCEPT !.creator_found = t] \in mint_body
    BY <2>1, SMT DEF mint_body
  <2> QED BY <1>4, <2>2, Zenon
<1>5. body' \in B
  BY <1>1, <1>2, <1>3, <1>4, Zenon
<1> QED BY <1>5, MovesType, Zenon DEF creators_address, mint_params

LEMMA RoyaltiesValueType ==
  ASSUME NEW B \in MintBodies, TypedAs(B), NEW w \in Nat, NEW max \in Count,
         royalties_value(w, max)
  PROVE KeepsType(B)
<1>1. CASE ~FitsU16(w) /\ Refuse
  BY <1>1, RefuseType, Zenon
<1>2. CASE /\ FitsU16(w) /\ body' = [body EXCEPT !.royalties = w] /\ result' = "ERROR"
           /\ UNCHANGED <<selectorIndex, next_param, sub_param, counter, max_counter>>
  <2>1. body' \in B
    BY <1>2, FitsType, CountUpdate, Zenon DEF TypedAs, Counts
  <2> QED BY <1>2, <2>1, Zenon DEF TypedAs, KeepsType
<1>3. CASE /\ body.royalties_qty = 1 => w <= max
           /\ body' = [body EXCEPT
                         !.royalties = IF body.royalties_qty = 1 THEN w ELSE @,
                         !.royalties_qty = Minus1(@)]
           /\ Moves(IF body'.royalties_qty # 0 THEN "ROYALTIES_ADDRESS" ELSE "SIGNATURES_QTY")
  <2> DEFINE r == IF body.royalties_qty = 1 THEN w ELSE body.royalties
             q == Minus1(body.royalties_qty)
  <2>1. w <= max => w \in Count
    BY Bounds, CountDef, SMT
  <2>2. r \in Count /\ q \in Count
    BY <1>3, <2>1, CountUpdate, Minus1Type, Zenon DEF TypedAs, Counts
  <2>3. body' = [body EXCEPT !.royalties = r, !.royalties_qty = q]
    BY <1>3, Zenon
  <2> HIDE DEF r, q
  <2>4. [body EXCEPT !.royalties = r] \in B
    BY <2>2, CountUpdate, Zenon DEF TypedAs, Counts
  <2>5. [[body EXCEPT !.royalties = r] EXCEPT !.royalties_qty = q] \in B
    BY <2>2, <2>4, CountUpdate, Zenon DEF Counts
  <2>6. \E p \in mint_params : Moves(p)
    BY <1>3, Zenon DEF mint_params, mint_skips
  <2> QED BY <2>3, <2>5, <2>6, MovesType, Zenon
<1> QED BY <1>1, <1>2, <1>3, Zenon DEF royalties_value

LEMMA MintAndTransferType ==
  ASSUME TypedAs(mint_body), NEW w \in Nat, handle_mint_and_transfer(w)
  PROVE KeepsType(mint_body)
<1>0. mint_body \in MintBodies  BY Zenon DEF MintBodies
<1>1. CASE Skip(mint_skips)
  BY <1>1, SkipType, MintParameters, Zenon
<1>2. CASE TakeAddress("BENEFICIARY", "beneficiary", "ID", w)
  <2>1. [body EXCEPT !.beneficiary = copy_address(w)] \in mint_body
    BY CopyAddressType, SMT DEF TypedAs, mint_body
  <2> QED BY <1>2, <2>1, AcceptType, MintParameters, Zenon DEF TakeAddress, mint_params
<1>3. CASE uri_words(w, "WAIT_UNTIL_CREATORS")
  BY <1>0, <1>3, UriWordsType, Zenon DEF mint_params
<1>4. CASE creators_address(w, TRUE)
  BY <1>0, <1>4, CreatorsAddressType, Zenon
<1>5. CASE royalties_value(w, ROYALTY_MAX_VALUE)
  <2>1. ROYALTY_MAX_VALUE \in Count
    BY Bounds, CountDef, SMT DEF ROYALTY_MAX_VALUE
  <2> QED BY <1>0, <1>5, <2>1, RoyaltiesValueType, Zenon
<1>6. CASE lists_and_signatures(w)
  BY <1>0, <1>6, ListsAndSignaturesType, Zenon
<1>7. CASE Unsupported(mint_params)
  BY <1>7, UnsupportedType, Zenon
<1> QED BY <1>1, <1>2, <1>3, <1>4, <1>5, <1>6, <1>7, Zenon DEF handle_mint_and_transfer

LEMMA TransferFromOrMintType ==
  ASSUME TypedAs(transfer_body), NEW w \in Nat, handle_transfer_from_or_mint(w)
  PROVE KeepsType(transfer_body)
<1>0. transfer_body \in MintBodies  BY Zenon DEF MintBodies
<1>1. CASE Skip(mint_skips)
  BY <1>1, SkipType, MintParameters, Zenon
<1>2. CASE TakeAddress("BENEFICIARY", "seller", "SELLER", w)
  <2>1. [body EXCEPT !.seller = copy_address(w)] \in transfer_body
    BY CopyAddressType, SMT DEF TypedAs, transfer_body
  <2> QED BY <1>2, <2>1, AcceptType, MintParameters, Zenon DEF TakeAddress
<1>3. CASE TakeAddress("SELLER", "beneficiary", "ID", w)
  <2>1. [body EXCEPT !.beneficiary = copy_address(w)] \in transfer_body
    BY CopyAddressType, SMT DEF TypedAs, transfer_body
  <2> QED BY <1>3, <2>1, AcceptType, MintParameters, Zenon DEF TakeAddress, mint_params
<1>4. CASE uri_words(w, "CREATORS_QTY")
  BY <1>0, <1>4, UriWordsType, Zenon DEF mint_params
<1>5. CASE creators_address(w, FALSE)
  BY <1>0, <1>5, CreatorsAddressType, Zenon
<1>6. CASE royalties_value(w, U16 - 1)
  <2>1. U16 - 1 \in Count
    BY Bounds, CountDef, SMT
  <2> QED BY <1>0, <1>6, <2>1, RoyaltiesValueType, Zenon
<1>7. CASE lists_and_signatures(w)
  BY <1>0, <1>7, ListsAndSignaturesType, Zenon
<1>8. CASE Unsupported(mint_params \cup {"SELLER"})
  BY <1>8, UnsupportedType, Zenon
<1> QED BY <1>1, <1>2, <1>3, <1>4, <1>5, <1>6, <1>7, <1>8, Zenon
        DEF handle_transfer_from_or_mint

-----------------------------------------------------------------------------
(* The methods with orders. *)

OrderBodies == {cancel_body, match_body}

LEMMA OrderParameters ==
  /\ order_params \cup {"UNEXPECTED_PARAMETER", "RIGHT_SIGNATURE_OFFSET"} \subseteq Parameters
  /\ {"MAKER", "MAKE_ASSET_OFFSET", "TAKE_ASSET_OFFSET", "MAKE_ASSET", "TAKE_ASSET",
      "DATA_LENGTH", "DATA", "SIGNATURE_LENGTH", "SIGNATURE"} \subseteq order_params
  /\ \A p \in DOMAIN order_skips : order_skips[p] \in Parameters
  /\ \A p \in DOMAIN match_head : match_head[p] \in Parameters
<1>1. /\ order_params \cup {"UNEXPECTED_PARAMETER", "RIGHT_SIGNATURE_OFFSET"} \subseteq Parameters
      /\ DOMAIN match_head \subseteq Parameters
  BY Zenon DEF Parameters
<1>2. {"MAKER", "MAKE_ASSET_OFFSET", "TAKE_ASSET_OFFSET", "MAKE_ASSET", "TAKE_ASSET",
       "DATA_LENGTH", "DATA", "SIGNATURE_LENGTH", "SIGNATURE"} \subseteq order_params
  BY SMT DEF order_params, order_skips
<1>3. \A p \in DOMAIN order_skips : order_skips[p] \in order_params
  BY SMT DEF order_skips, order_params
<1>4. \A p \in DOMAIN match_head :
        match_head[p] \in DOMAIN match_head \cup {"RIGHT_SIGNATURE_OFFSET"}
  BY SMT DEF match_head
<1> QED BY <1>1, <1>2, <1>3, <1>4, Zenon

LEMMA SubParametersType ==
  /\ {"ASSET_TYPE_OFFSET", "ASSET_DATA", "UNEXPECTED_PARAMETER"} \subseteq SubParameters
  /\ \A p \in DOMAIN asset_head : asset_head[p] \in SubParameters
  BY SMT DEF SubParameters, asset_head

LEMMA AssetWordType ==
  ASSUME NEW B, TypedAs(B), NEW w \in Nat, NEW after \in Parameters,
         NEW without_data \in SubParameters, NEW with_data \in SubParameters,
         asset_word(w, after, without_data, with_data),
         UNCHANGED <<selectorIndex, max_counter, body>>
  PROVE KeepsType(B)
<1>1. CASE /\ sub_param \in DOMAIN asset_head /\ sub_param' = asset_head[sub_param]
           /\ result' = "OK" /\ UNCHANGED <<next_param, counter>>
  BY <1>1, SubParametersType, Zenon DEF TypedAs, KeepsType
<1>2. CASE /\ parse_counter(w)
           /\ next_param' = IF counter' = 0 THEN after ELSE next_param
           /\ sub_param' = IF counter' = 0 THEN without_data ELSE "ASSET_DATA"
  BY <1>2, ParseCounterType, SubParametersType, Zenon DEF TypedAs, KeepsType
<1>3. CASE /\ counter' = decrement_counter(counter)
           /\ next_param' = IF counter' = 0 THEN after ELSE next_param
           /\ sub_param' = IF counter' = 0 THEN with_data ELSE "ASSET_DATA"
           /\ result' = "OK"
  BY <1>3, DecrementType, SubParametersType, Zenon DEF TypedAs, KeepsType
<1>4. CASE result' = "ERROR" /\ UNCHANGED <<next_param, sub_param, counter>>
  BY <1>4, Zenon DEF TypedAs, KeepsType
<1> QED BY <1>1, <1>2, <1>3, <1>4, Zenon DEF asset_word

LEMMA ParseAssetType ==
  ASSUME NEW B, TypedAs(B), NEW w \in Nat, NEW after \in Parameters,
         NEW restart \in BOOLEAN, parse_asset(w, after, restart),
         UNCHANGED <<selectorIndex, max_counter, body>>
  PROVE KeepsType(B)
<1>1. sub_param \in SubParameters /\ "ASSET_TYPE_OFFSET" \in SubParameters
        /\ "UNEXPECTED_PARAMETER" \in SubParameters
  BY SubParametersType, Zenon DEF TypedAs
<1> QED BY <1>1, AssetWordType, Zenon DEF parse_asset

LEMMA OrderSideUpdate ==
  ASSUME NEW B \in OrderBodies, NEW b \in B, NEW side \in OrderSides
  PROVE [b EXCEPT !.order_side = side] \in B
<1>1. CASE B = cancel_body  BY <1>1, SMT DEF cancel_body
<1>2. CASE B = match_body  BY <1>2, SMT DEF match_body
<1> QED BY <1>1, <1>2, Zenon DEF OrderBodies

LEMMA OrderChunkType ==
  ASSUME NEW B \in OrderBodies, TypedAs(B), NEW at, NEW last \in BOOLEAN,
         NEW next_order \in OrderSides, order_chunk(at, last, next_order)
  PROVE KeepsType(B)
<1>1. counter' \in Count
  BY DecrementType, Zenon DEF order_chunk, TypedAs
<1>2. CASE UNCHANGED <<next_param, body>>
  BY <1>1, <1>2, Zenon DEF order_chunk, TypedAs, KeepsType
<1>3. CASE order_done(next_order)
  <2>1. body' \in B /\ next_param' \in Parameters
    BY <1>3, OrderSideUpdate, OrderParameters, Zenon DEF order_done, TypedAs
  <2> QED BY <1>1, <2>1, Zenon DEF order_chunk, TypedAs, KeepsType
<1>4. CASE next_param' = "SIGNATURE_LENGTH" /\ UNCHANGED body
  BY <1>1, <1>4, OrderParameters, Zenon DEF order_chunk, TypedAs, KeepsType
<1> QED BY <1>2, <1>3, <1>4, Zenon DEF order_chunk

LEMMA OrderLengthType ==
  ASSUME NEW B, TypedAs(B), NEW w \in Nat, NEW at, NEW chunks \in Parameters,
         order_length(at, chunks, w)
  PROVE KeepsType(B)
  BY ParseCounterType, Zenon DEF order_length, TypedAs, KeepsType

LEMMA ParseOrderType ==
  ASSUME NEW B \in OrderBodies, TypedAs(B), NEW w \in Nat, NEW maker, NEW taker,
         \A b \in B, a \in Address :
           [b EXCEPT ![maker] = a] \in B /\ [b EXCEPT ![taker] = a] \in B,
         NEW next_order \in OrderSides, NEW with_signature \in BOOLEAN,
         parse_order(w, maker, taker, next_order, with_signature)
  PROVE KeepsType(B)
<1>1. CASE Skip(order_skips)
  BY <1>1, SkipType, OrderParameters, Zenon
<1>2. CASE \/ TakeAddress("MAKER", maker, "MAKE_ASSET_OFFSET", w)
           \/ TakeAddress("TAKER", taker, "TAKE_ASSET_OFFSET", w)
  BY <1>2, AcceptType, CopyAddressType, OrderParameters, Zenon DEF TakeAddress, TypedAs
<1>3. CASE /\ next_param = "DATA_OFFSET"
           /\ next_param' = "MAKE_ASSET" /\ sub_param' = "ASSET_TYPE_OFFSET"
           /\ result' = "OK" /\ UNCHANGED <<selectorIndex, counter, max_counter, body>>
  BY <1>3, OrderParameters, SubParametersType, Zenon DEF TypedAs, KeepsType
<1>4. CASE /\ parse_asset(w, "TAKE_ASSET", TRUE) \/ parse_asset(w, "DATA_LENGTH", FALSE)
           /\ UNCHANGED <<selectorIndex, max_counter, body>>
  BY <1>4, ParseAssetType, OrderParameters, Zenon
<1>5. CASE order_length("DATA_LENGTH", "DATA", w)
             \/ order_length("SIGNATURE_LENGTH", "SIGNATURE", w)
  BY <1>5, OrderLengthType, OrderParameters, Zenon
<1>6. CASE order_chunk("DATA", ~with_signature, next_order)
             \/ order_chunk("SIGNATURE", TRUE, next_order)
  BY <1>6, OrderChunkType, Zenon
<1>7. CASE Unsupported(order_params)
  BY <1>7, UnsupportedType, Zenon
<1> QED BY <1>1, <1>2, <1>3, <1>4, <1>5, <1>6, <1>7, Zenon DEF parse_order

LEMMA CancelType ==
  ASSUME TypedAs(cancel_body), NEW w \in Nat, handle_cancel(w) PROVE KeepsType(cancel_body)
<1>1. CASE Skip([BODY_OFFSET |-> "MAKER"])
  <2>1. \A p \in DOMAIN [BODY_OFFSET |-> "MAKER"] :
          [BODY_OFFSET |-> "MAKER"][p] \in Parameters
    BY OrderParameters, SMT
  <2> QED BY <1>1, <2>1, SkipType, Zenon
<1>2. CASE parse_order(w, "maker", "taker", ERROR_ORDER, FALSE)
  <2>1. \A b \in cancel_body, a \in Address :
          [b EXCEPT !["maker"] = a] \in cancel_body /\ [b EXCEPT !["taker"] = a] \in cancel_body
    BY SMT DEF cancel_body
  <2> QED BY <1>2, <2>1, ParseOrderType, Zenon DEF OrderBodies, OrderSides
<1> QED BY <1>1, <1>2, Zenon DEF handle_cancel

LEMMA MatchOrdersType ==
  ASSUME TypedAs(match_body), NEW w \in Nat, handle_match_orders(w)
  PROVE KeepsType(match_body)
<1>1. CASE match_offsets
  <2>1. CASE Skip(match_head)
    BY <2>1, SkipType, OrderParameters, Zenon
  <2>2. CASE /\ body' = [body EXCEPT !.order_side = LEFT_ORDER]
             /\ next_param' = "MAKER" /\ Accept
    BY <2>2, OrderSideUpdate, AcceptType, OrderParameters, Zenon
    DEF TypedAs, OrderBodies, OrderSides
  <2>3. CASE Unsupported(DOMAIN match_head \cup {"RIGHT_SIGNATURE_OFFSET"})
    BY <2>3, UnsupportedType, Zenon
  <2> QED BY <1>1, <2>1, <2>2, <2>3, Zenon DEF match_offsets
<1>2. CASE parse_order(w, "left_maker", "left_taker", RIGHT_ORDER, TRUE)
  <2>1. \A b \in match_body, a \in Address :
          /\ [b EXCEPT !["left_maker"] = a] \in match_body
          /\ [b EXCEPT !["left_taker"] = a] \in match_body
    BY SMT DEF match_body
  <2> QED BY <1>2, <2>1, ParseOrderType, Zenon DEF OrderBodies, OrderSides
<1>3. CASE parse_order(w, "right_maker", "right_taker", ERROR_ORDER, TRUE)
  <2>1. \A b \in match_body, a \in Address :
          /\ [b EXCEPT !["right_maker"] = a] \in match_body
          /\ [b EXCEPT !["right_taker"] = a] \in match_body
    BY SMT DEF match_body
  <2> QED BY <1>3, <2>1, ParseOrderType, Zenon DEF OrderBodies, OrderSides
<1>4. CASE Refuse
  BY <1>4, RefuseType, Zenon
<1> QED BY <1>1, <1>2, <1>3, <1>4, Zenon DEF handle_match_orders

-----------------------------------------------------------------------------
LEMMA SetApprovedForAllType ==
  ASSUME TypedAs(approval_body), NEW w \in Nat, handle_set_approved_for_all(w)
  PROVE KeepsType(approval_body)
<1>0. {"IS_APPROVED", "UNEXPECTED_PARAMETER"} \subseteq Parameters
  BY Zenon DEF Parameters
<1>1. CASE TakeAddress("TO", "to", "IS_APPROVED", w)
  <2>1. [body EXCEPT !.to = copy_address(w)] \in approval_body
    BY CopyAddressType, SMT DEF TypedAs, approval_body
  <2> QED BY <1>0, <1>1, <2>1, AcceptType, Zenon DEF TakeAddress
<1>2. CASE ~FitsU16(w) /\ Refuse
  BY <1>2, RefuseType, Zenon
<1>3. CASE /\ FitsU16(w) /\ body' = [body EXCEPT !.isApproved = w]
           /\ next_param' = "UNEXPECTED_PARAMETER" /\ Accept
  <2>1. w \in Count /\ body \in approval_body
    BY <1>3, FitsType, Zenon DEF TypedAs
  <2>2. [body EXCEPT !.isApproved = w] \in approval_body
    BY <2>1, SMT DEF approval_body
  <2> QED BY <1>0, <1>3, <2>2, AcceptType, Zenon
<1>4. CASE Unsupported({"TO", "IS_APPROVED"})
  BY <1>4, UnsupportedType, Zenon
<1> QED BY <1>1, <1>2, <1>3, <1>4, Zenon DEF handle_set_approved_for_all

(* Whatever the word, and whatever was parsed before it, a call of         *)
(* handle_provide_parameter leaves a well-typed context and an answer.     *)
THEOREM ProvideParameterType ==
  ASSUME ContextTypeOK, NEW w \in Nat, handle_provide_parameter(w)
  PROVE ContextTypeOK' /\ selectorIndex' = selectorIndex /\ result' \in {"OK", "ERROR"}
<1>1. CASE selectorIndex = "MINT_AND_TRANSFER" /\ handle_mint_and_transfer(w)
  <2>1. KeepsType(mint_body)
    BY <1>1, MintAndTransferType, Zenon DEF ContextTypeOK, TypedAs
  <2> QED BY <1>1, <2>1, SMT DEF ContextTypeOK, KeepsType, TypedAs
<1>2. CASE selectorIndex = "CANCEL" /\ handle_cancel(w)
  <2>1. KeepsType(cancel_body)
    BY <1>2, CancelType, Zenon DEF ContextTypeOK, TypedAs
  <2> QED BY <1>2, <2>1, SMT DEF ContextTypeOK, KeepsType, TypedAs
<1>3. CASE selectorIndex = "MATCH_ORDERS" /\ handle_match_orders(w)
  <2>1. KeepsType(match_body)
    BY <1>3, MatchOrdersType, Zenon DEF ContextTypeOK, TypedAs
  <2> QED BY <1>3, <2>1, SMT DEF ContextTypeOK, KeepsType, TypedAs
<1>4. CASE selectorIndex = "TRANSFER_FROM_OR_MINT" /\ handle_transfer_from_or_mint(w)
  <2>1. KeepsType(transfer_body)
    BY <1>4, TransferFromOrMintType, Zenon DEF ContextTypeOK, TypedAs
  <2> QED BY <1>4, <2>1, SMT DEF ContextTypeOK, KeepsType, TypedAs
<1>5. CASE selectorIndex = "SET_APPROVED_FOR_ALL" /\ handle_set_approved_for_all(w)
  <2>1. KeepsType(approval_body)
    BY <1>5, SetApprovedForAllType, Zenon DEF ContextTypeOK, TypedAs
  <2> QED BY <1>5, <2>1, SMT DEF ContextTypeOK, KeepsType, TypedAs
<1>6. CASE selectorIndex = "CREATE_TOKEN" /\ handle_create_token(w)
  <2>1. KeepsType(create_body)
    BY <1>6, CreateTokenType, Zenon DEF ContextTypeOK, TypedAs
  <2> QED BY <1>6, <2>1, SMT DEF ContextTypeOK, KeepsType, TypedAs
<1>7. CASE selectorIndex = "ERC721_RARIBLE_INIT" /\ handle_erc721_rarible_init(w)
  <2>1. KeepsType(init_body)
    BY <1>7, RaribleInitType, Zenon DEF ContextTypeOK, TypedAs
  <2> QED BY <1>7, <2>1, SMT DEF ContextTypeOK, KeepsType, TypedAs
<1> QED BY <1>1, <1>2, <1>3, <1>4, <1>5, <1>6, <1>7, Zenon DEF handle_provide_parameter

(* The array of the selectors and the enum of the methods are as long.     *)
LEMMA SelectorTable == \A i \in 1..Len(RARIBLE_SELECTORS) : selector_t[i] \in SelectorNames
<1>1. Len(RARIBLE_SELECTORS) = 7
  <2>1. \A a, b, c, d, e, f, g : Len(<<a, b, c, d, e, f, g>>) = 7
    OBVIOUS
  <2> QED BY <2>1, Zenon DEF RARIBLE_SELECTORS
<1>2. \A i \in 1..7 : i = 1 \/ i = 2 \/ i = 3 \/ i = 4 \/ i = 5 \/ i = 6 \/ i = 7
  BY SMT
<1>3. /\ selector_t[1] = "MINT_AND_TRANSFER" /\ selector_t[2] = "CANCEL"
      /\ selector_t[3] = "MATCH_ORDERS" /\ selector_t[4] = "TRANSFER_FROM_OR_MINT"
      /\ selector_t[5] = "SET_APPROVED_FOR_ALL" /\ selector_t[6] = "CREATE_TOKEN"
      /\ selector_t[7] = "ERC721_RARIBLE_INIT"
  BY Zenon DEF selector_t
<1>4. \A i \in 1..7 : selector_t[i] \in SelectorNames
  BY <1>2, <1>3, Zenon DEF SelectorNames
<1> QED BY <1>1, <1>4, Zenon

LEMMA PreparedType ==
  ASSUME NEW sel \in SelectorNames, Prepared(sel, first_param[sel]) PROVE ContextTypeOK'
  BY FreshContext, Zenon DEF Prepared, ContextTypeOK

(* Whatever it is called with, and whatever was in the memory it is given, *)
(* handle_init_contract leaves a well-typed context.                       *)
THEOREM InitContractType ==
  ASSUME ContextTypeOK, NEW s, NEW compatible \in BOOLEAN, NEW roomy \in BOOLEAN,
         handle_init_contract(compatible, roomy, s)
  PROVE  ContextTypeOK' /\ result' \in {"OK", "ERROR", "UNAVAILABLE"}
<1>1. CASE UNCHANGED context /\ result' \in {"ERROR", "UNAVAILABLE"}
  <2>1. ContextTypeOK'
    BY <1>1, Zenon DEF context, ContextTypeOK
  <2> QED BY <1>1, <2>1, Zenon
<1>2. CASE Prepared("MINT_AND_TRANSFER", "BODY_OFFSET") /\ result' = "UNAVAILABLE"
  <2>1. first_param["MINT_AND_TRANSFER"] = "BODY_OFFSET"
    BY Zenon DEF first_param
  <2>2. "MINT_AND_TRANSFER" \in SelectorNames
    BY Zenon DEF SelectorNames
  <2> QED BY <1>2, <2>1, <2>2, PreparedType, Zenon
<1>3. CASE \E i \in 1..Len(RARIBLE_SELECTORS) :
             /\ RARIBLE_SELECTORS[i] = s
             /\ Prepared(selector_t[i], first_param[selector_t[i]])
             /\ result' = "OK"
  BY <1>3, SelectorTable, PreparedType, Zenon
<1> QED BY <1>1, <1>2, <1>3, Zenon DEF handle_init_contract
=============================================================================
