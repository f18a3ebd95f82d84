---------------------------- MODULE EntrySafety ----------------------------
(***************************************************************************)
(* Proofs about the entry point, under any messages in any order: the      *)
(* memory of the plugin keeps to its C types, and every call is to the app *)
(* one step of PluginCalls, exceptions included.                           *)
(***************************************************************************)
EXTENDS PluginEntry, ContextTypes

LEMMA WordsAreNat == Words \subseteq Nat
  BY CallsAssumption

LEMMA EntryInitType == EntryInit => EntryTypeOK
<1> SUFFICES ASSUME EntryInit PROVE EntryTypeOK
  OBVIOUS
<1>1. PICK i \in 1..Len(RARIBLE_SELECTORS) :
        /\ RARIBLE_SELECTORS[i] \in Calls
        /\ selectorIndex = selector_t[i] /\ next_param = first_param[selectorIndex]
  BY Zenon DEF EntryInit, CallsInit
<1>2. selectorIndex \in SelectorNames
  BY <1>1, SelectorTable, Zenon
<1>3. /\ body = zero_body[selectorIndex]
      /\ sub_param = "BODY_OFFSET" /\ counter = 0 /\ max_counter = 0
  BY Zenon DEF EntryInit, CallsInit
<1>4. ContextTypeOK
  BY <1>1, <1>2, <1>3, FreshContext, Zenon DEF ContextTypeOK
<1>5. /\ result = "OK" /\ numScreens = 0
      /\ at = "app" /\ message = no_message /\ thrown = "none"
  BY Zenon DEF EntryInit, CallsInit
<1> QED BY <1>4, <1>5, SMT DEF EntryTypeOK, Results

(* Of the handlers only those of a finished transaction touch what the app *)
(* keeps, and none touches the context but the first two.                  *)
LEMMA HandleType == ASSUME EntryTypeOK, Handle PROVE EntryTypeOK'
<1>1. /\ at = "dispatch" /\ at' = "finally" /\ UNCHANGED <<message, thrown>>
  BY Zenon DEF Handle
<1>2. ContextTypeOK' /\ result' \in Results /\ numScreens' \in Nat
  <2>1. ContextTypeOK /\ numScreens \in Nat
    BY Zenon DEF EntryTypeOK
  <2>2. CASE /\ message.type = "INIT_CONTRACT"
             /\ handle_init_contract(message.compatible, message.roomy, message.selector)
             /\ UNCHANGED screenVars
    <3>1. message.compatible \in BOOLEAN /\ message.roomy \in BOOLEAN
      BY <2>2, SMT DEF EntryTypeOK, Messages, no_message
    <3> QED BY <2>1, <2>2, <3>1, InitContractType, Zenon DEF Results, screenVars
  <2>3. CASE /\ message.type = "PROVIDE_PARAMETER"
             /\ handle_provide_parameter(message.word) /\ UNCHANGED screenVars
    <3>1. message.word \in Words
      BY <2>3, SMT DEF EntryTypeOK, Messages, no_message
    <3>2. message.word \in Nat
      BY <3>1, WordsAreNat, Zenon
    <3>3. ContextTypeOK' /\ result' \in {"OK", "ERROR"}
      BY <2>1, <2>3, <3>2, ProvideParameterType, Zenon
    <3> QED BY <2>1, <2>3, <3>3, Zenon DEF Results, screenVars
  <2>4. CASE handle_finalize
    <3>1. screens_of[selectorIndex] \in Nat
      BY <2>1, SMT DEF ContextTypeOK, SelectorNames, screens_of
    <3>2. ContextTypeOK'
      BY <2>1, <2>4, Zenon DEF handle_finalize, context, ContextTypeOK
    <3> QED BY <2>4, <3>1, <3>2, Zenon DEF handle_finalize, Results
  <2>5. CASE handle_provide_token
    BY <2>1, <2>5, Zenon DEF handle_provide_token, context, screenVars, ContextTypeOK, Results
  <2>6. CASE handle_query_contract_id
    BY <2>1, <2>6, Zenon DEF handle_query_contract_id, context, ContextTypeOK, Results
  <2> QED BY <2>2, <2>3, <2>4, <2>5, <2>6, Zenon DEF Handle
<1> QED BY <1>1, <1>2, SMT DEF EntryTypeOK

LEMMA StepType == ASSUME EntryTypeOK, [EntryNext]_entryVars PROVE EntryTypeOK'
<1>1. CASE Handle
  BY <1>1, HandleType
<1>2. ASSUME UNCHANGED <<context, numScreens>> PROVE ContextTypeOK' /\ numScreens' \in Nat
  BY <1>2, Zenon DEF context, ContextTypeOK, EntryTypeOK
<1>3. CASE LibCall
  <2>1. result' \in Results
    BY <1>3, SMT DEF LibCall, EntryTypeOK
  <2> QED BY <1>2, <1>3, <2>1, SMT DEF LibCall, screenVars, EntryTypeOK
<1>4. CASE Ignore
  BY <1>2, <1>4, SMT DEF Ignore, callVars, contextVars, screenVars, EntryTypeOK
<1>5. CASE ClearScreen
  <2>1. result' \in Results
    BY <1>5, SMT DEF ClearScreen, Results
  <2> QED BY <1>2, <1>5, <2>1, SMT DEF ClearScreen, EntryTypeOK
<1>6. CASE WriteTitle \/ WriteText
  BY <1>2, <1>6, SMT DEF WriteTitle, WriteText, contextVars, EntryTypeOK
<1>7. CASE Throw
  BY <1>2, <1>7, SMT DEF Throw, callVars, contextVars, screenVars, EntryTypeOK
<1>8. CASE Catch
  <2>1. result' \in Results
    BY <1>8, SMT DEF Catch, EntryTypeOK, Results
  <2> QED BY <1>2, <1>8, <2>1, SMT DEF Catch, screenVars, EntryTypeOK
<1>9. CASE LibEnd
  BY <1>2, <1>9, SMT DEF LibEnd, callVars, contextVars, screenVars, EntryTypeOK
<1>10. CASE UNCHANGED entryVars
  BY <1>2, <1>10, SMT DEF entryVars, callVars, contextVars, screenVars, EntryTypeOK
<1> QED BY <1>1, <1>3, <1>4, <1>5, <1>6, <1>7, <1>8, <1>9, <1>10, Zenon DEF EntryNext, InPlugin

(* The context keeps to its C types under messages in any order, and the   *)
(* plugin is left with no exception pending.                               *)
THEOREM EntryTypeCorrect == EntrySpec => []EntryTypeOK
  BY EntryInitType, StepType, PTL DEF EntrySpec

-----------------------------------------------------------------------------
(* The handlers, seen through the mapping.  They read nothing it changes   *)
(* and answer in `result', so where the app sees the answer of a handler   *)
(* the handler of PluginCalls took the same step.                          *)

LEMMA SameTables ==
  /\ Atomic!RARIBLE_SELECTORS = RARIBLE_SELECTORS /\ Atomic!selector_t = selector_t
  /\ Atomic!first_param = first_param /\ Atomic!zero_body = zero_body
  /\ Atomic!screens_of = screens_of /\ Atomic!version_of = version_of
  /\ Atomic!blank = blank /\ Atomic!caught = caught
  BY Zenon DEF Atomic!RARIBLE_SELECTORS, RARIBLE_SELECTORS, Atomic!selector_t, selector_t,
    Atomic!first_param, first_param, Atomic!zero_body, zero_body, Atomic!screens_of, screens_of,
    Atomic!version_of, version_of, Atomic!blank, blank, Atomic!caught, caught,
    zero_mint, zero_transfer, zero_cancel, zero_match, zero_approval, zero_create, zero_init,
    Atomic!zero_mint, Atomic!zero_transfer, Atomic!zero_cancel, Atomic!zero_match,
    Atomic!zero_approval, Atomic!zero_create, Atomic!zero_init, NO_ORDER, Atomic!NO_ORDER,
    no_text, Atomic!no_text, text, Atomic!text

LEMMA SameScreens ==
  /\ Atomic!Screens = Screens
  /\ \A s : Atomic!MayThrow(s) <=> MayThrow(s)
  /\ \A s : Atomic!half_drawn(s) = half_drawn(s)
<1>1. /\ \A t, v : Atomic!address_ui(t, v) = address_ui(t, v)
      /\ \A t, v : Atomic!text_ui(t, v) = text_ui(t, v)
      /\ \A v : Atomic!token_id_ui(v) = token_id_ui(v)
      /\ \A t, v : Atomic!notice_ui(t, v) = notice_ui(t, v)
  BY Zenon DEF address_ui, text_ui, token_id_ui, notice_ui, Atomic!address_ui,
    Atomic!text_ui, Atomic!token_id_ui, Atomic!notice_ui
<1>2. /\ \A f, v : Atomic!creator_ui(f, v) = creator_ui(f, v)
      /\ \A f, v : Atomic!operator_ui(f, v) = operator_ui(f, v)
      /\ \A v : Atomic!set_is_approved(v) = set_is_approved(v)
  BY <1>1, Zenon DEF creator_ui, operator_ui, set_is_approved, Atomic!creator_ui,
    Atomic!operator_ui, Atomic!set_is_approved
<1>3. \A r : Atomic!printed_royalties(r) = printed_royalties(r)
  <2>1. \A n : Atomic!Digits(n) = Digits(n)
    BY Zenon DEF Digits, Atomic!Digits
  <2>2. \A n, d : Atomic!percent(n, d) = percent(n, d)
    BY Zenon DEF percent, Atomic!percent
  <2> QED BY <2>1, <2>2, Zenon DEF printed_royalties, Atomic!printed_royalties
<1>4. \A r : Atomic!set_royalties_ui(r) = set_royalties_ui(r)
  BY <1>1, <1>3, SMT DEF set_royalties_ui, Atomic!set_royalties_ui
<1>5. Atomic!Screens = Screens
  BY <1>1, <1>2, <1>4, Zenon DEF Screens, Atomic!Screens
<1>6. \A s : Atomic!MayThrow(s) <=> MayThrow(s)
  BY Zenon DEF MayThrow, Atomic!MayThrow
<1>7. \A s : Atomic!half_drawn(s) = half_drawn(s)
  BY SameTables, Zenon DEF half_drawn, Atomic!half_drawn
<1> QED BY <1>5, <1>6, <1>7

LEMMA SameInit ==
  ASSUME Answer' = result', NEW s, NEW compatible, NEW roomy,
         handle_init_contract(compatible, roomy, s)
  PROVE  Atomic!handle_init_contract(compatible, roomy, s)
  BY SameTables, Zenon DEF handle_init_contract, Prepared, context,
    Atomic!handle_init_contract, Atomic!Prepared, Atomic!context

(* The helpers of the parsers. *)
LEMMA SameHelpers ==
  /\ \A w : Atomic!FitsU16(w) <=> FitsU16(w)
  /\ \A w : Atomic!copy_address(w) = copy_address(w)
  /\ \A n, w : Atomic!copy_text(n, w) = copy_text(n, w)
  /\ \A n : Atomic!get_counter(n) = get_counter(n)
  /\ \A n : Atomic!decrement_counter(n) = decrement_counter(n)
  /\ \A n : Atomic!Minus1(n) = Minus1(n)
<1>1. Atomic!PARAMETER_LENGTH = PARAMETER_LENGTH /\ Atomic!U16 = U16
  BY SMT DEF PARAMETER_LENGTH, U16, Atomic!PARAMETER_LENGTH, Atomic!U16
<1>2. \A w : Atomic!FitsU16(w) <=> FitsU16(w)
  BY <1>1, SMT DEF FitsU16, Atomic!FitsU16
<1>3. \A w : Atomic!copy_address(w) = copy_address(w)
  BY SMT DEF copy_address, Atomic!copy_address
<1>4. \A n, w : Atomic!copy_text(n, w) = copy_text(n, w)
  BY <1>1, SMT DEF copy_text, text, Atomic!copy_text, Atomic!text
<1>5. \A n : Atomic!get_counter(n) = get_counter(n)
  BY <1>1, SMT DEF get_counter, Atomic!get_counter
<1>6. \A n : Atomic!decrement_counter(n) = decrement_counter(n)
  BY SMT DEF decrement_counter, Atomic!decrement_counter
<1>7. \A n : Atomic!Minus1(n) = Minus1(n)
  BY <1>1, SMT DEF Minus1, Atomic!Minus1
<1> QED BY <1>2, <1>3, <1>4, <1>5, <1>6, <1>7

LEMMA SameEnds ==
  ASSUME Answer' = result'
  PROVE  /\ Accept => Atomic!Accept
         /\ Refuse => Atomic!Refuse
         /\ \A T : Skip(T) => Atomic!Skip(T)
         /\ \A P : Unsupported(P) => Atomic!Unsupported(P)
  BY Zenon DEF Accept, Refuse, Skip, Unsupported, context,
    Atomic!Accept, Atomic!Refuse, Atomic!Skip, Atomic!Unsupported, Atomic!context

LEMMA SameTaking ==
  ASSUME Answer' = result', NEW p, NEW f, NEW q, NEW w
  PROVE  /\ TakeAddress(p, f, q, w) => Atomic!TakeAddress(p, f, q, w)
         /\ parse_counter(w) => Atomic!parse_counter(w)
<1>1. TakeAddress(p, f, q, w) => Atomic!TakeAddress(p, f, q, w)
  BY SameHelpers, SameEnds, Zenon DEF TakeAddress, Atomic!TakeAddress
<1>2. parse_counter(w) => Atomic!parse_counter(w)
  BY SameHelpers, Zenon DEF parse_counter, Atomic!parse_counter
<1> QED BY <1>1, <1>2

(* The methods with names and URIs. *)
LEMMA SameTexts ==
  ASSUME Answer' = result', NEW p, NEW l, NEW b, NEW q, NEW r, NEW w
  PROVE  /\ text_length(p, l, q, r, w) => Atomic!text_length(p, l, q, r, w)
         /\ text_chunk(p, l, b, q, w) => Atomic!text_chunk(p, l, b, q, w)
         /\ uri_length(p, q, r, w) => Atomic!uri_length(p, q, r, w)
         /\ uri_chunk(p, q) => Atomic!uri_chunk(p, q)
<1>1. text_length(p, l, q, r, w) => Atomic!text_length(p, l, q, r, w)
  BY SameHelpers, SameEnds, Zenon DEF text_length, Atomic!text_length
<1>2. text_chunk(p, l, b, q, w) => Atomic!text_chunk(p, l, b, q, w)
  BY SameHelpers, Zenon DEF text_chunk, Atomic!text_chunk
<1>3. uri_length(p, q, r, w) => Atomic!uri_length(p, q, r, w)
  BY SameTaking, Zenon DEF uri_length, Atomic!uri_length
<1>4. uri_chunk(p, q) => Atomic!uri_chunk(p, q)
  BY SameHelpers, Zenon DEF uri_chunk, Atomic!uri_chunk
<1> QED BY <1>1, <1>2, <1>3, <1>4

LEMMA SameNames ==
  ASSUME Answer' = result', NEW w, NEW end, names_and_uris(w, end)
  PROVE  Atomic!names_and_uris(w, end)
  BY SameTexts, Zenon DEF names_and_uris, Atomic!names_and_uris

LEMMA SameToken ==
  ASSUME Answer' = result', NEW w
  PROVE  /\ handle_create_token(w) => Atomic!handle_create_token(w)
         /\ handle_erc721_rarible_init(w) => Atomic!handle_erc721_rarible_init(w)
<1>1. operators_qty(w) => Atomic!operators_qty(w)
  BY SameHelpers, SameEnds, Zenon DEF operators_qty, Atomic!operators_qty
<1>2. operators_address(w) => Atomic!operators_address(w)
  BY SameHelpers, Zenon DEF operators_address, Atomic!operators_address
<1>3. /\ Atomic!create_token_head = create_token_head
      /\ Atomic!rarible_init_head = rarible_init_head
      /\ Atomic!name_and_uri_params = name_and_uri_params
  BY Zenon DEF create_token_head, rarible_init_head, name_and_uri_params,
    Atomic!create_token_head, Atomic!rarible_init_head, Atomic!name_and_uri_params
<1>4. handle_create_token(w) => Atomic!handle_create_token(w)
  BY <1>1, <1>2, <1>3, SameEnds, SameNames, Zenon
  DEF handle_create_token, Atomic!handle_create_token
<1>5. handle_erc721_rarible_init(w) => Atomic!handle_erc721_rarible_init(w)
  BY <1>3, SameEnds, SameTaking, SameNames, Zenon
  DEF handle_erc721_rarible_init, Atomic!handle_erc721_rarible_init
<1> QED BY <1>4, <1>5

(* The methods with creators, royalties and signatures. *)
LEMMA SameMoves == ASSUME Answer' = result', NEW p, Moves(p) PROVE Atomic!Moves(p)
  BY SameEnds, Zenon DEF Moves, Atomic!Moves

LEMMA SameLists ==
  ASSUME Answer' = result', NEW w, lists_and_signatures(w)
  PROVE  Atomic!lists_and_signatures(w)
<1>1. take_id(w) => Atomic!take_id(w)
  BY SameMoves, Zenon DEF take_id, Atomic!take_id
<1>2. wait_until_creators => Atomic!wait_until_creators
  BY SameMoves, SameHelpers, Zenon DEF wait_until_creators, Atomic!wait_until_creators
<1>3. \A p, q, r, s : read_quantity(p, q, r, s, w) => Atomic!read_quantity(p, q, r, s, w)
  BY SameMoves, SameHelpers, SameEnds, Zenon DEF read_quantity, Atomic!read_quantity
<1>4. creators_value => Atomic!creators_value
  BY SameMoves, SameHelpers, Zenon DEF creators_value, Atomic!creators_value
<1>5. signatures_qty(w) => Atomic!signatures_qty(w)
  BY SameMoves, SameHelpers, SameEnds, Zenon DEF signatures_qty, Atomic!signatures_qty
<1>6. signature_offset => Atomic!signature_offset
  BY SameMoves, SameHelpers, Zenon DEF signature_offset, Atomic!signature_offset
<1>7. signature_words(w) => Atomic!signature_words(w)
  BY SameMoves, SameHelpers, SameEnds, Zenon DEF signature_words, Atomic!signature_words
<1>8. signature_chunk => Atomic!signature_chunk
  BY SameMoves, SameHelpers, Zenon DEF signature_chunk, Atomic!signature_chunk
<1> QED BY <1>1, <1>2, <1>3, <1>4, <1>5, <1>6, <1>7, <1>8, Zenon
    DEF lists_and_signatures, Atomic!lists_and_signatures

LEMMA SameMint ==
  ASSUME Answer' = result', NEW w
  PROVE  /\ handle_mint_and_transfer(w) => Atomic!handle_mint_and_transfer(w)
         /\ handle_transfer_from_or_mint(w) => Atomic!handle_transfer_from_or_mint(w)
<1>1. \A p : uri_words(w, p) => Atomic!uri_words(w, p)
  BY SameMoves, SameHelpers, SameEnds, Zenon DEF uri_words, Atomic!uri_words
<1>2. /\ creators_address(w, TRUE) => Atomic!creators_address(w, TRUE)
      /\ creators_address(w, FALSE) => Atomic!creators_address(w, FALSE)
  BY SameMoves, SameHelpers, Zenon DEF creators_address, Atomic!creators_address
<1>3. \A max : royalties_value(w, max) => Atomic!royalties_value(w, max)
  BY SameMoves, SameHelpers, SameEnds, Zenon DEF royalties_value, Atomic!royalties_value
<1>4. Atomic!mint_skips = mint_skips
  BY Zenon DEF mint_skips, Atomic!mint_skips
<1>5. Atomic!mint_params = mint_params
  BY <1>4, Zenon DEF mint_params, Atomic!mint_params
<1>6. Atomic!ROYALTY_MAX_VALUE = ROYALTY_MAX_VALUE /\ Atomic!U16 = U16
  BY SMT DEF ROYALTY_MAX_VALUE, U16, Atomic!ROYALTY_MAX_VALUE, Atomic!U16
<1>7. handle_mint_and_transfer(w) => Atomic!handle_mint_and_transfer(w)
  BY <1>1, <1>2, <1>3, <1>4, <1>5, <1>6, SameEnds, SameTaking, SameLists, Zenon
  DEF handle_mint_and_transfer, Atomic!handle_mint_and_transfer
<1>8. handle_transfer_from_or_mint(w) => Atomic!handle_transfer_from_or_mint(w)
  BY <1>1, <1>2, <1>3, <1>4, <1>5, <1>6, SameEnds, SameTaking, SameLists, Zenon
  DEF handle_transfer_from_or_mint, Atomic!handle_transfer_from_or_mint
<1> QED BY <1>7, <1>8

(* The methods with orders. *)
LEMMA SameAsset ==
  ASSUME Answer' = result', NEW w, NEW p
  PROVE  /\ parse_asset(w, p, TRUE) => Atomic!parse_asset(w, p, TRUE)
         /\ parse_asset(w, p, FALSE) => Atomic!parse_asset(w, p, FALSE)
<1>1. Atomic!asset_head = asset_head
  BY Zenon DEF asset_head, Atomic!asset_head
<1>2. \A q, r : asset_word(w, p, q, r) => Atomic!asset_word(w, p, q, r)
  BY <1>1, SameHelpers, SameTaking, Zenon DEF asset_word, Atomic!asset_word
<1> QED BY <1>2, Zenon DEF parse_asset, Atomic!parse_asset

LEMMA SameOrder ==
  ASSUME Answer' = result', NEW w, NEW m, NEW t, NEW n, NEW signed \in BOOLEAN,
         parse_order(w, m, t, n, signed)
  PROVE  Atomic!parse_order(w, m, t, n, signed)
<1>1. Atomic!order_skips = order_skips
  BY Zenon DEF order_skips, Atomic!order_skips
<1>2. Atomic!order_params = order_params
  BY <1>1, Zenon DEF order_params, Atomic!order_params
<1>3. order_done(n) => Atomic!order_done(n)
  BY Zenon DEF order_done, Atomic!order_done, ERROR_ORDER, Atomic!ERROR_ORDER
<1>4. \A p, q : order_length(p, q, w) => Atomic!order_length(p, q, w)
  BY SameTaking, Zenon DEF order_length, Atomic!order_length
<1>5. /\ order_chunk("DATA", ~signed, n) => Atomic!order_chunk("DATA", ~signed, n)
      /\ order_chunk("SIGNATURE", TRUE, n) => Atomic!order_chunk("SIGNATURE", TRUE, n)
  BY <1>3, SameHelpers, Zenon DEF order_chunk, Atomic!order_chunk
<1> QED BY <1>1, <1>2, <1>4, <1>5, SameEnds, SameTaking, SameAsset, Zenon
    DEF parse_order, Atomic!parse_order

LEMMA SameOrders ==
  ASSUME Answer' = result', NEW w
  PROVE  /\ handle_cancel(w) => Atomic!handle_cancel(w)
         /\ handle_match_orders(w) => Atomic!handle_match_orders(w)
<1>1. /\ Atomic!NO_ORDER = NO_ORDER /\ Atomic!LEFT_ORDER = LEFT_ORDER
      /\ Atomic!RIGHT_ORDER = RIGHT_ORDER /\ Atomic!ERROR_ORDER = ERROR_ORDER
  BY SMT DEF NO_ORDER, LEFT_ORDER, RIGHT_ORDER, ERROR_ORDER, Atomic!NO_ORDER,
    Atomic!LEFT_ORDER, Atomic!RIGHT_ORDER, Atomic!ERROR_ORDER
<1>2. Atomic!match_head = match_head
  BY Zenon DEF match_head, Atomic!match_head
<1>3. match_offsets => Atomic!match_offsets
  BY <1>1, <1>2, SameEnds, Zenon DEF match_offsets, Atomic!match_offsets
<1>4. handle_cancel(w) => Atomic!handle_cancel(w)
  BY <1>1, SameEnds, SameOrder, Zenon DEF handle_cancel, Atomic!handle_cancel
<1>5. handle_match_orders(w) => Atomic!handle_match_orders(w)
  BY <1>1, <1>3, SameEnds, SameOrder, Zenon DEF handle_match_orders, Atomic!handle_match_orders
<1> QED BY <1>4, <1>5

LEMMA SameProvide ==
  ASSUME Answer' = result', NEW w, handle_provide_parameter(w)
  PROVE  Atomic!handle_provide_parameter(w)
<1>1. handle_set_approved_for_all(w) => Atomic!handle_set_approved_for_all(w)
  BY SameHelpers, SameEnds, SameTaking, Zenon
  DEF handle_set_approved_for_all, Atomic!handle_set_approved_for_all
<1> QED BY <1>1, SameToken, SameMint, SameOrders, Zenon
    DEF handle_provide_parameter, Atomic!handle_provide_parameter

-----------------------------------------------------------------------------
(* What holds within a call.  Until its handler is done the app has the    *)
(* answer and the screen of the call before; the handler of a screen gets  *)
(* past the clearing only when there is such a screen, and what it throws  *)
(* leaves that screen half drawn.                                          *)
QueryingScreen ==
  /\ message.type = "QUERY_CONTRACT_UI"
  /\ message.index \in Indices /\ message.index < Len(Screens)
  /\ result = "OK"

EntryInv ==
  /\ EntryTypeOK
  /\ at = "app" => seen = Snapshot
  /\ at \in {"dispatch", "title", "text", "catch"} => seen.numScreens = numScreens
  /\ at = "dispatch" => seen.screen = screen
  /\ at = "dispatch" /\ message.type \in {"CHECK_PRESENCE", "unknown"} => seen.result = result
  /\ at \in {"title", "text", "catch"} => QueryingScreen
  /\ at = "title" => screen = blank
  /\ at = "text" => screen = [blank EXCEPT !.title = Asked.title]
  /\ at = "catch" => screen = half_drawn(Asked) /\ MayThrow(Asked) /\ thrown \in Exceptions

LEMMA ScreensKept == UNCHANGED context => Screens' = Screens
<1> SUFFICES ASSUME UNCHANGED context PROVE Screens' = Screens
  OBVIOUS
<1>1. selectorIndex' = selectorIndex /\ body' = body
  BY Zenon DEF context
<1> QED BY <1>1, Zenon DEF Screens

(* Nothing is asked that the caller may not ask. *)
LEMMA IndexAsked ==
  ASSUME message \in Messages, message.type = "QUERY_CONTRACT_UI"
  PROVE  message.index \in Indices
  BY SMT DEF Messages

LEMMA EntryInitOK == EntryInit => EntryInv
<1> SUFFICES ASSUME EntryInit PROVE EntryInv
  OBVIOUS
<1>1. EntryTypeOK
  BY EntryInitType
<1>2. at = "app" /\ seen = Snapshot
  BY Zenon DEF EntryInit
<1> QED BY <1>1, <1>2, SMT DEF EntryInv

LEMMA EntryStep == ASSUME EntryInv, [EntryNext]_entryVars PROVE EntryInv'
<1>0. EntryTypeOK /\ EntryTypeOK'
  BY StepType, Zenon DEF EntryInv
<1>1. CASE LibCall
  <2>1. /\ seen' = Snapshot /\ at' = "dispatch" /\ UNCHANGED screenVars
        /\ message'.type \in {"CHECK_PRESENCE", "unknown"} => result' = result
    BY <1>1, SMT DEF LibCall, EntryInv
  <2>2. /\ seen'.numScreens = numScreens /\ seen'.screen = screen /\ seen'.result = result
        /\ numScreens' = numScreens /\ screen' = screen
    BY <2>1, Zenon DEF Snapshot, screenVars
  <2> QED BY <1>0, <2>1, <2>2, SMT DEF EntryInv
<1>2. CASE Handle \/ Ignore
  <2>1. at' = "finally"
    BY <1>2, Zenon DEF Handle, Ignore
  <2> QED BY <1>0, <2>1, SMT DEF EntryInv
<1>3. CASE ClearScreen
  <2>1. CASE message.index < Len(Screens)
    <3>1. /\ at = "dispatch" /\ message.type = "QUERY_CONTRACT_UI"
          /\ at' = "title" /\ result' = "OK" /\ screen' = blank
          /\ UNCHANGED <<context, numScreens, message, seen>>
      BY <1>3, <2>1, Zenon DEF ClearScreen
    <3>2. message.index \in Indices
      <4>1. message # no_message
        BY <3>1, SMT DEF no_message
      <4> QED BY <1>0, <3>1, <4>1, IndexAsked, Zenon DEF EntryTypeOK
    <3>3. QueryingScreen'
      BY <2>1, <3>1, <3>2, ScreensKept, Zenon DEF QueryingScreen
    <3>4. seen'.numScreens = numScreens'
      BY <3>1, SMT DEF EntryInv
    <3> QED BY <1>0, <3>1, <3>3, <3>4, SMT DEF EntryInv
  <2>2. CASE ~(message.index < Len(Screens))
    <3>1. at' = "finally"
      BY <1>3, <2>2, Zenon DEF ClearScreen
    <3> QED BY <1>0, <3>1, SMT DEF EntryInv
  <2> QED BY <2>1, <2>2, Zenon
<1>4. CASE WriteTitle
  <2>1. /\ at = "title" /\ at' = "text" /\ screen' = [screen EXCEPT !.title = Asked.title]
        /\ UNCHANGED <<context, result, numScreens, message, seen>>
    BY <1>4, Zenon DEF WriteTitle, contextVars
  <2>2. QueryingScreen /\ screen = blank /\ seen.numScreens = numScreens
    BY <2>1, SMT DEF EntryInv
  <2>3. QueryingScreen' /\ Asked' = Asked
    BY <2>1, <2>2, ScreensKept, Zenon DEF QueryingScreen, Asked
  <2>4. screen' = [blank EXCEPT !.title = Asked'.title]
    BY <2>1, <2>2, <2>3, Zenon
  <2>5. seen'.numScreens = numScreens'
    BY <2>1, <2>2, Zenon
  <2> HIDE DEF Asked
  <2> QED BY <1>0, <2>1, <2>3, <2>4, <2>5, SMT DEF EntryInv
<1>5. CASE WriteText \/ Catch
  <2>1. at' = "finally"
    BY <1>5, Zenon DEF WriteText, Catch
  <2> QED BY <1>0, <2>1, SMT DEF EntryInv
<1>6. CASE Throw
  <2>1. /\ at = "text" /\ MayThrow(Asked) /\ thrown' \in Exceptions /\ at' = "catch"
        /\ screen' = half_drawn(Asked)
        /\ UNCHANGED <<context, result, numScreens, message, seen>>
    BY <1>6, Zenon DEF Throw, contextVars
  <2>2. QueryingScreen /\ seen.numScreens = numScreens
    BY <2>1, SMT DEF EntryInv
  <2>3. QueryingScreen' /\ Asked' = Asked
    BY <2>1, <2>2, ScreensKept, Zenon DEF QueryingScreen, Asked
  <2>4. /\ screen' = half_drawn(Asked)' /\ MayThrow(Asked)'
        /\ seen'.numScreens = numScreens'
    BY <2>1, <2>2, <2>3, Zenon DEF MayThrow, half_drawn, blank
  <2> QED BY <1>0, <2>1, <2>3, <2>4, SMT DEF EntryInv
<1>7. CASE LibEnd
  <2>1. at' = "app" /\ seen' = Snapshot /\ UNCHANGED callVars
    BY <1>7, Zenon DEF LibEnd
  <2>2. Snapshot' = Snapshot
    BY <2>1, Zenon DEF Snapshot, callVars, contextVars, screenVars
  <2> QED BY <1>0, <2>1, <2>2, SMT DEF EntryInv
<1>8. CASE UNCHANGED entryVars
  <2>1. UNCHANGED <<context, result, numScreens, screen, at, message, thrown, seen>>
    BY <1>8, Zenon DEF entryVars, callVars, contextVars, screenVars
  <2>2. Screens' = Screens
    BY <2>1, ScreensKept, Zenon
  <2>3. Snapshot' = Snapshot /\ (QueryingScreen' <=> QueryingScreen) /\ Asked' = Asked
    BY <2>1, <2>2, Zenon DEF Snapshot, QueryingScreen, Asked
  <2>4. (MayThrow(Asked)' <=> MayThrow(Asked)) /\ half_drawn(Asked)' = half_drawn(Asked)
    BY <2>3, Zenon DEF MayThrow, half_drawn, blank
  <2> QED BY <1>0, <2>1, <2>3, <2>4, SMT DEF EntryInv
<1> QED BY <1>1, <1>2, <1>3, <1>4, <1>5, <1>6, <1>7, <1>8, Zenon DEF EntryNext, InPlugin

(* The steps of a call, seen by the app: all but one change nothing. *)
LEMMA Stutters ==
  ASSUME Visible' = Visible, UNCHANGED context PROVE UNCHANGED Atomic!callVars
  BY Zenon DEF Answer, Announced, Displayed, context, Atomic!callVars, Atomic!contextVars,
    Atomic!context, Atomic!screenVars

LEMMA HandleIsAtomic == ASSUME EntryInv, Handle PROVE Atomic!CallsNext
<1>1. at = "dispatch" /\ at' = "finally"
  BY Zenon DEF Handle
<1>2. seen.numScreens = numScreens /\ seen.screen = screen
  BY <1>1, SMT DEF EntryInv
<1>3. Announced = numScreens /\ Displayed = screen
  <2>1. Visible = seen
    BY <1>1, SMT DEF Visible
  <2> QED BY <1>2, <2>1, Zenon DEF Announced, Displayed
<1>4. Answer' = result' /\ Announced' = numScreens' /\ Displayed' = screen'
  <2>1. Visible' = Snapshot'
    BY <1>1, SMT DEF Visible
  <2> QED BY <2>1, Zenon DEF Answer, Announced, Displayed, Snapshot
<1>5. message \in Messages \cup {no_message}
  BY Zenon DEF EntryInv, EntryTypeOK
<1>6. CASE /\ message.type = "INIT_CONTRACT"
           /\ handle_init_contract(message.compatible, message.roomy, message.selector)
           /\ UNCHANGED screenVars
  <2>1. message.selector \in Calls /\ message.compatible \in BOOLEAN /\ message.roomy \in BOOLEAN
    BY <1>5, <1>6, SMT DEF Messages, no_message
  <2>2. Atomic!handle_init_contract(message.compatible, message.roomy, message.selector)
    BY <1>4, <1>6, SameInit, Zenon
  <2>3. UNCHANGED Atomic!screenVars
    BY <1>3, <1>4, <1>6, Zenon DEF screenVars, Atomic!screenVars
  <2> QED BY <2>1, <2>2, <2>3, Zenon DEF Atomic!CallsNext
<1>7. CASE /\ message.type = "PROVIDE_PARAMETER"
           /\ handle_provide_parameter(message.word) /\ UNCHANGED screenVars
  <2>1. message.word \in Words
    BY <1>5, <1>7, SMT DEF Messages, no_message
  <2>2. Atomic!handle_provide_parameter(message.word)
    BY <1>4, <1>7, SameProvide, Zenon
  <2>3. UNCHANGED Atomic!screenVars
    BY <1>3, <1>4, <1>7, Zenon DEF screenVars, Atomic!screenVars
  <2> QED BY <2>1, <2>2, <2>3, Zenon DEF Atomic!CallsNext
<1>8. CASE handle_finalize
  <2>1. Atomic!handle_finalize
    BY <1>3, <1>4, <1>8, SameTables, Zenon
    DEF handle_finalize, Atomic!handle_finalize, context, Atomic!context
  <2> QED BY <2>1, Zenon DEF Atomic!CallsNext
<1>9. CASE handle_provide_token
  <2>1. Atomic!handle_provide_token
    BY <1>3, <1>4, <1>9, Zenon
    DEF handle_provide_token, Atomic!handle_provide_token, context, Atomic!context,
      screenVars, Atomic!screenVars
  <2> QED BY <2>1, Zenon DEF Atomic!CallsNext
<1>10. CASE handle_query_contract_id
  <2>1. Atomic!handle_query_contract_id
    BY <1>3, <1>4, <1>10, SameTables, Zenon
    DEF handle_query_contract_id, Atomic!handle_query_contract_id, context, Atomic!context,
      notice_ui, Atomic!notice_ui
  <2> QED BY <2>1, Zenon DEF Atomic!CallsNext
<1> QED BY <1>6, <1>7, <1>8, <1>9, <1>10, Zenon DEF Handle

(* The three ways in which the handler of a screen is over. *)
LEMMA ScreenIsAtomic ==
  ASSUME EntryInv, at \in {"dispatch", "text", "catch"}, at' = "finally",
         ClearScreen \/ WriteText \/ Catch
  PROVE  Atomic!CallsNext
<1>1. /\ Answer' = result' /\ Announced' = numScreens' /\ Displayed' = screen'
      /\ Announced = numScreens
  <2>1. Visible' = Snapshot' /\ Visible = seen
    BY SMT DEF Visible
  <2>2. seen.numScreens = numScreens
    BY SMT DEF EntryInv
  <2> QED BY <2>1, <2>2, Zenon DEF Answer, Announced, Displayed, Snapshot
<1>2. UNCHANGED context /\ UNCHANGED numScreens
  BY Zenon DEF ClearScreen, WriteText, Catch, contextVars, screenVars
<1>3. UNCHANGED <<Atomic!context, Announced>>
  BY <1>1, <1>2, Zenon DEF context, Atomic!context
<1>4. message.type = "QUERY_CONTRACT_UI" /\ message.index \in Indices
  <2>1. CASE ClearScreen
    <3>1. message.type = "QUERY_CONTRACT_UI" /\ message \in Messages \cup {no_message}
      BY <2>1, Zenon DEF ClearScreen, EntryInv, EntryTypeOK
    <3>2. message # no_message
      BY <3>1, SMT DEF no_message
    <3> QED BY <3>1, <3>2, IndexAsked, Zenon
  <2>2. CASE WriteText \/ Catch
    BY <2>2, SMT DEF WriteText, Catch, EntryInv, QueryingScreen
  <2> QED BY <2>1, <2>2
<1>5. CASE ClearScreen
  <2>1. screen' = blank /\ result' = "ERROR" /\ ~(message.index < Len(Screens))
    BY <1>5, SMT DEF ClearScreen
  <2>2. Atomic!handle_query_contract_ui(message.index)
    BY <1>1, <1>3, <2>1, SameTables, SameScreens, Zenon DEF Atomic!handle_query_contract_ui
  <2> QED BY <1>4, <2>2, Zenon DEF Atomic!CallsNext
<1>6. CASE WriteText
  <2>1. at = "text" /\ screen' = Asked /\ result' = result
    BY <1>6, Zenon DEF WriteText, contextVars
  <2>2. QueryingScreen
    BY <2>1, SMT DEF EntryInv
  <2>3. Atomic!handle_query_contract_ui(message.index)
    BY <1>1, <1>3, <2>1, <2>2, SameScreens, Zenon
    DEF Atomic!handle_query_contract_ui, Asked, QueryingScreen
  <2> QED BY <1>4, <2>3, Zenon DEF Atomic!CallsNext
<1>7. CASE Catch
  <2>1. at = "catch" /\ screen' = screen
        /\ result' = IF thrown \in caught /\ message.type = "QUERY_CONTRACT_UI" THEN "ERROR"
                     ELSE result
    BY <1>7, Zenon DEF Catch, screenVars
  <2>2. /\ QueryingScreen /\ screen = half_drawn(Asked)
        /\ MayThrow(Asked) /\ thrown \in Exceptions
    BY <2>1, SMT DEF EntryInv
  <2>3. result' = IF thrown \in caught THEN "ERROR" ELSE "OK"
    BY <1>4, <2>1, <2>2, Zenon DEF QueryingScreen
  <2>4. Atomic!handle_query_ui_exception(message.index, thrown)
    BY <1>1, <1>3, <2>1, <2>2, <2>3, SameTables, SameScreens, Zenon
    DEF Atomic!handle_query_ui_exception, Asked, QueryingScreen
  <2> QED BY <1>4, <2>2, <2>4, Zenon DEF Atomic!CallsNext
<1> QED BY <1>5, <1>6, <1>7

LEMMA StepIsAtomic ==
  ASSUME EntryInv, [EntryNext]_entryVars PROVE [Atomic!CallsNext]_(Atomic!callVars)
<1>1. CASE LibCall
  <2>1. /\ at = "app" /\ at' = "dispatch" /\ seen' = seen /\ UNCHANGED context
        /\ seen = Snapshot
    BY <1>1, SMT DEF LibCall, EntryInv
  <2>2. Visible = Snapshot /\ Visible' = seen'
    BY <2>1, SMT DEF Visible
  <2> QED BY <2>1, <2>2, Stutters, Zenon
<1>2. CASE Handle
  BY <1>2, HandleIsAtomic
<1>3. CASE Ignore
  <2>1. /\ at = "dispatch" /\ at' = "finally" /\ UNCHANGED callVars
        /\ seen.result = result /\ seen.numScreens = numScreens /\ seen.screen = screen
    BY <1>3, SMT DEF Ignore, EntryInv
  <2>2. Visible = seen /\ Visible' = Snapshot'
    BY <2>1, SMT DEF Visible
  <2>3. Visible'.result = result /\ Visible'.numScreens = numScreens /\ Visible'.screen = screen
    BY <2>1, <2>2, Zenon DEF Snapshot, callVars, contextVars, screenVars
  <2> QED BY <2>1, <2>2, <2>3, Zenon DEF Answer, Announced, Displayed, callVars, contextVars,
    context, Atomic!callVars, Atomic!contextVars, Atomic!context, Atomic!screenVars
<1>4. CASE at \in {"dispatch", "title", "text"} /\ at' \in {"title", "text", "catch"}
           /\ seen' = seen /\ UNCHANGED context
  <2>1. Visible = seen /\ Visible' = seen'
    BY <1>4, SMT DEF Visible
  <2> QED BY <1>4, <2>1, Stutters, Zenon
<1>5. CASE ClearScreen
  <2>1. at = "dispatch" /\ at' \in {"title", "finally"} /\ seen' = seen /\ UNCHANGED context
    BY <1>5, SMT DEF ClearScreen
  <2> QED BY <1>4, <1>5, <2>1, ScreenIsAtomic, SMT
<1>6. CASE WriteTitle \/ Throw
  <2>1. at \in {"title", "text"} /\ at' \in {"text", "catch"} /\ seen' = seen
        /\ UNCHANGED context
    BY <1>6, SMT DEF WriteTitle, Throw, callVars, contextVars
  <2> QED BY <1>4, <2>1, SMT
<1>7. CASE WriteText \/ Catch
  <2>1. at \in {"text", "catch"} /\ at' = "finally"
    BY <1>7, SMT DEF WriteText, Catch
  <2> QED BY <1>7, <2>1, ScreenIsAtomic, SMT
<1>8. CASE LibEnd
  <2>1. at = "finally" /\ at' = "app" /\ UNCHANGED callVars
    BY <1>8, Zenon DEF LibEnd
  <2>2. Visible = Snapshot /\ Visible' = Snapshot'
    BY <2>1, SMT DEF Visible
  <2>3. Snapshot' = Snapshot /\ UNCHANGED context
    BY <2>1, Zenon DEF Snapshot, callVars, contextVars, screenVars
  <2> QED BY <2>2, <2>3, Stutters, Zenon
<1>9. CASE UNCHANGED entryVars
  <2>1. at' = at /\ seen' = seen /\ UNCHANGED callVars
    BY <1>9, Zenon DEF entryVars
  <2>2. Snapshot' = Snapshot /\ UNCHANGED context
    BY <2>1, Zenon DEF Snapshot, callVars, contextVars, screenVars
  <2>3. Visible' = Visible
    BY <2>1, <2>2, Zenon DEF Visible
  <2> QED BY <2>2, <2>3, Stutters, Zenon
<1> QED BY <1>1, <1>2, <1>3, <1>5, <1>6, <1>7, <1>8, <1>9, Zenon DEF EntryNext, InPlugin

LEMMA InitIsAtomic == EntryInit => Atomic!CallsInit
<1> SUFFICES ASSUME EntryInit PROVE Atomic!CallsInit
  OBVIOUS
<1>1. Answer = result /\ Announced = numScreens /\ Displayed = screen
  <2>1. at = "app"
    BY Zenon DEF EntryInit
  <2>2. Visible = Snapshot
    BY <2>1, SMT DEF Visible
  <2> QED BY <2>2, Zenon DEF Answer, Announced, Displayed, Snapshot
<1> QED BY <1>1, SameTables, Zenon DEF EntryInit, CallsInit, Atomic!CallsInit

(* To the app every call is one step of PluginCalls: it gets the answer    *)
(* and the screen of the handler that ran, or of its exception, and never  *)
(* one the handler was still writing or that was there before.             *)
THEOREM CallsAppearAtomic == EntrySpec => CallsAreAtomic
  BY EntryInitOK, EntryStep, InitIsAtomic, StepIsAtomic, PTL
  DEF EntrySpec, CallsAreAtomic, Atomic!CallsSpec
=============================================================================
