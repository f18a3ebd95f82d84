---------------------------- MODULE TokenParams ----------------------------
(***************************************************************************)
(* handle_create_token and handle_erc721_rarible_init: the two methods     *)
(* whose calldata is a head of fixed words, a name, a symbol, two URIs and *)
(* (create_token only) a list of operators.                                *)
(***************************************************************************)
EXTENDS PluginContext

(* A mutation: max_counter is left as it was. *)
text_length_without_max(at, len, chunks, after, w) ==
  /\ next_param = at
  /\ \/ ~FitsU16(w) /\ Refuse
     \/ /\ FitsU16(w)
        /\ body' = [body EXCEPT ![len] = w]
        /\ counter' = IF w > 0 THEN get_counter(w) ELSE counter
        /\ next_param' = IF w > 0 THEN chunks ELSE after
        /\ result' = "OK" /\ UNCHANGED <<selectorIndex, sub_param, max_counter>>

(* NAME_LENGTH and SYMBOL_LENGTH. *)
text_length(at, len, chunks, after, w) ==
  /\ next_param = at
  /\ \/ ~FitsU16(w) /\ Refuse
     \/ /\ FitsU16(w) /\ w > 0
        /\ body' = [body EXCEPT ![len] = w]
        /\ counter' = get_counter(w) /\ max_counter' = get_counter(w)
        /\ next_param' = chunks
        /\ result' = "OK" /\ UNCHANGED <<selectorIndex, sub_param>>
     \/ /\ w = 0
        /\ body' = [body EXCEPT ![len] = 0]
        /\ next_param' = after
        /\ Accept

(* NAME and SYMBOL: the first chunk is kept, the others are waited out. *)
text_chunk(at, len, buffer, after, w) ==
  /\ next_param = at
  /\ body' = IF counter = max_counter
             THEN [body EXCEPT ![buffer] = copy_text(body[len], w)] ELSE body
  /\ counter' = decrement_counter(counter)
  /\ next_param' = IF counter' = 0 THEN after ELSE at
  /\ result' = "OK" /\ UNCHANGED <<selectorIndex, sub_param, max_counter>>

(* A mutation: no test for an empty URI. *)
uri_length_never_empty(at, chunks, after, w) ==
  /\ next_param = at
  /\ parse_counter(w)
  /\ next_param' = chunks
  /\ UNCHANGED <<selectorIndex, sub_param, max_counter, body>>

(* BASE_URI_LENGTH and CONTRACT_URI_LENGTH. *)
uri_length(at, chunks, after, w) ==
  /\ next_param = at
  /\ parse_counter(w)
  /\ next_param' = IF counter' = 0 THEN after ELSE chunks
  /\ UNCHANGED <<selectorIndex, sub_param, max_counter, body>>

(* A mutation: the counter is not decremented. *)
uri_chunk_without_decrement(at, after) ==
  /\ next_param = at
  /\ next_param' = IF counter = 0 THEN after ELSE at
  /\ Accept /\ UNCHANGED body

(* BASE_URI and CONTRACT_URI. *)
uri_chunk(at, after) ==
  /\ next_param = at
  /\ counter' = decrement_counter(counter)
  /\ next_param' = IF counter' = 0 THEN after ELSE at
  /\ result' = "OK" /\ UNCHANGED <<selectorIndex, sub_param, max_counter, body>>

(* A mutation: the number of operators is not checked to fit. *)
operators_qty_of_any_width(w) ==
  /\ next_param = "OPERATORS_QTY"
  /\ counter' = w
  /\ next_param' = IF w = 0 THEN "UNEXPECTED_PARAMETER" ELSE "OPERATORS_ADDRESS"
  /\ result' = "OK" /\ UNCHANGED <<selectorIndex, sub_param, max_counter, body>>

operators_qty(w) ==
  /\ next_param = "OPERATORS_QTY"
  /\ \/ ~FitsU16(w) /\ Refuse
     \/ /\ FitsU16(w)
        /\ counter' = w
        /\ next_param' = IF w = 0 THEN "UNEXPECTED_PARAMETER" ELSE "OPERATORS_ADDRESS"
        /\ result' = "OK" /\ UNCHANGED <<selectorIndex, sub_param, max_counter, body>>

(* A mutation: the first operator is kept. *)
operators_address_first(w) ==
  /\ next_param = "OPERATORS_ADDRESS"
  /\ body' = IF ~body.operator_found
             THEN [body EXCEPT !.operator_found = TRUE, !.operator = copy_address(w)]
             ELSE body
  /\ counter' = decrement_counter(counter)
  /\ next_param' = IF counter' = 0 THEN "UNEXPECTED_PARAMETER" ELSE "OPERATORS_ADDRESS"
  /\ result' = "OK" /\ UNCHANGED <<selectorIndex, sub_param, max_counter>>

(* Only the last operator is kept. *)
operators_address(w) ==
  /\ next_param = "OPERATORS_ADDRESS"
  /\ body' = IF counter = 1
             THEN [body EXCEPT !.operator_found = TRUE, !.operator = copy_address(w)]
             ELSE body
  /\ counter' = decrement_counter(counter)
  /\ next_param' = IF counter' = 0 THEN "UNEXPECTED_PARAMETER" ELSE "OPERATORS_ADDRESS"
  /\ result' = "OK" /\ UNCHANGED <<selectorIndex, sub_param, max_counter>>

(* The cases both methods write the same way. *)
names_and_uris(w, end) ==
  \/ text_length("NAME_LENGTH", "name_len", "NAME", "SYMBOL_LENGTH", w)
  \/ text_chunk("NAME", "name_len", "name_text", "SYMBOL_LENGTH", w)
  \/ text_length("SYMBOL_LENGTH", "symbol_len", "SYMBOL", "BASE_URI_LENGTH", w)
  \/ text_chunk("SYMBOL", "symbol_len", "symbol_text", "BASE_URI_LENGTH", w)
  \/ uri_length("BASE_URI_LENGTH", "BASE_URI", "CONTRACT_URI_LENGTH", w)
  \/ uri_chunk("BASE_URI", "CONTRACT_URI_LENGTH")
  \/ uri_length("CONTRACT_URI_LENGTH", "CONTRACT_URI", end, w)
  \/ uri_chunk("CONTRACT_URI", end)

name_and_uri_params ==
  {"NAME_LENGTH", "NAME", "SYMBOL_LENGTH", "SYMBOL",
   "BASE_URI_LENGTH", "BASE_URI", "CONTRACT_URI_LENGTH", "CONTRACT_URI"}

create_token_head ==
  [NAME_OFFSET |-> "SYMBOL_OFFSET", SYMBOL_OFFSET |-> "BASE_URI_OFFSET",
   BASE_URI_OFFSET |-> "CONTRACT_URI_OFFSET", CONTRACT_URI_OFFSET |-> "OPERATORS_OFFSET",
   OPERATORS_OFFSET |-> "SALT", SALT |-> "NAME_LENGTH"]

handle_create_token(w) ==
  \/ Skip(create_token_head)
  \/ names_and_uris(w, "OPERATORS_QTY")
  \/ operators_qty(w)
  \/ operators_address(w)
  \/ Unsupported(DOMAIN create_token_head \cup name_and_uri_params
                   \cup {"OPERATORS_QTY", "OPERATORS_ADDRESS"})

rarible_init_head ==
  [NAME_OFFSET |-> "SYMBOL_OFFSET", SYMBOL_OFFSET |-> "BASE_URI_OFFSET",
   BASE_URI_OFFSET |-> "CONTRACT_URI_OFFSET",
   CONTRACT_URI_OFFSET |-> "TRANSFER_PROXY_ADDRESS"]

handle_erc721_rarible_init(w) ==
  \/ Skip(rarible_init_head)
  \/ TakeAddress("TRANSFER_PROXY_ADDRESS", "transfer_proxy",
                 "LAZY_TRANSFER_PROXY_ADDRESS", w)
  \/ TakeAddress("LAZY_TRANSFER_PROXY_ADDRESS", "lazy_transfer_proxy", "NAME_LENGTH", w)
  \/ names_and_uris(w, "UNEXPECTED_PARAMETER")
  \/ Unsupported(DOMAIN rarible_init_head \cup name_and_uri_params
                   \cup {"TRANSFER_PROXY_ADDRESS", "LAZY_TRANSFER_PROXY_ADDRESS"})
=============================================================================
