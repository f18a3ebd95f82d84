---------------------------- MODULE OrderParams ----------------------------
(***************************************************************************)
(* parse_asset, parse_order, and the two methods that parse orders with    *)
(* them: handle_cancel and handle_match_orders.                            *)
(***************************************************************************)
EXTENDS PluginContext

asset_head ==
  [ASSET_TYPE_OFFSET |-> "ASSET_VALUE", ASSET_VALUE |-> "ASSET_CLASS",
   ASSET_CLASS |-> "ASSET_DATA_OFFSET", ASSET_DATA_OFFSET |-> "ASSET_DATA_LENGTH"]

(* One word of an asset.  parse_asset(msg, context) == 1 makes the caller   *)
(* move on to `after'; the last two arguments are what sub_param then is,  *)
(* at the end of an asset without data and of one with data.               *)
asset_word(w, after, without_data, with_data) ==
  \/ /\ sub_param \in DOMAIN asset_head
     /\ sub_param' = asset_head[sub_param]
     /\ result' = "OK"
     /\ UNCHANGED <<next_param, counter>>
  \/ /\ sub_param = "ASSET_DATA_LENGTH"
     /\ parse_counter(w)
     /\ next_param' = IF counter' = 0 THEN after ELSE next_param
     /\ sub_param' = IF counter' = 0 THEN without_data ELSE "ASSET_DATA"
  \/ /\ sub_param = "ASSET_DATA"
     /\ counter' = decrement_counter(counter)
     /\ next_param' = IF counter' = 0 THEN after ELSE next_param
     /\ sub_param' = IF counter' = 0 THEN with_data ELSE "ASSET_DATA"
     /\ result' = "OK"
  \/ /\ sub_param \notin DOMAIN asset_head \cup {"ASSET_DATA_LENGTH", "ASSET_DATA"}
     /\ result' = "ERROR"
     /\ UNCHANGED <<next_param, sub_param, counter>>

(* Mutations: sub_param is given the caller's parameter; it is not set     *)
(* back for the second asset.                                              *)
parse_asset_mixing_params(w, after, restart) == asset_word(w, after, after, after)
parse_asset_without_restart(w, after, restart) ==
  asset_word(w, after, sub_param, "UNEXPECTED_PARAMETER")

(* The caller of the first asset starts the second one. *)
parse_asset(w, after, restart) ==
  IF restart THEN asset_word(w, after, "ASSET_TYPE_OFFSET", "ASSET_TYPE_OFFSET")
             ELSE asset_word(w, after, sub_param, "UNEXPECTED_PARAMETER")

order_skips ==
  [MAKE_ASSET_OFFSET |-> "TAKER", TAKE_ASSET_OFFSET |-> "SALT", SALT |-> "START",
   START |-> "END", END |-> "DATA_TYPE", DATA_TYPE |-> "DATA_OFFSET"]

order_params ==
  DOMAIN order_skips \cup
  {"MAKER", "TAKER", "DATA_OFFSET", "MAKE_ASSET", "TAKE_ASSET",
   "DATA_LENGTH", "DATA", "SIGNATURE_LENGTH", "SIGNATURE"}

(* A mutation: after an order there is always another one. *)
order_done_never_last(next_order) ==
  body' = [body EXCEPT !.order_side = next_order] /\ next_param' = "MAKER"

(* The order is over: the next one, or nothing, is expected. *)
order_done(next_order) ==
  /\ body' = [body EXCEPT !.order_side = next_order]
  /\ next_param' = IF next_order = ERROR_ORDER THEN "UNEXPECTED_PARAMETER" ELSE "MAKER"

(* DATA_LENGTH and SIGNATURE_LENGTH: the next word is waited for even when *)
(* the length is zero.                                                     *)
order_length(at, chunks, w) ==
  /\ next_param = at
  /\ parse_counter(w)
  /\ next_param' = chunks
  /\ UNCHANGED <<selectorIndex, sub_param, max_counter, body>>

(* DATA and SIGNATURE. *)
order_chunk(at, last, next_order) ==
  /\ next_param = at
  /\ counter' = decrement_counter(counter)
  /\ \/ counter' # 0 /\ UNCHANGED <<next_param, body>>
     \/ counter' = 0 /\ last /\ order_done(next_order)
     \/ counter' = 0 /\ ~last /\ next_param' = "SIGNATURE_LENGTH" /\ UNCHANGED body
  /\ result' = "OK" /\ UNCHANGED <<selectorIndex, sub_param, max_counter>>

parse_order(w, maker, taker, next_order, with_signature) ==
  \/ Skip(order_skips)
  \/ TakeAddress("MAKER", maker, "MAKE_ASSET_OFFSET", w)
  \/ TakeAddress("TAKER", taker, "TAKE_ASSET_OFFSET", w)
  \/ /\ next_param = "DATA_OFFSET"
     /\ next_param' = "MAKE_ASSET" /\ sub_param' = "ASSET_TYPE_OFFSET"
     /\ result' = "OK" /\ UNCHANGED <<selectorIndex, counter, max_counter, body>>
  \/ /\ next_param = "MAKE_ASSET"
     /\ parse_asset(w, "TAKE_ASSET", TRUE)
     /\ UNCHANGED <<selectorIndex, max_counter, body>>
  \/ /\ next_param = "TAKE_ASSET"
     /\ parse_asset(w, "DATA_LENGTH", FALSE)
     /\ UNCHANGED <<selectorIndex, max_counter, body>>
  \/ order_length("DATA_LENGTH", "DATA", w)
  \/ order_chunk("DATA", ~with_signature, next_order)
  \/ order_length("SIGNATURE_LENGTH", "SIGNATURE", w)
  \/ order_chunk("SIGNATURE", TRUE, next_order)
  \/ Unsupported(order_params)

(* A mutation: a cancel names the order after it as a match does. *)
handle_cancel_with_next(w) ==
  \/ Skip([BODY_OFFSET |-> "MAKER"])
  \/ /\ next_param # "BODY_OFFSET"
     /\ parse_order(w, "maker", "taker", RIGHT_ORDER, FALSE)

handle_cancel(w) ==
  \/ Skip([BODY_OFFSET |-> "MAKER"])
  \/ /\ next_param # "BODY_OFFSET"
     /\ parse_order(w, "maker", "taker", ERROR_ORDER, FALSE)

match_head ==
  [LEFT_ORDER_OFFSET |-> "LEFT_SIGNATURE_OFFSET",
   LEFT_SIGNATURE_OFFSET |-> "RIGHT_ORDER_OFFSET",
   RIGHT_ORDER_OFFSET |-> "RIGHT_SIGNATURE_OFFSET"]

match_offsets ==
  \/ Skip(match_head)
  \/ /\ next_param = "RIGHT_SIGNATURE_OFFSET"
     /\ body' = [body EXCEPT !.order_side = LEFT_ORDER]
     /\ next_param' = "MAKER" /\ Accept
  \/ Unsupported(DOMAIN match_head \cup {"RIGHT_SIGNATURE_OFFSET"})

(* A mutation: the right order is kept where the left one is. *)
handle_match_orders_left_twice(w) ==
  \/ body.order_side = NO_ORDER /\ match_offsets
  \/ /\ body.order_side = LEFT_ORDER
     /\ parse_order(w, "left_maker", "left_taker", RIGHT_ORDER, TRUE)
  \/ /\ body.order_side = RIGHT_ORDER
     /\ parse_order(w, "left_maker", "left_taker", ERROR_ORDER, TRUE)
  \/ body.order_side = ERROR_ORDER /\ Refuse

handle_match_orders(w) ==
  \/ body.order_side = NO_ORDER /\ match_offsets
  \/ /\ body.order_side = LEFT_ORDER
     /\ parse_order(w, "left_maker", "left_taker", RIGHT_ORDER, TRUE)
  \/ /\ body.order_side = RIGHT_ORDER
     /\ parse_order(w, "right_maker", "right_taker", ERROR_ORDER, TRUE)
  \/ body.order_side = ERROR_ORDER /\ Refuse
=============================================================================
