--------------------------- MODULE PluginContext ---------------------------
(***************************************************************************)
(* The memory the plugin keeps between two calls of the Ethereum app       *)
(* (context_t in rarible_plugin.h), the helpers every parameter handler    *)
(* uses, and handle_init_contract, which prepares that memory for a        *)
(* transaction.                                                            *)
(*                                                                         *)
(* A calldata word is a natural number.  What the handlers do with one:    *)
(* read it as an unsigned 16-bit number when it is one                     *)
(* (U2BE_from_parameter), keep its low 20 bytes (copy_address), keep all   *)
(* of it (copy_parameter) or keep its leading bytes (copy_text).           *)
(***************************************************************************)
EXTENDS Integers, Sequences

CONSTANT AddressModulus  \* 2^160: an address is the low 20 bytes of a word

U16              == 65536  \* the values of a uint16_t are 0 .. U16 - 1
PARAMETER_LENGTH == 32     \* bytes in a calldata word
ROYALTY_MAX_VALUE == 10000

ASSUME AddressAssumption == AddressModulus \in Nat /\ AddressModulus > U16

VARIABLES
  selectorIndex,  \* the method of the transaction being parsed (selector_t)
  next_param,     \* the parameter the next word is taken for
  sub_param,      \* inside an asset, the part of it the next word is taken for
  counter,        \* words still to be waited for
  max_counter,    \* the value counter started from, for a name or a symbol
  body,           \* the member of the tx.body union that selectorIndex selects
  result          \* msg->result of the last call

context == <<selectorIndex, next_param, sub_param, counter, max_counter, body>>
contextVars == <<context, result>>

(* The order of selector_t, and of the array contract.c declares. *)
selector_t ==
  <<"MINT_AND_TRANSFER", "CANCEL", "MATCH_ORDERS", "TRANSFER_FROM_OR_MINT",
    "SET_APPROVED_FOR_ALL", "CREATE_TOKEN", "ERC721_RARIBLE_INIT">>
RARIBLE_SELECTORS ==
  <<"22a775b6", "e2864fe3", "e99a3f80", "832fbb29",
    "a22cb465", "27050d1f", "3db397c6">>
SelectorNames == {"MINT_AND_TRANSFER", "CANCEL", "MATCH_ORDERS", "TRANSFER_FROM_OR_MINT",
                  "SET_APPROVED_FOR_ALL", "CREATE_TOKEN", "ERC721_RARIBLE_INIT"}

(* order_side: which order of a match is being parsed (int8_t). *)
NO_ORDER    == 0
LEFT_ORDER  == -1
RIGHT_ORDER == 1
ERROR_ORDER == -3

(* The text buffer of a name or a symbol: the n leading bytes of the word  *)
(* `from', followed by the zeros of the memset.                            *)
text(n, from) == [n |-> n, from |-> from]
no_text == text(0, 0)

zero_mint == [id |-> 0, beneficiary |-> 0, creator_found |-> FALSE, creator |-> 0,
              royalties |-> 0, uri_length |-> 0, creators_qty |-> 0,
              royalties_qty |-> 0, signatures_qty |-> 0, signatures_counter |-> 0,
              signature_length |-> 0]
zero_transfer == [id |-> 0, beneficiary |-> 0, seller |-> 0, creator |-> 0,
                  royalties |-> 0, uri_length |-> 0, creators_qty |-> 0,
                  royalties_qty |-> 0, signatures_qty |-> 0, signatures_counter |-> 0,
                  signature_length |-> 0]
(* parse_order sets match_orders.order_side while it parses a cancel too:  *)
(* the byte lies in the union beyond the order_t of a cancel.              *)
zero_cancel == [maker |-> 0, taker |-> 0, order_side |-> NO_ORDER]
zero_match == [left_maker |-> 0, left_taker |-> 0, right_maker |-> 0, right_taker |-> 0,
               order_side |-> NO_ORDER]
zero_approval == [to |-> 0, isApproved |-> 0]
zero_create == [operator_found |-> FALSE, operator |-> 0, name_len |-> 0,
                name_text |-> no_text, symbol_len |-> 0, symbol_text |-> no_text]
zero_init == [transfer_proxy |-> 0, lazy_transfer_proxy |-> 0, name_len |-> 0,
              name_text |-> no_text, symbol_len |-> 0, symbol_text |-> no_text]

zero_body ==
  [MINT_AND_TRANSFER |-> zero_mint, CANCEL |-> zero_cancel, MATCH_ORDERS |-> zero_match,
   TRANSFER_FROM_OR_MINT |-> zero_transfer, SET_APPROVED_FOR_ALL |-> zero_approval,
   CREATE_TOKEN |-> zero_create, ERC721_RARIBLE_INIT |-> zero_init]

-----------------------------------------------------------------------------
(* Helpers. *)

FitsU16(w) == w < U16                      \* U2BE_from_parameter returns true

copy_address(w) == w % AddressModulus

copy_text(len, w) ==
  text(IF len < PARAMETER_LENGTH THEN len ELSE PARAMETER_LENGTH, w)

get_counter_rounding_down(n) == n \div PARAMETER_LENGTH     \* a mutation

get_counter(n) ==
  IF n % PARAMETER_LENGTH # 0 THEN n \div PARAMETER_LENGTH + 1
                              ELSE n \div PARAMETER_LENGTH

decrement_counter(n) == IF n > 0 THEN n - 1 ELSE n

Minus1(n) == IF n = 0 THEN U16 - 1 ELSE n - 1   \* `--' on a uint16_t

(* What a case does to the fields it does not name. *)
Accept == result' = "OK" /\ UNCHANGED <<selectorIndex, sub_param, counter, max_counter>>

Refuse == result' = "ERROR" /\ UNCHANGED context

(* The cases that look at nothing in the word: next_param moves on. *)
Skip(successor) ==
  /\ next_param \in DOMAIN successor
  /\ next_param' = successor[next_param]
  /\ Accept /\ UNCHANGED body

(* The cases that keep the address in the word. *)
TakeAddress(at, field, after, w) ==
  /\ next_param = at
  /\ body' = [body EXCEPT ![field] = copy_address(w)]
  /\ next_param' = after
  /\ Accept

(* `default:' of a handler's switch. *)
Unsupported(params) == next_param \notin params /\ Refuse

(* A mutation: the length is taken for a number of words. *)
parse_counter_in_bytes(w) ==
  /\ counter' = IF FitsU16(w) THEN w ELSE counter
  /\ result' = IF FitsU16(w) THEN "OK" ELSE "ERROR"

(* A length that does not fit is refused, and the case still runs to its   *)
(* end with the old counter.                                               *)
parse_counter(w) ==
  /\ counter' = IF FitsU16(w) THEN get_counter(w) ELSE counter
  /\ result' = IF FitsU16(w) THEN "OK" ELSE "ERROR"

-----------------------------------------------------------------------------
(* handle_init_contract. *)

first_param ==
  [MINT_AND_TRANSFER |-> "BODY_OFFSET", CANCEL |-> "BODY_OFFSET",
   MATCH_ORDERS |-> "LEFT_ORDER_OFFSET", TRANSFER_FROM_OR_MINT |-> "BODY_OFFSET",
   SET_APPROVED_FOR_ALL |-> "TO", CREATE_TOKEN |-> "NAME_OFFSET",
   ERC721_RARIBLE_INIT |-> "NAME_OFFSET"]

(* A mutation: no memset. *)
PreparedWithoutMemset(sel, param) ==
  /\ selectorIndex' = sel /\ next_param' = param
  /\ UNCHANGED <<sub_param, counter, max_counter, body>>

(* A mutation: what the last transaction of the method left is kept. *)
PreparedOver(sel, param) ==
  /\ selectorIndex' = sel /\ next_param' = param
  /\ sub_param' = "BODY_OFFSET" /\ counter' = 0 /\ max_counter' = 0
  /\ body' = IF selectorIndex = sel THEN body ELSE zero_body[sel]

(* The context after memset(context, 0, ...), then given its method.       *)
(* BODY_OFFSET is parameter 0.                                             *)
Prepared(sel, param) ==
  /\ selectorIndex' = sel /\ next_param' = param
  /\ sub_param' = "BODY_OFFSET" /\ counter' = 0 /\ max_counter' = 0
  /\ body' = zero_body[sel]

handle_init_contract(compatible, roomy, selector) ==
  \/ /\ ~compatible
     /\ result' = "UNAVAILABLE" /\ UNCHANGED context
  \/ /\ compatible /\ ~roomy
     /\ result' = "ERROR" /\ UNCHANGED context
  \/ /\ compatible /\ roomy
     /\ \A i \in 1..Len(RARIBLE_SELECTORS) : RARIBLE_SELECTORS[i] # selector
     /\ result' = "UNAVAILABLE"
     /\ Prepared("MINT_AND_TRANSFER", "BODY_OFFSET")
  \/ /\ compatible /\ roomy
     /\ \E i \in 1..Len(RARIBLE_SELECTORS) :
          /\ RARIBLE_SELECTORS[i] = selector
          /\ Prepared(selector_t[i], first_param[selector_t[i]])
     /\ result' = "OK"
=============================================================================
