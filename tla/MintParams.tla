----------------------------- MODULE MintParams -----------------------------
(***************************************************************************)
(* handle_mint_and_transfer and handle_transfer_from_or_mint.  They count  *)
(* in uint16_t members of their own, decremented with `--', and not in     *)
(* context->counter.                                                       *)
(***************************************************************************)
EXTENDS PluginContext

Moves(p) == next_param' = p /\ Accept

take_id(w) ==
  /\ next_param = "ID"
  /\ body' = [body EXCEPT !.id = w]       \* copy_parameter: all 32 bytes
  /\ Moves("URI_OFFSET")

(* URI_CHUNK_OFFSET; only transfer_from_or_mint looks for an empty URI. *)
uri_words(w, ifEmpty) ==
  /\ next_param = "URI_CHUNK_OFFSET"
  /\ \/ ~FitsU16(w) /\ Refuse
     \/ /\ FitsU16(w)
        /\ body' = [body EXCEPT !.uri_length = get_counter(w)]
        /\ Moves(IF get_counter(w) = 0 THEN ifEmpty ELSE "WAIT_UNTIL_CREATORS")

(* A mutation: the counter is tested before it is decremented. *)
wait_one_word_more ==
  /\ next_param = "WAIT_UNTIL_CREATORS"
  /\ body' = [body EXCEPT !.uri_length = Minus1(@)]
  /\ Moves(IF body.uri_length = 0 THEN "CREATORS_QTY" ELSE "WAIT_UNTIL_CREATORS")

wait_until_creators ==
  /\ next_param = "WAIT_UNTIL_CREATORS"
  /\ body' = [body EXCEPT !.uri_length = Minus1(@)]
  /\ Moves(IF body'.uri_length = 0 THEN "CREATORS_QTY" ELSE "WAIT_UNTIL_CREATORS")

(* A mutation: the length of the list is not checked to fit. *)
read_quantity_of_any_width(at, qty, element, ifNone, w) ==
  /\ next_param = at
  /\ body' = [body EXCEPT ![qty] = w]
  /\ Moves(IF w = 0 THEN ifNone ELSE element)

(* CREATORS_QTY and ROYALTIES_QTY. *)
read_quantity(at, qty, element, ifNone, w) ==
  /\ next_param = at
  /\ \/ ~FitsU16(w) /\ Refuse
     \/ /\ FitsU16(w)
        /\ body' = [body EXCEPT ![qty] = w]
        /\ Moves(IF w = 0 THEN ifNone ELSE element)

(* A mutation: every creator is kept, and the last one stays. *)
creators_address_every(w, flagged) ==
  /\ next_param = "CREATORS_ADDRESS"
  /\ body' = IF flagged
             THEN [body EXCEPT !.creator_found = TRUE, !.creator = copy_address(w)]
             ELSE [body EXCEPT !.creator = copy_address(w)]
  /\ Moves("CREATORS_VALUE")

(* Only the last creator is kept.  The struct of a mint flags that there   *)
(* is one; the struct of a transfer has no such flag.                      *)
creators_address(w, flagged) ==
  /\ next_param = "CREATORS_ADDRESS"
  /\ body' = IF body.creators_qty # 1 THEN body
             ELSE IF flagged
             THEN [body EXCEPT !.creator_found = TRUE, !.creator = copy_address(w)]
             ELSE [body EXCEPT !.creator = copy_address(w)]
  /\ Moves("CREATORS_VALUE")

creators_value ==
  /\ next_param = "CREATORS_VALUE"
  /\ body' = [body EXCEPT !.creators_qty = Minus1(@)]
  /\ Moves(IF body'.creators_qty # 0 THEN "CREATORS_ADDRESS" ELSE "ROYALTIES_QTY")

(* A mutation: no maximum. *)
royalties_value_unchecked(w, max) ==
  /\ next_param = "ROYALTIES_VALUE"
  /\ \/ body.royalties_qty = 1 /\ ~FitsU16(w) /\ Refuse
     \/ /\ body.royalties_qty = 1 => FitsU16(w)
        /\ body' = [body EXCEPT !.royalties = IF body.royalties_qty = 1 THEN w ELSE @,
                                !.royalties_qty = Minus1(@)]
        /\ Moves(IF body'.royalties_qty # 0 THEN "ROYALTIES_ADDRESS" ELSE "SIGNATURES_QTY")

(* Only the last royalty is read, and checked against `max'.  A royalty    *)
(* above it is stored before the call is refused.                          *)
royalties_value(w, max) ==
  /\ next_param = "ROYALTIES_VALUE"
  /\ \/ body.royalties_qty = 1 /\ ~FitsU16(w) /\ Refuse
     \/ /\ body.royalties_qty = 1 /\ FitsU16(w) /\ w > max
        /\ body' = [body EXCEPT !.royalties = w]
        /\ result' = "ERROR"
        /\ UNCHANGED <<selectorIndex, next_param, sub_param, counter, max_counter>>
     \/ /\ body.royalties_qty = 1 => w <= max
        /\ body' = [body EXCEPT !.royalties = IF body.royalties_qty = 1 THEN w ELSE @,
                                !.royalties_qty = Minus1(@)]
        /\ Moves(IF body'.royalties_qty # 0 THEN "ROYALTIES_ADDRESS" ELSE "SIGNATURES_QTY")

(* A mutation: the offsets are not counted from the number of signatures. *)
signatures_qty_without_counter(w) ==
  /\ next_param = "SIGNATURES_QTY"
  /\ \/ ~FitsU16(w) /\ Refuse
     \/ /\ FitsU16(w)
        /\ body' = [body EXCEPT !.signatures_qty = w]
        /\ Moves(IF w = 0 THEN "UNEXPECTED_PARAMETER" ELSE "SIGNATURE_OFFSET")

signatures_qty(w) ==
  /\ next_param = "SIGNATURES_QTY"
  /\ \/ ~FitsU16(w) /\ Refuse
     \/ /\ FitsU16(w)
        /\ body' = [body EXCEPT !.signatures_qty = w, !.signatures_counter = w]
        /\ Moves(IF w = 0 THEN "UNEXPECTED_PARAMETER" ELSE "SIGNATURE_OFFSET")

signature_offset ==
  /\ next_param = "SIGNATURE_OFFSET"
  /\ body' = [body EXCEPT !.signatures_counter = Minus1(@)]
  /\ Moves(IF body'.signatures_counter = 0 THEN "SIGNATURE_LENGTH" ELSE "SIGNATURE_OFFSET")

(* A mutation: the length of a signature is read into the royalties. *)
signature_words_into_royalties(w) ==
  /\ next_param = "SIGNATURE_LENGTH"
  /\ \/ ~FitsU16(w) /\ Refuse
     \/ /\ FitsU16(w)
        /\ body' = [body EXCEPT !.royalties = w, !.signature_length = get_counter(w)]
        /\ Moves("SIGNATURE")

signature_words(w) ==
  /\ next_param = "SIGNATURE_LENGTH"
  /\ \/ ~FitsU16(w) /\ Refuse
     \/ /\ FitsU16(w)
        /\ body' = [body EXCEPT !.signature_length = get_counter(w)]
        /\ Moves("SIGNATURE")

(* A mutation: the signatures are not counted down. *)
signature_chunk_uncounted ==
  /\ next_param = "SIGNATURE"
  /\ body' = [body EXCEPT !.signature_length = Minus1(@)]
  /\ Moves(IF body'.signature_length # 0 THEN "SIGNATURE" ELSE "SIGNATURE_LENGTH")

(* A mutation: after the signatures the lists are read again. *)
signature_chunk_from_creators ==
  /\ next_param = "SIGNATURE"
  /\ body' = [body EXCEPT !.signature_length = Minus1(@)]
  /\ Moves(IF body'.signature_length # 0 THEN "SIGNATURE" ELSE "CREATORS_QTY")

signature_chunk ==
  /\ next_param = "SIGNATURE"
  /\ LET left == Minus1(body.signature_length)
         signatures == IF left = 0 THEN Minus1(body.signatures_qty) ELSE body.signatures_qty
     IN /\ body' = [body EXCEPT !.signature_length = left, !.signatures_qty = signatures]
        /\ Moves(IF left # 0 THEN "SIGNATURE"
                 ELSE IF signatures # 0 THEN "SIGNATURE_LENGTH"
                 ELSE "UNEXPECTED_PARAMETER")

(* From the token id on, what the two methods write the same way. *)
lists_and_signatures(w) ==
  \/ take_id(w)
  \/ wait_until_creators
  \/ read_quantity("CREATORS_QTY", "creators_qty", "CREATORS_ADDRESS", "ROYALTIES_QTY", w)
  \/ creators_value
  \/ read_quantity("ROYALTIES_QTY", "royalties_qty", "ROYALTIES_ADDRESS", "SIGNATURES_QTY", w)
  \/ signatures_qty(w)
  \/ signature_offset
  \/ signature_words(w)
  \/ signature_chunk

mint_skips ==
  [BODY_OFFSET |-> "BENEFICIARY", URI_OFFSET |-> "CREATORS_OFFSET",
   CREATORS_OFFSET |-> "ROYALTIES_OFFSET", ROYALTIES_OFFSET |-> "SIGNATURES_OFFSET",
   SIGNATURES_OFFSET |-> "URI_CHUNK_OFFSET", ROYALTIES_ADDRESS |-> "ROYALTIES_VALUE"]

mint_params ==
  DOMAIN mint_skips \cup
  {"BENEFICIARY", "ID", "URI_CHUNK_OFFSET", "WAIT_UNTIL_CREATORS", "CREATORS_QTY",
   "CREATORS_ADDRESS", "CREATORS_VALUE", "ROYALTIES_QTY", "ROYALTIES_VALUE",
   "SIGNATURES_QTY", "SIGNATURE_OFFSET", "SIGNATURE_LENGTH", "SIGNATURE"}

handle_mint_and_transfer(w) ==
  \/ Skip(mint_skips)
  \/ TakeAddress("BENEFICIARY", "beneficiary", "ID", w)
  \/ uri_words(w, "WAIT_UNTIL_CREATORS")
  \/ creators_address(w, TRUE)
  \/ royalties_value(w, ROYALTY_MAX_VALUE)
  \/ lists_and_signatures(w)
  \/ Unsupported(mint_params)

(* BENEFICIARY is the `from' word here, and SELLER the `to' word. *)
handle_transfer_from_or_mint(w) ==
  \/ Skip(mint_skips)
  \/ TakeAddress("BENEFICIARY", "seller", "SELLER", w)
  \/ TakeAddress("SELLER", "beneficiary", "ID", w)
  \/ uri_words(w, "CREATORS_QTY")
  \/ creators_address(w, FALSE)
  \/ royalties_value(w, U16 - 1)
  \/ lists_and_signatures(w)
  \/ Unsupported(mint_params \cup {"SELLER"})
=============================================================================
