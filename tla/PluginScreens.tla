--------------------------- MODULE PluginScreens ---------------------------
(***************************************************************************)
(* The calls after the last word: how many screens there are               *)
(* (handle_finalize), the title of the transaction                         *)
(* (handle_query_contract_id), each screen (handle_query_contract_ui), and *)
(* what main.c makes of an exception thrown while one is formatted.  They  *)
(* read the context and change none of it.                                 *)
(***************************************************************************)
EXTENDS PluginContext

VARIABLES
  numScreens,  \* msg->numScreens, which the app keeps
  screen       \* msg->title and msg->msg of the last screen asked for

screenVars == <<numScreens, screen>>

blank == [title |-> "", form |-> "none", value |-> ""]

-----------------------------------------------------------------------------
(* How a value is printed: `form' is the kind of text, `value' what it     *)
(* spells.                                                                 *)

address_ui(title, address) == [title |-> title, form |-> "address", value |-> address]
text_ui(title, buffer)     == [title |-> title, form |-> "text", value |-> buffer]
token_id_ui(id)            == [title |-> "ID", form |-> "number", value |-> id]
notice_ui(title, notice)   == [title |-> title, form |-> "notice", value |-> notice]

creator_ui(found, creator) ==
  IF found THEN address_ui("Creator", creator) ELSE notice_ui("Creator", "No Creators")
operator_ui(found, operator) ==
  IF found THEN address_ui("Operator", operator) ELSE notice_ui("Operator", "No Operators")
set_is_approved(isApproved) ==
  notice_ui("Approved", IF isApproved = 0 THEN "False" ELSE "True")

(* The digits "%d" prints.  The formats use it for numbers below 100; it   *)
(* has a third digit for a boundary between them that is put too high.     *)
Digits(n) ==
  IF n <= 9 THEN <<n>> ELSE IF n <= 99 THEN <<n \div 10, n % 10>>
  ELSE <<n \div 100, (n \div 10) % 10, n % 10>>

percent(whole, decimals) == [whole |-> whole, decimals |-> decimals]

(* A royalty in hundredths of a percent. *)
printed_royalties(r) ==
  LET decimal == r % 100
  IN IF r <= 9 THEN percent(0, <<0>> \o Digits(r))
     ELSE IF r <= 99 THEN percent(0, Digits(r))
     ELSE IF decimal <= 9 THEN percent(r \div 100, <<0>> \o Digits(decimal))
     ELSE percent(r \div 100, Digits(decimal))

set_royalties_ui(r) ==
  IF r <= 10000
  THEN [title |-> "Royalties", form |-> "percent", value |-> printed_royalties(r)]
  ELSE notice_ui("Royalties", "-")

(* The screens of a method, in the order of their index. *)
Screens ==
  CASE selectorIndex = "MINT_AND_TRANSFER" ->
         <<token_id_ui(body.id), address_ui("Beneficiary", body.beneficiary),
           creator_ui(body.creator_found, body.creator), set_royalties_ui(body.royalties)>>
    [] selectorIndex = "CANCEL" ->
         <<address_ui("Maker", body.maker), address_ui("Taker", body.taker)>>
    [] selectorIndex = "MATCH_ORDERS" ->
         <<address_ui("Left Maker", body.left_maker), address_ui("Left Taker", body.left_taker),
           address_ui("Right Maker", body.right_maker),
           address_ui("Right Taker", body.right_taker)>>
    [] selectorIndex = "TRANSFER_FROM_OR_MINT" ->
         <<token_id_ui(body.id), address_ui("Seller", body.seller),
           address_ui("Beneficiary", body.beneficiary), address_ui("Creator", body.creator),
           set_royalties_ui(body.royalties)>>
    [] selectorIndex = "SET_APPROVED_FOR_ALL" ->
         <<address_ui("To", body.to), set_is_approved(body.isApproved)>>
    [] selectorIndex = "CREATE_TOKEN" ->
         <<text_ui("Name", body.name_text), text_ui("Symbol", body.symbol_text),
           operator_ui(body.operator_found, body.operator)>>
    [] selectorIndex = "ERC721_RARIBLE_INIT" ->
         <<text_ui("Name", body.name_text), text_ui("Symbol", body.symbol_text),
           address_ui("Transfer", body.transfer_proxy),
           address_ui("Lazy Transfer", body.lazy_transfer_proxy)>>

-----------------------------------------------------------------------------
(* The handlers. *)

(* A mutation: the screen of the signature, which is commented out in the  *)
(* code, is still counted.                                                 *)
screens_with_signature ==
  [MINT_AND_TRANSFER |-> 5, CANCEL |-> 2, MATCH_ORDERS |-> 4, TRANSFER_FROM_OR_MINT |-> 6,
   SET_APPROVED_FOR_ALL |-> 2, CREATE_TOKEN |-> 3, ERC721_RARIBLE_INIT |-> 4]

screens_of ==
  [MINT_AND_TRANSFER |-> 4, CANCEL |-> 2, MATCH_ORDERS |-> 4, TRANSFER_FROM_OR_MINT |-> 5,
   SET_APPROVED_FOR_ALL |-> 2, CREATE_TOKEN |-> 3, ERC721_RARIBLE_INIT |-> 4]

handle_finalize ==
  /\ numScreens' = screens_of[selectorIndex]
  /\ result' = "OK" /\ UNCHANGED <<context, screen>>

(* The plugin asks for no token information; what it is sent it ignores. *)
handle_provide_token == result' = "OK" /\ UNCHANGED <<context, screenVars>>

version_of ==
  [MINT_AND_TRANSFER |-> "Mint&Transfer", CANCEL |-> "Cancel",
   MATCH_ORDERS |-> "Match Orders", TRANSFER_FROM_OR_MINT |-> "TransferFromOrMint",
   SET_APPROVED_FOR_ALL |-> "SetApprovalForAll", CREATE_TOKEN |-> "Create Token",
   ERC721_RARIBLE_INIT |-> "ERC 721 Init"]

handle_query_contract_id ==
  /\ screen' = notice_ui("Rarible", version_of[selectorIndex])
  /\ result' = "OK" /\ UNCHANGED <<context, numScreens>>

handle_query_contract_ui(screenIndex) ==
  /\ IF screenIndex < Len(Screens)
     THEN screen' = Screens[screenIndex + 1] /\ result' = "OK"
     ELSE screen' = blank /\ result' = "ERROR"
  /\ UNCHANGED <<context, numScreens>>

(* The app's routines that print an address or a number may throw.  The    *)
(* handler has cleared the screen, set the result to OK and the title, of  *)
(* an address written the "0x" as well, and does not return: main.c        *)
(* catches what was thrown.  What it does not expect it leaves at OK.      *)
MayThrow(s) == s.form \in {"address", "number"}

half_drawn(s) ==
  [blank EXCEPT !.title = s.title, !.form = IF s.form = "address" THEN "0x" ELSE "none"]

caught == {"0x6502", "EXCEPTION_OVERFLOW"}

handle_query_ui_exception(screenIndex, e) ==
  /\ screenIndex < Len(Screens) /\ MayThrow(Screens[screenIndex + 1])
  /\ screen' = half_drawn(Screens[screenIndex + 1])
  /\ result' = IF e \in caught THEN "ERROR" ELSE "OK"
  /\ UNCHANGED <<context, numScreens>>
=============================================================================
