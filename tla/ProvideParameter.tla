-------------------------- MODULE ProvideParameter --------------------------
(***************************************************************************)
(* handle_provide_parameter: the Ethereum app hands over one word of the   *)
(* calldata, and the parser of the transaction's method takes it.          *)
(***************************************************************************)
EXTENDS TokenParams, MintParams, OrderParams

handle_set_approved_for_all(w) ==
  \/ TakeAddress("TO", "to", "IS_APPROVED", w)
  \/ /\ next_param = "IS_APPROVED"
     /\ \/ ~FitsU16(w) /\ Refuse
        \/ /\ FitsU16(w)
           /\ body' = [body EXCEPT !.isApproved = w]
           /\ next_param' = "UNEXPECTED_PARAMETER" /\ Accept
  \/ Unsupported({"TO", "IS_APPROVED"})

handle_provide_parameter(w) ==
  \/ selectorIndex = "MINT_AND_TRANSFER" /\ handle_mint_and_transfer(w)
  \/ selectorIndex = "CANCEL" /\ handle_cancel(w)
  \/ selectorIndex = "MATCH_ORDERS" /\ handle_match_orders(w)
  \/ selectorIndex = "TRANSFER_FROM_OR_MINT" /\ handle_transfer_from_or_mint(w)
  \/ selectorIndex = "SET_APPROVED_FOR_ALL" /\ handle_set_approved_for_all(w)
  \/ selectorIndex = "CREATE_TOKEN" /\ handle_create_token(w)
  \/ selectorIndex = "ERC721_RARIBLE_INIT" /\ handle_erc721_rarible_init(w)

-----------------------------------------------------------------------------
(* The C types of the context.  (U2BE_from_parameter and `--' keep the     *)
(* counts in a uint16_t; NAME_MAX_LEN bounds what is copied into a text.)  *)

Count   == 0..(U16 - 1)
Address == 0..(AddressModulus - 1)
Text    == [n : 0..PARAMETER_LENGTH, from : Nat]

Parameters ==
  DOMAIN create_token_head \cup DOMAIN rarible_init_head \cup name_and_uri_params
  \cup {"OPERATORS_QTY", "OPERATORS_ADDRESS", "TRANSFER_PROXY_ADDRESS",
        "LAZY_TRANSFER_PROXY_ADDRESS", "SELLER", "TO", "IS_APPROVED",
        "RIGHT_SIGNATURE_OFFSET", "UNEXPECTED_PARAMETER"}
  \cup mint_params \cup order_params \cup DOMAIN match_head
SubParameters ==
  DOMAIN asset_head
    \cup {"BODY_OFFSET", "ASSET_DATA_LENGTH", "ASSET_DATA", "UNEXPECTED_PARAMETER"}
OrderSides == {NO_ORDER, LEFT_ORDER, RIGHT_ORDER, ERROR_ORDER}

mint_body ==
  [id : Nat, beneficiary : Address, creator_found : BOOLEAN, creator : Address,
   royalties : Count, uri_length : Count, creators_qty : Count, royalties_qty : Count,
   signatures_qty : Count, signatures_counter : Count, signature_length : Count]
transfer_body ==
  [id : Nat, beneficiary : Address, seller : Address, creator : Address,
   royalties : Count, uri_length : Count, creators_qty : Count, royalties_qty : Count,
   signatures_qty : Count, signatures_counter : Count, signature_length : Count]
cancel_body == [maker : Address, taker : Address, order_side : OrderSides]
match_body == [left_maker : Address, left_taker : Address, right_maker : Address,
               right_taker : Address, order_side : OrderSides]
approval_body == [to : Address, isApproved : Count]
create_body == [operator_found : BOOLEAN, operator : Address, name_len : Count,
                name_text : Text, symbol_len : Count, symbol_text : Text]
init_body == [transfer_proxy : Address, lazy_transfer_proxy : Address, name_len : Count,
              name_text : Text, symbol_len : Count, symbol_text : Text]

ContextTypeOK ==
  /\ selectorIndex \in SelectorNames
  /\ next_param \in Parameters /\ sub_param \in SubParameters
  /\ counter \in Count /\ max_counter \in Count
  /\ selectorIndex = "MINT_AND_TRANSFER" => body \in mint_body
  /\ selectorIndex = "TRANSFER_FROM_OR_MINT" => body \in transfer_body
  /\ selectorIndex = "CANCEL" => body \in cancel_body
  /\ selectorIndex = "MATCH_ORDERS" => body \in match_body
  /\ selectorIndex = "SET_APPROVED_FOR_ALL" => body \in approval_body
  /\ selectorIndex = "CREATE_TOKEN" => body \in create_body
  /\ selectorIndex = "ERC721_RARIBLE_INIT" => body \in init_body
=============================================================================
