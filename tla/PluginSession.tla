--------------------------- MODULE PluginSession ---------------------------
(***************************************************************************)
(* The plugin's life: one transaction after the other, each opened with a  *)
(* selector, fed word by word, finalized, and reviewed on the screens.     *)
(* The Ethereum app, which is not in the repository, sends the messages in *)
(* this order; it may finalize after any word (the calldata is as long as  *)
(* the sender made it), the user may page back and forth, and the host may *)
(* drop the connection at any time.  All transactions share one context.   *)
(***************************************************************************)
EXTENDS ParameterFeed, PluginScreens

CONSTANTS
  Calls,      \* the selectors transactions are sent with
  Exceptions  \* the exceptions a screen may run into

(* Only exceptions the catch in main.c matches are thrown in a screen.     *)
(* Nothing in the repository says that there are no others; the properties *)
(* say nothing of one, which would leave OK with a half-drawn screen.      *)
ASSUME ExceptionsAssumption == Exceptions \subseteq caught

VARIABLES
  phase,   \* idle, feeding, finalized, review or signed
  wanted,  \* the method the transaction calls
  shown,   \* screens of the review up to and including the one shown
  told     \* history: what the user has read, <<field, value>> pairs

sessionVars == <<vars, screenVars, phase, wanted, shown, told>>

(* The methods the README supports, by their selectors. *)
MethodCalled(selector) ==
  CASE selector = "e2864fe3" -> "CANCEL"
    [] selector = "27050d1f" -> "CREATE_TOKEN"
    [] selector = "3db397c6" -> "ERC721_RARIBLE_INIT"
    [] selector = "e99a3f80" -> "MATCH_ORDERS"
    [] selector = "22a775b6" -> "MINT_AND_TRANSFER"
    [] selector = "a22cb465" -> "SET_APPROVED_FOR_ALL"
    [] selector = "832fbb29" -> "TRANSFER_FROM_OR_MINT"
    [] OTHER -> "NONE"

-----------------------------------------------------------------------------
(* What a user takes from a screen, who knows the method and the fields    *)
(* the README lists for it.                                                *)

MethodNamed ==
  [MINT_AND_TRANSFER |-> "Mint&Transfer", CANCEL |-> "Cancel",
   MATCH_ORDERS |-> "Match Orders", TRANSFER_FROM_OR_MINT |-> "TransferFromOrMint",
   SET_APPROVED_FOR_ALL |-> "SetApprovalForAll", CREATE_TOKEN |-> "Create Token",
   ERC721_RARIBLE_INIT |-> "ERC 721 Init"]

Titles ==
  [MINT_AND_TRANSFER |->
     [ID |-> "ID", BENEFICIARY |-> "Beneficiary", CREATORS |-> "Creator",
      ROYALTIES |-> "Royalties"],
   CANCEL |-> [MAKER |-> "Maker", TAKER |-> "Taker"],
   MATCH_ORDERS |->
     [LEFT_MAKER |-> "Left Maker", LEFT_TAKER |-> "Left Taker",
      RIGHT_MAKER |-> "Right Maker", RIGHT_TAKER |-> "Right Taker"],
   TRANSFER_FROM_OR_MINT |->
     [ID |-> "ID", FROM |-> "Seller", RECIPIENT |-> "Beneficiary",
      LAST_CREATOR |-> "Creator", ROYALTIES |-> "Royalties"],
   SET_APPROVED_FOR_ALL |-> [OPERATOR |-> "To", APPROVED |-> "Approved"],
   CREATE_TOKEN |-> [NAME |-> "Name", SYMBOL |-> "Symbol", OPERATORS |-> "Operator"],
   ERC721_RARIBLE_INIT |->
     [NAME |-> "Name", SYMBOL |-> "Symbol", TRANSFER_PROXY |-> "Transfer",
      LAZY_TRANSFER_PROXY |-> "Lazy Transfer"]]

(* "0.5%" would be 50 hundredths of a percent. *)
Hundredths(p) ==
  100 * p.whole + 10 * p.decimals[1] + (IF Len(p.decimals) > 1 THEN p.decimals[2] ELSE 0)

(* Royalties of more than 100% are shown as a dash. *)
NoPercentage == U16

Reading(f, s) ==
  CASE s.form = "address" -> IF f \in {"CREATORS", "OPERATORS"} THEN <<s.value>> ELSE s.value
    [] s.form \in {"number", "text"} -> s.value
    [] s.form = "percent" -> Hundredths(s.value)
    [] s.form = "notice" /\ f = "ROYALTIES" -> NoPercentage
    [] s.form = "notice" /\ f = "APPROVED" -> IF s.value = "True" THEN 1 ELSE 0
    [] s.form = "notice" /\ f \in {"CREATORS", "OPERATORS"} -> <<>>

(* What the screen s tells; nothing, if its text was not written. *)
Told(s) ==
  IF s.form \in {"none", "0x"} THEN {}
  ELSE IF s.title = "Rarible"
  THEN {<<"METHOD", m>> : m \in {n \in SelectorNames : MethodNamed[n] = s.value}}
  ELSE {<<f, Reading(f, s)>> :
          f \in {g \in DOMAIN Titles[wanted] : Titles[wanted][g] = s.title}}

(* What the transaction claims.  Of calldata that was cut off these are    *)
(* the claims of the words that were sent; the fields beyond are zero.     *)
Claimed(f) ==
  IF f = "ROYALTIES" /\ truth[f] > ROYALTY_MAX_VALUE THEN NoPercentage ELSE truth[f]
Claims == {<<"METHOD", wanted>>} \cup {<<f, Claimed(f)>> : f \in DOMAIN truth}

-----------------------------------------------------------------------------
(* Before the first transaction the context is memory of the app; only     *)
(* handle_init_contract looks at it.                                       *)
SessionInit ==
  /\ selectorIndex = "MINT_AND_TRANSFER" /\ next_param = "BODY_OFFSET"
  /\ sub_param = "BODY_OFFSET" /\ counter = 0 /\ max_counter = 0
  /\ body = zero_body["MINT_AND_TRANSFER"] /\ result = "OK" /\ refusable = FALSE
  /\ StartCalldata("MINT_AND_TRANSFER")
  /\ numScreens = 0 /\ screen = blank
  /\ phase = "idle" /\ wanted = "NONE" /\ shown = 0 /\ told = {}

(* ETH_PLUGIN_INIT_CONTRACT *)
Select(selector, compatible, roomy) ==
  /\ phase \in {"idle", "signed"}
  /\ handle_init_contract(compatible, roomy, selector)
  /\ wanted' = MethodCalled(selector)
  /\ refusable' = (~compatible \/ ~roomy \/ wanted' = "NONE")
  /\ phase' = IF result' = "OK" THEN "feeding" ELSE "idle"
  /\ RestartCalldata(selectorIndex')
  /\ numScreens' = 0 /\ screen' = blank /\ shown' = 0 /\ told' = {}

(* ETH_PLUGIN_PROVIDE_PARAMETER *)
FeedWord ==
  /\ phase = "feeding" /\ Feed
  /\ phase' = IF result' = "OK" THEN "feeding" ELSE "idle"
  /\ UNCHANGED <<screenVars, wanted, shown, told>>

(* ETH_PLUGIN_FINALIZE: the calldata is over, where it is. *)
Finalize ==
  /\ phase = "feeding" /\ handle_finalize
  /\ phase' = "finalized"
  /\ UNCHANGED <<calldataVars, refusable, wanted, shown, told>>

(* ETH_PLUGIN_QUERY_CONTRACT_ID *)
QueryId ==
  /\ phase = "finalized" /\ handle_query_contract_id
  /\ phase' = "review" /\ shown' = 0 /\ told' = Told(screen')
  /\ UNCHANGED <<calldataVars, refusable, wanted>>

(* ETH_PLUGIN_QUERY_CONTRACT_UI, with or without an exception on the way.  *)
(* An error ends the review.                                               *)
ShowScreen(screenIndex) ==
  /\ phase = "review"
  /\ \/ handle_query_contract_ui(screenIndex) /\ refusable' = FALSE
     \/ \E e \in Exceptions : handle_query_ui_exception(screenIndex, e) /\ refusable' = TRUE
  /\ IF result' = "OK"
     THEN phase' = "review" /\ shown' = screenIndex + 1 /\ told' = told \cup Told(screen')
     ELSE phase' = "idle" /\ UNCHANGED <<shown, told>>
  /\ UNCHANGED <<calldataVars, wanted>>

PageForward == shown < numScreens /\ ShowScreen(shown)
PageBack == shown > 1 /\ ShowScreen(shown - 2)

(* The choice is offered after the last screen. *)
Approve ==
  /\ phase = "review" /\ shown = numScreens
  /\ phase' = "signed"
  /\ UNCHANGED <<vars, screenVars, wanted, shown, told>>

(* The user rejects, or the host is gone: the context stays as it is. *)
Abandon ==
  /\ phase # "idle"
  /\ phase' = "idle"
  /\ UNCHANGED <<vars, screenVars, wanted, shown, told>>

SessionNext ==
  \/ \E s \in Calls, compatible, roomy \in BOOLEAN : Select(s, compatible, roomy)
  \/ FeedWord \/ Finalize \/ QueryId \/ PageForward \/ PageBack \/ Approve \/ Abandon

SessionSpec == SessionInit /\ [][SessionNext]_sessionVars

-----------------------------------------------------------------------------
(* The context, what the app keeps of the answers, and the review stay     *)
(* within their types.                                                     *)
SessionTypeOK ==
  /\ ContextTypeOK
  /\ result \in {"OK", "ERROR", "UNAVAILABLE"} /\ refusable \in BOOLEAN
  /\ numScreens \in Nat /\ shown \in 0..numScreens
  /\ phase \in {"idle", "feeding", "finalized", "review", "signed"}
  /\ wanted \in SelectorNames \cup {"NONE"}

(* The plugin answers OK to every call but those it has to refuse (an      *)
(* unknown selector, an incompatible app, a word that MustRefuse, a screen *)
(* an exception was thrown in), and refuses all of those: no screen that   *)
(* handle_finalize announced is missing, and no half-drawn one passes.     *)
AnswersExactly == result # "OK" <=> refusable

(* The plugin does what ClearSigning asks of it: over any number of        *)
(* transactions, whatever was left of the ones before, the user is told    *)
(* nothing but claims of the transaction, and signs it only after having   *)
(* been told all of them.                                                  *)
UnderReview  == phase \in {"finalized", "review", "signed"}
Outcome      == IF ~UnderReview THEN "none" ELSE IF phase = "signed" THEN "signed" ELSE "open"
ReviewClaims == IF UnderReview THEN Claims ELSE {}
ReviewTold   == IF UnderReview THEN told ELSE {}
Promise == INSTANCE ClearSigning WITH
  outcome <- Outcome, claims <- ReviewClaims, told <- ReviewTold
ClearSigned == Promise!Spec
=============================================================================
