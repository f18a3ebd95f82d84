---------------------------- MODULE PluginCalls ----------------------------
(***************************************************************************)
(* The plugin as a library: every call is one step, from the message the   *)
(* app sends to the answer it gets, and nothing of one call is seen before *)
(* it is over.  Unlike PluginSession this assumes no order of the messages:*)
(* any app may send any message at any time.                               *)
(***************************************************************************)
EXTENDS ProvideParameter, PluginScreens

CONSTANTS
  Calls,       \* the selectors it may be called with
  Words,       \* the words it may be handed
  Indices,     \* the screens it may be asked for
  Exceptions   \* the exceptions a screen may run into

(* The exceptions are those that main.c catches, as in PluginSession.      *)
ASSUME CallsAssumption ==
  Words \subseteq Nat /\ Indices \subseteq Nat /\ Exceptions \subseteq caught

callVars == <<contextVars, screenVars>>

(* Before any other message the context has been through                   *)
(* handle_init_contract, with the selector of one of the calls.            *)
CallsInit ==
  /\ \E i \in 1..Len(RARIBLE_SELECTORS) :
       /\ RARIBLE_SELECTORS[i] \in Calls
       /\ selectorIndex = selector_t[i] /\ next_param = first_param[selectorIndex]
  /\ body = zero_body[selectorIndex]
  /\ sub_param = "BODY_OFFSET" /\ counter = 0 /\ max_counter = 0
  /\ result = "OK" /\ numScreens = 0 /\ screen = blank

CallsNext ==
  \/ /\ \E selector \in Calls, compatible, roomy \in BOOLEAN :
          handle_init_contract(compatible, roomy, selector)
     /\ UNCHANGED screenVars
  \/ (\E w \in Words : handle_provide_parameter(w)) /\ UNCHANGED screenVars
  \/ handle_finalize
  \/ handle_provide_token
  \/ handle_query_contract_id
  \/ \E i \in Indices : handle_query_contract_ui(i)
  \/ \E i \in Indices, e \in Exceptions : handle_query_ui_exception(i, e)

CallsSpec == CallsInit /\ [][CallsNext]_callVars
=============================================================================
