---------------------------- MODULE PluginEntry ----------------------------
(***************************************************************************)
(* main.c: a call of the plugin by the Ethereum app, from os_lib_call to   *)
(* os_lib_end.  The message is dispatched to its handler; the handler of a *)
(* screen writes the message piece by piece and may be left in between by  *)
(* an exception, which main catches.  The answer and the screen are in     *)
(* memory of the app all the while, and hold what it left there before.    *)
(***************************************************************************)
EXTENDS PluginCalls

VARIABLES
  at,       \* "app" (outside the plugin), "dispatch", "title", "text", "catch", "finally"
  message,  \* the message of the call, and its inputs
  thrown,   \* the exception to be caught
  seen      \* history: the answer and the screen when the app last saw them

entryVars == <<callVars, at, message, thrown, seen>>

Results == {"OK", "ERROR", "UNAVAILABLE"}

Messages ==
  [type : {"INIT_CONTRACT"}, selector : Calls, compatible : BOOLEAN, roomy : BOOLEAN]
  \cup [type : {"PROVIDE_PARAMETER"}, word : Words]
  \cup [type : {"FINALIZE", "PROVIDE_INFO", "QUERY_CONTRACT_ID", "CHECK_PRESENCE", "unknown"}]
  \cup [type : {"QUERY_CONTRACT_UI"}, index : Indices]

no_message == [type |-> "none"]

Snapshot == [result |-> result, numScreens |-> numScreens, screen |-> screen]

(* What the result is before the plugin answers is up to the app; the two  *)
(* messages that main and dispatch_plugin_calls ignore have no result.     *)
LibCall ==
  /\ at = "app"
  /\ message' \in Messages
  /\ result' \in IF message'.type \in {"CHECK_PRESENCE", "unknown"} THEN {result} ELSE Results
  /\ at' = "dispatch"
  /\ UNCHANGED <<context, screenVars, thrown, seen>>

(* dispatch_plugin_calls, for the handlers in which nothing is thrown. *)
Handle ==
  /\ at = "dispatch"
  /\ \/ /\ message.type = "INIT_CONTRACT"
        /\ handle_init_contract(message.compatible, message.roomy, message.selector)
        /\ UNCHANGED screenVars
     \/ /\ message.type = "PROVIDE_PARAMETER"
        /\ handle_provide_parameter(message.word) /\ UNCHANGED screenVars
     \/ message.type = "FINALIZE" /\ handle_finalize
     \/ message.type = "PROVIDE_INFO" /\ handle_provide_token
     \/ message.type = "QUERY_CONTRACT_ID" /\ handle_query_contract_id
  /\ at' = "finally" /\ UNCHANGED <<message, thrown, seen>>

(* A caller that asks whether the plugin is there, and a newer one. *)
Ignore ==
  /\ at = "dispatch" /\ message.type \in {"CHECK_PRESENCE", "unknown"}
  /\ at' = "finally" /\ UNCHANGED <<callVars, message, thrown, seen>>

Asked == Screens[message.index + 1]

(* handle_query_contract_ui: the screen is cleared and the result OK, then *)
(* the title is written, then the text.                                    *)
ClearScreen ==
  /\ at = "dispatch" /\ message.type = "QUERY_CONTRACT_UI"
  /\ screen' = blank
  /\ IF message.index < Len(Screens)
     THEN result' = "OK" /\ at' = "title"
     ELSE result' = "ERROR" /\ at' = "finally"
  /\ UNCHANGED <<context, numScreens, message, thrown, seen>>

WriteTitle ==
  /\ at = "title"
  /\ screen' = [screen EXCEPT !.title = Asked.title]
  /\ at' = "text" /\ UNCHANGED <<contextVars, numScreens, message, thrown, seen>>

WriteText ==
  /\ at = "text"
  /\ screen' = Asked
  /\ at' = "finally" /\ UNCHANGED <<contextVars, numScreens, message, thrown, seen>>

Throw ==
  /\ at = "text" /\ MayThrow(Asked)
  /\ screen' = half_drawn(Asked) /\ thrown' \in Exceptions
  /\ at' = "catch" /\ UNCHANGED <<contextVars, numScreens, message, seen>>

(* A mutation: the catch does not answer for the handler. *)
CatchSilently ==
  /\ at = "catch" /\ at' = "finally"
  /\ UNCHANGED <<callVars, message, thrown, seen>>

(* A mutation: the call is tried again. *)
CatchAndRetry ==
  /\ at = "catch" /\ at' = "dispatch"
  /\ UNCHANGED <<callVars, message, thrown, seen>>

(* CATCH_OTHER, and what it calls. *)
Catch ==
  /\ at = "catch"
  /\ result' = IF thrown \in caught /\ message.type = "QUERY_CONTRACT_UI" THEN "ERROR"
               ELSE result
  /\ at' = "finally"
  /\ UNCHANGED <<context, screenVars, message, thrown, seen>>

(* FINALLY: os_lib_end goes back to the app. *)
LibEnd ==
  /\ at = "finally"
  /\ at' = "app" /\ message' = no_message /\ thrown' = "none"
  /\ seen' = Snapshot /\ UNCHANGED callVars

EntryInit ==
  /\ CallsInit
  /\ at = "app" /\ message = no_message /\ thrown = "none"
  /\ seen = Snapshot

InPlugin ==
  Handle \/ Ignore \/ ClearScreen \/ WriteTitle \/ WriteText \/ Throw \/ Catch \/ LibEnd
EntryNext == LibCall \/ InPlugin

(* Once called the plugin runs; the app calls when it likes. *)
EntrySpec == EntryInit /\ [][EntryNext]_entryVars /\ WF_entryVars(InPlugin)

-----------------------------------------------------------------------------
(* The context keeps to its C types under messages in any order, and the   *)
(* plugin is left with no exception pending.                               *)
EntryTypeOK ==
  /\ ContextTypeOK
  /\ result \in Results /\ numScreens \in Nat
  /\ at \in {"app", "dispatch", "title", "text", "catch", "finally"}
  /\ message \in Messages \cup {no_message}
  /\ thrown \in Exceptions \cup {"none"} /\ (thrown # "none" => at \in {"catch", "finally"})

(* To the app a call is one step of PluginCalls, taken when the handler is *)
(* done or its exception caught: the app gets the answer of the handler    *)
(* that ran and of no other, whatever the message held before, and a       *)
(* screen that an exception left half written comes with an ERROR.         *)
Visible    == IF at \in {"app", "finally"} THEN Snapshot ELSE seen
Answer     == Visible.result
Announced  == Visible.numScreens
Displayed  == Visible.screen
Atomic == INSTANCE PluginCalls WITH
  result <- Answer, numScreens <- Announced, screen <- Displayed
CallsAreAtomic == Atomic!CallsSpec

(* Every call comes back, with or without an exception on the way. *)
CallsReturn == at = "dispatch" ~> at = "app"
=============================================================================
