---------------------------- MODULE ClearSigning ----------------------------
(***************************************************************************)
(* What the plugin is for, with nothing of how it does it: a transaction   *)
(* makes claims (the method it calls, the value of each field the README   *)
(* lists for that method); the user is told claims, never anything else;   *)
(* and by the time the user can sign, every claim has been told.           *)
(***************************************************************************)
VARIABLES
  outcome,  \* none, open (the transaction is under review) or signed
  claims,   \* the claims of the transaction, <<field, value>> pairs
  told      \* the claims the user has read

vars == <<outcome, claims, told>>

Init == outcome = "none" /\ claims = {} /\ told = {}

(* A transaction comes up for review, whatever it claims. *)
Open ==
  /\ outcome = "none"
  /\ outcome' = "open" /\ claims' # {} /\ told' = {}

Tell ==
  /\ outcome = "open"
  /\ told \subseteq told' /\ told' \subseteq claims
  /\ UNCHANGED <<outcome, claims>>

Sign ==
  /\ outcome = "open" /\ told = claims
  /\ outcome' = "signed" /\ UNCHANGED <<claims, told>>

(* Rejected, failed, or over. *)
Close ==
  /\ outcome \in {"open", "signed"}
  /\ outcome' = "none" /\ claims' = {} /\ told' = {}

Next == Open \/ Tell \/ Sign \/ Close

Spec == Init /\ [][Next]_vars
=============================================================================
