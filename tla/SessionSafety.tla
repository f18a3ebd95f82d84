---------------------------- MODULE SessionSafety ----------------------------
(***************************************************************************)
(* Proofs about the screens and about whole sessions, for all seven        *)
(* methods and all values.  What is printed reads back as the value, and   *)
(* when the context holds what the calldata says, the screens tell each    *)
(* claim of the transaction once and nothing else.  The invariants of the  *)
(* parsers are put together; sessions keep to their types; they implement  *)
(* ClearSigning whenever the parsers keep what the calldata says, and so   *)
(* whenever no transaction leaves a byte string empty that its parser does *)
(* not test for; and then every call is answered as it should be.          *)
(***************************************************************************)
EXTENDS PluginSession, ContextTypes, TokenFeedSafety, MintFeedSafety, OrderFeedSafety,
        SequenceTheorems

-----------------------------------------------------------------------------
(* Printing and reading. *)

(* set_royalties_ui cuts the royalty into percents and hundredths and      *)
(* prints them with one of four formats: always two decimals, which read   *)
(* back as the royalty.                                                    *)
THEOREM RoyaltiesReadBack ==
  \A r \in Nat : r <= ROYALTY_MAX_VALUE =>
    /\ Len(printed_royalties(r).decimals) = 2
    /\ \A i \in 1..2 : printed_royalties(r).decimals[i] \in 0..9
    /\ Hundredths(printed_royalties(r)) = r
<1> DEFINE Good(r) == /\ Len(printed_royalties(r).decimals) = 2
                      /\ \A i \in 1..2 : printed_royalties(r).decimals[i] \in 0..9
                      /\ Hundredths(printed_royalties(r)) = r
<1> SUFFICES ASSUME NEW r \in Nat PROVE Good(r)
  OBVIOUS
<1>1. ASSUME NEW w \in Nat, NEW d \in 0..9, NEW e \in 0..9,
             printed_royalties(r) = percent(w, <<d, e>>), (100 * w) + (10 * d) + e = r
      PROVE  Good(r)
  <2>1. printed_royalties(r).whole = w /\ printed_royalties(r).decimals = <<d, e>>
    BY <1>1, SMT DEF percent
  <2>2. Len(<<d, e>>) = 2 /\ <<d, e>>[1] = d /\ <<d, e>>[2] = e
    OBVIOUS
  <2>3. Hundredths(printed_royalties(r)) = (100 * w) + (10 * d) + e
    BY <2>1, <2>2, SMT DEF Hundredths
  <2>4. \A i \in 1..2 : <<d, e>>[i] \in 0..9
    BY <2>2, SMT
  <2> QED BY <1>1, <2>1, <2>2, <2>3, <2>4, Zenon
<1>2. ASSUME NEW n \in 0..9 PROVE <<0>> \o Digits(n) = <<0, n>>
  <2>1. Digits(n) = <<n>>
    BY SMT DEF Digits
  <2>2. <<0>> \o <<n>> = <<0, n>>
    <3>1. /\ <<0>> \in Seq(Int) /\ Len(<<0>>) = 1 /\ <<0>>[1] = 0
          /\ <<n>> \in Seq(Int) /\ Len(<<n>>) = 1 /\ <<n>>[1] = n
          /\ <<0, n>> \in Seq(Int) /\ Len(<<0, n>>) = 2
          /\ <<0, n>>[1] = 0 /\ <<0, n>>[2] = n
      OBVIOUS
    <3> DEFINE zero == <<0>>
               one == <<n>>
               both == <<0, n>>
    <3> HIDE DEF zero, one, both
    <3>2. /\ zero \o one \in Seq(Int)
          /\ Len(zero \o one) = Len(zero) + Len(one)
          /\ \A i \in 1..(Len(zero) + Len(one)) : (zero \o one)[i] =
                 IF i <= Len(zero) THEN zero[i] ELSE one[i - Len(zero)]
      BY <3>1, ConcatProperties, Zenon DEF zero, one
    <3>3. Len(zero \o one) = 2 /\ (zero \o one)[1] = 0 /\ (zero \o one)[2] = n
      BY <3>1, <3>2, SMT DEF zero, one
    <3>4. Len(zero \o one) = Len(both)
          /\ \A i \in 1..Len(zero \o one) : (zero \o one)[i] = both[i]
      BY <3>1, <3>3, SMT DEF both
    <3>5. zero \o one = both
      BY <3>1, <3>2, <3>4, SeqEqual, Zenon DEF both
    <3> QED BY <3>5 DEF zero, one, both
  <2> QED BY <2>1, <2>2, Zenon
<1>3. ASSUME NEW n \in 10..99
      PROVE  /\ Digits(n) = <<n \div 10, n % 10>>
             /\ n \div 10 \in 0..9 /\ n % 10 \in 0..9
             /\ (10 * (n \div 10)) + (n % 10) = n
  <2>1. Digits(n) = <<n \div 10, n % 10>>
    BY SMT DEF Digits
  <2>2. n \in Int
    BY SMT
  <2> QED BY <2>1, <2>2, SMT
<1> DEFINE p == r \div 100
           d == r % 100
<1>4. p \in Nat /\ d \in 0..99 /\ (100 * p) + d = r
  BY SMT
<1>5. printed_royalties(r) =
        IF r <= 9 THEN percent(0, <<0>> \o Digits(r))
        ELSE IF r <= 99 THEN percent(0, Digits(r))
        ELSE IF d <= 9 THEN percent(p, <<0>> \o Digits(d))
        ELSE percent(p, Digits(d))
  BY Zenon DEF printed_royalties
<1> HIDE DEF p, d, Good
<1>6. CASE r <= 9
  <2>1. r \in 0..9
    BY <1>6, SMT
  <2>2. printed_royalties(r) = percent(0, <<0, r>>)
    BY <1>2, <1>5, <1>6, <2>1, Zenon
  <2>3. (100 * 0) + (10 * 0) + r = r /\ 0 \in Nat /\ 0 \in 0..9
    BY SMT
  <2> QED BY <1>1, <2>1, <2>2, <2>3, Zenon
<1>7. CASE r > 9 /\ r <= 99
  <2>1. r \in 10..99 /\ ~(r <= 9)
    BY <1>7, SMT
  <2>2. printed_royalties(r) = percent(0, <<r \div 10, r % 10>>)
    BY <1>3, <1>5, <1>7, <2>1, Zenon
  <2>3. /\ r \div 10 \in 0..9 /\ r % 10 \in 0..9
        /\ (10 * (r \div 10)) + (r % 10) = r
    BY <1>3, <2>1, Zenon
  <2>4. (100 * 0) + (10 * (r \div 10)) + (r % 10) = r /\ 0 \in Nat
    BY <2>3, SMT
  <2> QED BY <1>1, <2>2, <2>3, <2>4, Zenon
<1>8. CASE r > 99 /\ d <= 9
  <2>1. d \in 0..9 /\ ~(r <= 9) /\ ~(r <= 99)
    BY <1>4, <1>8, SMT
  <2>2. printed_royalties(r) = percent(p, <<0, d>>)
    BY <1>2, <1>5, <1>8, <2>1, Zenon
  <2>3. (100 * p) + (10 * 0) + d = r /\ 0 \in 0..9
    BY <1>4, SMT
  <2> QED BY <1>1, <1>4, <2>1, <2>2, <2>3, Zenon
<1>9. CASE r > 99 /\ ~(d <= 9)
  <2>1. d \in 10..99 /\ ~(r <= 9) /\ ~(r <= 99)
    BY <1>4, <1>9, SMT
  <2>2. printed_royalties(r) = percent(p, <<d \div 10, d % 10>>)
    BY <1>3, <1>5, <1>9, <2>1, Zenon
  <2>3. (100 * p) + (10 * (d \div 10)) + (d % 10) = r
    BY <1>3, <1>4, <2>1, SMT
  <2> QED BY <1>1, <1>3, <1>4, <2>1, <2>2, <2>3, Zenon
<1> QED BY <1>6, <1>7, <1>8, <1>9, SMT

LEMMA AddressReads ==
  ASSUME NEW f, NEW t, NEW a
  PROVE  Reading(f, address_ui(t, a)) = IF f \in {"CREATORS", "OPERATORS"} THEN <<a>> ELSE a
  BY SMT DEF Reading, address_ui

LEMMA TextReads ==
  ASSUME NEW f, NEW t, NEW x
  PROVE  Reading(f, text_ui(t, x)) = x
  BY SMT DEF Reading, text_ui

LEMMA NumberReads ==
  ASSUME NEW f, NEW x
  PROVE  Reading(f, token_id_ui(x)) = x
  BY SMT DEF Reading, token_id_ui

LEMMA CreatorReads ==
  ASSUME NEW found \in BOOLEAN, NEW a
  PROVE  Reading("CREATORS", creator_ui(found, a)) = Found(found, a)
<1>1. CASE found
  BY <1>1, AddressReads, Zenon DEF creator_ui, Found
<1>2. CASE ~found
  <2>1. creator_ui(found, a) = notice_ui("Creator", "No Creators")
    BY <1>2, Zenon DEF creator_ui
  <2>2. Reading("CREATORS", notice_ui("Creator", "No Creators")) = <<>>
    BY SMT DEF Reading, notice_ui
  <2> QED BY <1>2, <2>1, <2>2, Zenon DEF Found
<1> QED BY <1>1, <1>2

LEMMA OperatorReads ==
  ASSUME NEW found \in BOOLEAN, NEW a
  PROVE  Reading("OPERATORS", operator_ui(found, a)) = Found(found, a)
<1>1. CASE found
  BY <1>1, AddressReads, Zenon DEF operator_ui, Found
<1>2. CASE ~found
  <2>1. operator_ui(found, a) = notice_ui("Operator", "No Operators")
    BY <1>2, Zenon DEF operator_ui
  <2>2. Reading("OPERATORS", notice_ui("Operator", "No Operators")) = <<>>
    BY SMT DEF Reading, notice_ui
  <2> QED BY <1>2, <2>1, <2>2, Zenon DEF Found
<1> QED BY <1>1, <1>2

(* A royalty reads as itself, or as a dash when it is above 100%. *)
LEMMA RoyaltiesRead ==
  ASSUME NEW r \in Count
  PROVE  Reading("ROYALTIES", set_royalties_ui(r)) =
           IF r > ROYALTY_MAX_VALUE THEN NoPercentage ELSE r
<1>1. r \in Nat
  BY CountDef
<1> DEFINE p == printed_royalties(r)
           inRange == r <= 10000
<1>2. set_royalties_ui(r) =
        IF inRange THEN [title |-> "Royalties", form |-> "percent", value |-> p]
        ELSE notice_ui("Royalties", "-")
  BY DEF set_royalties_ui
<1>3. inRange <=> r <= ROYALTY_MAX_VALUE
  BY DEF ROYALTY_MAX_VALUE
<1>4. ~(r > ROYALTY_MAX_VALUE) <=> r <= ROYALTY_MAX_VALUE
  BY <1>1, SMT DEF ROYALTY_MAX_VALUE
<1> HIDE DEF p, inRange
<1>5. CASE inRange
  <2>1. r <= ROYALTY_MAX_VALUE
    BY <1>3, <1>5, Zenon
  <2>2. Hundredths(printed_royalties(r)) = r
    BY <1>1, <2>1, RoyaltiesReadBack, Zenon
  <2>3. set_royalties_ui(r) = [title |-> "Royalties", form |-> "percent", value |-> p]
    BY <1>2, <1>5, Zenon
  <2>4. Reading("ROYALTIES", [title |-> "Royalties", form |-> "percent", value |-> p]) =
          Hundredths(p)
    BY SMT DEF Reading
  <2>5. ~(r > ROYALTY_MAX_VALUE)
    BY <1>4, <2>1, Zenon
  <2> QED BY <2>2, <2>3, <2>4, <2>5, Zenon DEF p
<1>6. CASE ~inRange
  <2>1. set_royalties_ui(r) = notice_ui("Royalties", "-")
    BY <1>2, <1>6, Zenon
  <2>2. Reading("ROYALTIES", notice_ui("Royalties", "-")) = NoPercentage
    BY SMT DEF Reading, notice_ui
  <2>3. r > ROYALTY_MAX_VALUE
    BY <1>3, <1>4, <1>6, Zenon
  <2> QED BY <2>1, <2>2, <2>3, Zenon
<1> QED BY <1>5, <1>6
-----------------------------------------------------------------------------
(* The screens of a transaction. *)

Tells(s, f) == Told(s) = {<<f, Claimed(f)>>}

(* Among the fields of the method, f and no other has the title t. *)
Titled(t, f) ==
  /\ f \in DOMAIN Titles[wanted] /\ t # "Rarible"
  /\ \A g \in DOMAIN Titles[wanted] : Titles[wanted][g] = t <=> g = f

LEMMA TellsField ==
  ASSUME NEW s, NEW f, s.form \notin {"none", "0x"}, Titled(s.title, f), Reading(f, s) = Claimed(f)
  PROVE  Tells(s, f)
<1>1. Told(s) = {<<g, Reading(g, s)>> :
                   g \in {h \in DOMAIN Titles[wanted] : Titles[wanted][h] = s.title}}
  BY Zenon DEF Told, Titled
<1>2. {h \in DOMAIN Titles[wanted] : Titles[wanted][h] = s.title} = {f}
  BY Zenon DEF Titled
<1> QED BY <1>1, <1>2, Zenon DEF Tells

LEMMA ScreenParts ==
  /\ \A t, a : address_ui(t, a).title = t /\ address_ui(t, a).form \notin {"none", "0x"}
  /\ \A t, x : text_ui(t, x).title = t /\ text_ui(t, x).form \notin {"none", "0x"}
  /\ \A t, x : notice_ui(t, x).title = t /\ notice_ui(t, x).form \notin {"none", "0x"}
  /\ \A x : token_id_ui(x).title = "ID" /\ token_id_ui(x).form \notin {"none", "0x"}
  /\ \A r : set_royalties_ui(r).title = "Royalties" /\ set_royalties_ui(r).form \notin {"none", "0x"}
<1>1. /\ \A t, a : address_ui(t, a).title = t /\ address_ui(t, a).form \notin {"none", "0x"}
      /\ \A t, x : text_ui(t, x).title = t /\ text_ui(t, x).form \notin {"none", "0x"}
      /\ \A t, x : notice_ui(t, x).title = t /\ notice_ui(t, x).form \notin {"none", "0x"}
      /\ \A x : token_id_ui(x).title = "ID" /\ token_id_ui(x).form \notin {"none", "0x"}
  BY SMT DEF address_ui, text_ui, notice_ui, token_id_ui
<1>2. ASSUME NEW r
      PROVE  set_royalties_ui(r).title = "Royalties" /\ set_royalties_ui(r).form \notin {"none", "0x"}
  <2> DEFINE p == printed_royalties(r)
             inRange == r <= 10000
  <2>1. set_royalties_ui(r) =
          IF inRange THEN [title |-> "Royalties", form |-> "percent", value |-> p]
          ELSE notice_ui("Royalties", "-")
    BY DEF set_royalties_ui
  <2> HIDE DEF p, inRange
  <2> QED BY <2>1, SMT DEF notice_ui
<1> QED BY <1>1, <1>2

LEMMA ChoiceParts ==
  /\ \A a : \A b \in BOOLEAN :
       creator_ui(b, a).title = "Creator" /\ creator_ui(b, a).form \notin {"none", "0x"}
  /\ \A a : \A b \in BOOLEAN :
       operator_ui(b, a).title = "Operator" /\ operator_ui(b, a).form \notin {"none", "0x"}
  /\ \A b : set_is_approved(b).title = "Approved" /\ set_is_approved(b).form \notin {"none", "0x"}
<1>1. ASSUME NEW b \in BOOLEAN, NEW a
      PROVE  creator_ui(b, a).title = "Creator" /\ creator_ui(b, a).form \notin {"none", "0x"}
  <2>1. \/ creator_ui(b, a) = address_ui("Creator", a)
        \/ creator_ui(b, a) = notice_ui("Creator", "No Creators")
    BY Zenon DEF creator_ui
  <2>2. /\ address_ui("Creator", a).title = "Creator"
        /\ address_ui("Creator", a).form \notin {"none", "0x"}
    BY ScreenParts, Zenon
  <2>3. /\ notice_ui("Creator", "No Creators").title = "Creator"
        /\ notice_ui("Creator", "No Creators").form \notin {"none", "0x"}
    BY ScreenParts, Zenon
  <2> QED BY <2>1, <2>2, <2>3, Zenon
<1>2. ASSUME NEW b \in BOOLEAN, NEW a
      PROVE  operator_ui(b, a).title = "Operator" /\ operator_ui(b, a).form \notin {"none", "0x"}
  <2>1. \/ operator_ui(b, a) = address_ui("Operator", a)
        \/ operator_ui(b, a) = notice_ui("Operator", "No Operators")
    BY Zenon DEF operator_ui
  <2>2. /\ address_ui("Operator", a).title = "Operator"
        /\ address_ui("Operator", a).form \notin {"none", "0x"}
    BY ScreenParts, Zenon
  <2>3. /\ notice_ui("Operator", "No Operators").title = "Operator"
        /\ notice_ui("Operator", "No Operators").form \notin {"none", "0x"}
    BY ScreenParts, Zenon
  <2> QED BY <2>1, <2>2, <2>3, Zenon
<1>3. \A b : set_is_approved(b).title = "Approved" /\ set_is_approved(b).form \notin {"none", "0x"}
  BY ScreenParts, SMT DEF set_is_approved
<1> QED BY <1>1, <1>2, <1>3

(* One lemma per kind of screen. *)

LEMMA AddressTells ==
  ASSUME NEW t, NEW a, NEW f, Titled(t, f), f \notin {"CREATORS", "OPERATORS"},
         Claimed(f) = a
  PROVE  Tells(address_ui(t, a), f)
<1>1. address_ui(t, a).title = t /\ address_ui(t, a).form \notin {"none", "0x"}
  BY ScreenParts
<1>2. Reading(f, address_ui(t, a)) = IF f \in {"CREATORS", "OPERATORS"} THEN <<a>> ELSE a
  BY AddressReads
<1>3. Reading(f, address_ui(t, a)) = a
  BY <1>2, Zenon
<1> QED BY <1>1, <1>3, TellsField, Zenon

LEMMA TextTells ==
  ASSUME NEW t, NEW x, NEW f, Titled(t, f), Claimed(f) = x
  PROVE  Tells(text_ui(t, x), f)
<1>1. text_ui(t, x).title = t /\ text_ui(t, x).form \notin {"none", "0x"}
  BY ScreenParts
<1>2. Reading(f, text_ui(t, x)) = x
  BY TextReads
<1> QED BY <1>1, <1>2, TellsField, Zenon

LEMMA NumberTells ==
  ASSUME NEW x, Titled("ID", "ID"), Claimed("ID") = x
  PROVE  Tells(token_id_ui(x), "ID")
<1>1. token_id_ui(x).title = "ID" /\ token_id_ui(x).form \notin {"none", "0x"}
  BY ScreenParts
<1> QED BY <1>1, NumberReads, TellsField, Zenon

LEMMA CreatorTells ==
  ASSUME NEW found \in BOOLEAN, NEW a, Titled("Creator", "CREATORS"),
         Claimed("CREATORS") = Found(found, a)
  PROVE  Tells(creator_ui(found, a), "CREATORS")
<1>1. creator_ui(found, a).title = "Creator" /\ creator_ui(found, a).form \notin {"none", "0x"}
  BY ChoiceParts
<1> QED BY <1>1, CreatorReads, TellsField, Zenon

LEMMA OperatorTells ==
  ASSUME NEW found \in BOOLEAN, NEW a, Titled("Operator", "OPERATORS"),
         Claimed("OPERATORS") = Found(found, a)
  PROVE  Tells(operator_ui(found, a), "OPERATORS")
<1>1. operator_ui(found, a).title = "Operator" /\ operator_ui(found, a).form \notin {"none", "0x"}
  BY ChoiceParts
<1> QED BY <1>1, OperatorReads, TellsField, Zenon

LEMMA RoyaltiesTell ==
  ASSUME NEW r \in Count, Titled("Royalties", "ROYALTIES"),
         Claimed("ROYALTIES") = IF r > ROYALTY_MAX_VALUE THEN NoPercentage ELSE r
  PROVE  Tells(set_royalties_ui(r), "ROYALTIES")
<1>1. set_royalties_ui(r).title = "Royalties" /\ set_royalties_ui(r).form \notin {"none", "0x"}
  BY ScreenParts
<1>2. Reading("ROYALTIES", set_royalties_ui(r)) = Claimed("ROYALTIES")
  BY RoyaltiesRead
<1> QED BY <1>1, <1>2, TellsField, Zenon

(* A flag that is not 0 reads as 1: the claim is that it is set. *)
LEMMA ApprovedTells ==
  ASSUME NEW b, Titled("Approved", "APPROVED"), Claimed("APPROVED") = b, b \in {0, 1}
  PROVE  Tells(set_is_approved(b), "APPROVED")
<1>1. set_is_approved(b).title = "Approved" /\ set_is_approved(b).form \notin {"none", "0x"}
  BY ChoiceParts
<1>2. Reading("APPROVED", set_is_approved(b)) = b
  BY SMT DEF Reading, set_is_approved, notice_ui
<1> QED BY <1>1, <1>2, TellsField, Zenon

(* One lemma per method: its screens tell its fields, in this order. *)

LEMMA MintTells ==
  ASSUME ContextTypeOK, selectorIndex = "MINT_AND_TRANSFER", wanted = selectorIndex,
         Shown = truth
  PROVE  /\ Len(Screens) = 4
         /\ DOMAIN truth = {"ID", "BENEFICIARY", "CREATORS", "ROYALTIES"}
         /\ Tells(Screens[1], "ID")
         /\ Tells(Screens[2], "BENEFICIARY")
         /\ Tells(Screens[3], "CREATORS")
         /\ Tells(Screens[4], "ROYALTIES")
<1>1. Screens = <<token_id_ui(body.id), address_ui("Beneficiary", body.beneficiary),
                  creator_ui(body.creator_found, body.creator),
                  set_royalties_ui(body.royalties)>>
  BY SMT DEF Screens
<1>2. truth = [ID |-> body.id, BENEFICIARY |-> body.beneficiary,
               CREATORS |-> Found(body.creator_found, body.creator),
               ROYALTIES |-> body.royalties]
  BY SMT DEF Shown
<1>3. /\ Titled("ID", "ID")
      /\ Titled("Beneficiary", "BENEFICIARY")
      /\ Titled("Creator", "CREATORS")
      /\ Titled("Royalties", "ROYALTIES")
  <2> DEFINE T == Titles[wanted]
  <2>1. /\ DOMAIN T = {"ID", "BENEFICIARY", "CREATORS", "ROYALTIES"}
        /\ T["ID"] = "ID"
        /\ T["BENEFICIARY"] = "Beneficiary"
        /\ T["CREATORS"] = "Creator"
        /\ T["ROYALTIES"] = "Royalties"
    BY SMT DEF Titles
  <2> HIDE DEF T
  <2>2. /\ "ID" \in DOMAIN T /\ \A g \in DOMAIN T : T[g] = "ID" <=> g = "ID"
        /\ "ID" # "Rarible"
    BY <2>1, SMT
  <2>3. /\ "BENEFICIARY" \in DOMAIN T /\ \A g \in DOMAIN T : T[g] = "Beneficiary" <=> g = "BENEFICIARY"
        /\ "Beneficiary" # "Rarible"
    BY <2>1, SMT
  <2>4. /\ "CREATORS" \in DOMAIN T /\ \A g \in DOMAIN T : T[g] = "Creator" <=> g = "CREATORS"
        /\ "Creator" # "Rarible"
    BY <2>1, SMT
  <2>5. /\ "ROYALTIES" \in DOMAIN T /\ \A g \in DOMAIN T : T[g] = "Royalties" <=> g = "ROYALTIES"
        /\ "Royalties" # "Rarible"
    BY <2>1, SMT
  <2> QED BY <2>2, <2>3, <2>4, <2>5, Zenon DEF T, Titled
<1>4. /\ Claimed("ID") = body.id
      /\ Claimed("BENEFICIARY") = body.beneficiary
      /\ Claimed("CREATORS") = Found(body.creator_found, body.creator)
      /\ Claimed("ROYALTIES") =
           IF body.royalties > ROYALTY_MAX_VALUE THEN NoPercentage ELSE body.royalties
  BY <1>2, SMT DEF Claimed
<1>5. body.royalties \in Count /\ body.creator_found \in BOOLEAN
  BY SMT DEF ContextTypeOK, mint_body
<1>6. Tells(token_id_ui(body.id), "ID")
  BY <1>3, <1>4, NumberTells
<1>7. Tells(address_ui("Beneficiary", body.beneficiary), "BENEFICIARY")
  BY <1>3, <1>4, AddressTells, SMT
<1>8. Tells(creator_ui(body.creator_found, body.creator), "CREATORS")
  BY <1>3, <1>4, <1>5, CreatorTells
<1>9. Tells(set_royalties_ui(body.royalties), "ROYALTIES")
  BY <1>3, <1>4, <1>5, RoyaltiesTell
<1>10. Len(Screens) = 4 /\ DOMAIN truth = {"ID", "BENEFICIARY", "CREATORS", "ROYALTIES"}
  BY <1>1, <1>2, SMT
<1>11. /\ Screens[1] = token_id_ui(body.id)
       /\ Screens[2] = address_ui("Beneficiary", body.beneficiary)
       /\ Screens[3] = creator_ui(body.creator_found, body.creator)
       /\ Screens[4] = set_royalties_ui(body.royalties)
  BY <1>1, SMT
<1> QED BY <1>6, <1>7, <1>8, <1>9, <1>10, <1>11, Zenon

LEMMA TransferTells ==
  ASSUME ContextTypeOK, selectorIndex = "TRANSFER_FROM_OR_MINT", wanted = selectorIndex,
         Shown = truth
  PROVE  /\ Len(Screens) = 5
         /\ DOMAIN truth = {"ID", "FROM", "RECIPIENT", "LAST_CREATOR", "ROYALTIES"}
         /\ Tells(Screens[1], "ID")
         /\ Tells(Screens[2], "FROM")
         /\ Tells(Screens[3], "RECIPIENT")
         /\ Tells(Screens[4], "LAST_CREATOR")
         /\ Tells(Screens[5], "ROYALTIES")
<1>1. Screens = <<token_id_ui(body.id), address_ui("Seller", body.seller),
                  address_ui("Beneficiary", body.beneficiary),
                  address_ui("Creator", body.creator), set_royalties_ui(body.royalties)>>
  BY SMT DEF Screens
<1>2. truth = [ID |-> body.id, FROM |-> body.seller, RECIPIENT |-> body.beneficiary,
               LAST_CREATOR |-> body.creator, ROYALTIES |-> body.royalties]
  BY SMT DEF Shown
<1>3. /\ Titled("ID", "ID")
      /\ Titled("Seller", "FROM")
      /\ Titled("Beneficiary", "RECIPIENT")
      /\ Titled("Creator", "LAST_CREATOR")
      /\ Titled("Royalties", "ROYALTIES")
  <2> DEFINE T == Titles[wanted]
  <2>1. /\ DOMAIN T = {"ID", "FROM", "RECIPIENT", "LAST_CREATOR", "ROYALTIES"}
        /\ T["ID"] = "ID"
        /\ T["FROM"] = "Seller"
        /\ T["RECIPIENT"] = "Beneficiary"
        /\ T["LAST_CREATOR"] = "Creator"
        /\ T["ROYALTIES"] = "Royalties"
    BY SMT DEF Titles
  <2> HIDE DEF T
  <2>2. /\ "ID" \in DOMAIN T /\ \A g \in DOMAIN T : T[g] = "ID" <=> g = "ID"
        /\ "ID" # "Rarible"
    BY <2>1, SMT
  <2>3. /\ "FROM" \in DOMAIN T /\ \A g \in DOMAIN T : T[g] = "Seller" <=> g = "FROM"
        /\ "Seller" # "Rarible"
    BY <2>1, SMT
  <2>4. /\ "RECIPIENT" \in DOMAIN T /\ \A g \in DOMAIN T : T[g] = "Beneficiary" <=> g = "RECIPIENT"
        /\ "Beneficiary" # "Rarible"
    BY <2>1, SMT
  <2>5. /\ "LAST_CREATOR" \in DOMAIN T /\ \A g \in DOMAIN T : T[g] = "Creator" <=> g = "LAST_CREATOR"
        /\ "Creator" # "Rarible"
    BY <2>1, SMT
  <2>6. /\ "ROYALTIES" \in DOMAIN T /\ \A g \in DOMAIN T : T[g] = "Royalties" <=> g = "ROYALTIES"
        /\ "Royalties" # "Rarible"
    BY <2>1, SMT
  <2> QED BY <2>2, <2>3, <2>4, <2>5, <2>6, Zenon DEF T, Titled
<1>4. /\ Claimed("ID") = body.id
      /\ Claimed("FROM") = body.seller
      /\ Claimed("RECIPIENT") = body.beneficiary
      /\ Claimed("LAST_CREATOR") = body.creator
      /\ Claimed("ROYALTIES") =
           IF body.royalties > ROYALTY_MAX_VALUE THEN NoPercentage ELSE body.royalties
  BY <1>2, SMT DEF Claimed
<1>5. body.royalties \in Count
  BY SMT DEF ContextTypeOK, transfer_body
<1>6. Tells(token_id_ui(body.id), "ID")
  BY <1>3, <1>4, NumberTells
<1>7. Tells(address_ui("Seller", body.seller), "FROM")
  BY <1>3, <1>4, AddressTells, SMT
<1>8. Tells(address_ui("Beneficiary", body.beneficiary), "RECIPIENT")
  BY <1>3, <1>4, AddressTells, SMT
<1>9. Tells(address_ui("Creator", body.creator), "LAST_CREATOR")
  BY <1>3, <1>4, AddressTells, SMT
<1>10. Tells(set_royalties_ui(body.royalties), "ROYALTIES")
  BY <1>3, <1>4, <1>5, RoyaltiesTell
<1>11. Len(Screens) = 5 /\ DOMAIN truth = {"ID", "FROM", "RECIPIENT", "LAST_CREATOR",
                                            "ROYALTIES"}
  BY <1>1, <1>2, SMT
<1>12. /\ Screens[1] = token_id_ui(body.id)
       /\ Screens[2] = address_ui("Seller", body.seller)
       /\ Screens[3] = address_ui("Beneficiary", body.beneficiary)
       /\ Screens[4] = address_ui("Creator", body.creator)
       /\ Screens[5] = set_royalties_ui(body.royalties)
  BY <1>1, SMT
<1> QED BY <1>6, <1>7, <1>8, <1>9, <1>10, <1>11, <1>12, Zenon

LEMMA CancelTells ==
  ASSUME ContextTypeOK, selectorIndex = "CANCEL", wanted = selectorIndex,
         Shown = truth
  PROVE  /\ Len(Screens) = 2
         /\ DOMAIN truth = {"MAKER", "TAKER"}
         /\ Tells(Screens[1], "MAKER")
         /\ Tells(Screens[2], "TAKER")
<1>1. Screens = <<address_ui("Maker", body.maker), address_ui("Taker", body.taker)>>
  BY SMT DEF Screens
<1>2. truth = [MAKER |-> body.maker, TAKER |-> body.taker]
  BY SMT DEF Shown
<1>3. /\ Titled("Maker", "MAKER")
      /\ Titled("Taker", "TAKER")
  <2> DEFINE T == Titles[wanted]
  <2>1. /\ DOMAIN T = {"MAKER", "TAKER"}
        /\ T["MAKER"] = "Maker"
        /\ T["TAKER"] = "Taker"
    BY SMT DEF Titles
  <2> HIDE DEF T
  <2>2. /\ "MAKER" \in DOMAIN T /\ \A g \in DOMAIN T : T[g] = "Maker" <=> g = "MAKER"
        /\ "Maker" # "Rarible"
    BY <2>1, SMT
  <2>3. /\ "TAKER" \in DOMAIN T /\ \A g \in DOMAIN T : T[g] = "Taker" <=> g = "TAKER"
        /\ "Taker" # "Rarible"
    BY <2>1, SMT
  <2> QED BY <2>2, <2>3, Zenon DEF T, Titled
<1>4. /\ Claimed("MAKER") = body.maker
      /\ Claimed("TAKER") = body.taker
  BY <1>2, SMT DEF Claimed
<1>5. Tells(address_ui("Maker", body.maker), "MAKER")
  BY <1>3, <1>4, AddressTells, SMT
<1>6. Tells(address_ui("Taker", body.taker), "TAKER")
  BY <1>3, <1>4, AddressTells, SMT
<1>7. Len(Screens) = 2 /\ DOMAIN truth = {"MAKER", "TAKER"}
  BY <1>1, <1>2, SMT
<1>8. /\ Screens[1] = address_ui("Maker", body.maker)
       /\ Screens[2] = address_ui("Taker", body.taker)
  BY <1>1, SMT
<1> QED BY <1>5, <1>6, <1>7, <1>8, Zenon

LEMMA MatchTells ==
  ASSUME ContextTypeOK, selectorIndex = "MATCH_ORDERS", wanted = selectorIndex,
         Shown = truth
  PROVE  /\ Len(Screens) = 4
         /\ DOMAIN truth = {"LEFT_MAKER", "LEFT_TAKER", "RIGHT_MAKER", "RIGHT_TAKER"}
         /\ Tells(Screens[1], "LEFT_MAKER")
         /\ Tells(Screens[2], "LEFT_TAKER")
         /\ Tells(Screens[3], "RIGHT_MAKER")
         /\ Tells(Screens[4], "RIGHT_TAKER")
<1>1. Screens = <<address_ui("Left Maker", body.left_maker),
                  address_ui("Left Taker", body.left_taker),
                  address_ui("Right Maker", body.right_maker),
                  address_ui("Right Taker", body.right_taker)>>
  BY Zenon DEF Screens
<1>2. truth = [LEFT_MAKER |-> body.left_maker, LEFT_TAKER |-> body.left_taker,
               RIGHT_MAKER |-> body.right_maker, RIGHT_TAKER |-> body.right_taker]
  BY Zenon DEF Shown
<1>3. /\ Titled("Left Maker", "LEFT_MAKER")
      /\ Titled("Left Taker", "LEFT_TAKER")
      /\ Titled("Right Maker", "RIGHT_MAKER")
      /\ Titled("Right Taker", "RIGHT_TAKER")
  <2> DEFINE T == Titles[wanted]
  <2>1. /\ DOMAIN T = {"LEFT_MAKER", "LEFT_TAKER", "RIGHT_MAKER", "RIGHT_TAKER"}
        /\ T["LEFT_MAKER"] = "Left Maker"
        /\ T["LEFT_TAKER"] = "Left Taker"
        /\ T["RIGHT_MAKER"] = "Right Maker"
        /\ T["RIGHT_TAKER"] = "Right Taker"
    BY Zenon DEF Titles
  <2> HIDE DEF T
  <2>2. /\ "LEFT_MAKER" \in DOMAIN T /\ \A g \in DOMAIN T : T[g] = "Left Maker" <=> g = "LEFT_MAKER"
        /\ "Left Maker" # "Rarible"
    BY <2>1, Zenon
  <2>3. /\ "LEFT_TAKER" \in DOMAIN T /\ \A g \in DOMAIN T : T[g] = "Left Taker" <=> g = "LEFT_TAKER"
        /\ "Left Taker" # "Rarible"
    BY <2>1, Zenon
  <2>4. /\ "RIGHT_MAKER" \in DOMAIN T /\ \A g \in DOMAIN T : T[g] = "Right Maker" <=> g = "RIGHT_MAKER"
        /\ "Right Maker" # "Rarible"
    BY <2>1, Zenon
  <2>5. /\ "RIGHT_TAKER" \in DOMAIN T /\ \A g \in DOMAIN T : T[g] = "Right Taker" <=> g = "RIGHT_TAKER"
        /\ "Right Taker" # "Rarible"
    BY <2>1, Zenon
  <2> QED BY <2>2, <2>3, <2>4, <2>5, Zenon DEF T, Titled
<1>4. /\ Claimed("LEFT_MAKER") = body.left_maker
      /\ Claimed("LEFT_TAKER") = body.left_taker
      /\ Claimed("RIGHT_MAKER") = body.right_maker
      /\ Claimed("RIGHT_TAKER") = body.right_taker
  BY <1>2, Zenon DEF Claimed
<1>5. Tells(address_ui("Left Maker", body.left_maker), "LEFT_MAKER")
  BY <1>3, <1>4, AddressTells, Zenon
<1>6. Tells(address_ui("Left Taker", body.left_taker), "LEFT_TAKER")
  BY <1>3, <1>4, AddressTells, Zenon
<1>7. Tells(address_ui("Right Maker", body.right_maker), "RIGHT_MAKER")
  BY <1>3, <1>4, AddressTells, Zenon
<1>8. Tells(address_ui("Right Taker", body.right_taker), "RIGHT_TAKER")
  BY <1>3, <1>4, AddressTells, Zenon
<1>9. Len(Screens) = 4 /\ DOMAIN truth = {"LEFT_MAKER", "LEFT_TAKER", "RIGHT_MAKER",
                                            "RIGHT_TAKER"}
  BY <1>1, <1>2, Zenon
<1>10. /\ Screens[1] = address_ui("Left Maker", body.left_maker)
       /\ Screens[2] = address_ui("Left Taker", body.left_taker)
       /\ Screens[3] = address_ui("Right Maker", body.right_maker)
       /\ Screens[4] = address_ui("Right Taker", body.right_taker)
  BY <1>1, Zenon
<1> QED BY <1>5, <1>6, <1>7, <1>8, <1>9, <1>10, Zenon

LEMMA ApprovalTells ==
  ASSUME ContextTypeOK, selectorIndex = "SET_APPROVED_FOR_ALL", wanted = selectorIndex,
         Shown = truth, truth.APPROVED \in {0, 1}
  PROVE  /\ Len(Screens) = 2
         /\ DOMAIN truth = {"OPERATOR", "APPROVED"}
         /\ Tells(Screens[1], "OPERATOR")
         /\ Tells(Screens[2], "APPROVED")
<1>1. Screens = <<address_ui("To", body.to), set_is_approved(body.isApproved)>>
  BY SMT DEF Screens
<1>2. truth = [OPERATOR |-> body.to, APPROVED |-> body.isApproved]
  BY SMT DEF Shown
<1>3. /\ Titled("To", "OPERATOR")
      /\ Titled("Approved", "APPROVED")
  <2> DEFINE T == Titles[wanted]
  <2>1. /\ DOMAIN T = {"OPERATOR", "APPROVED"}
        /\ T["OPERATOR"] = "To"
        /\ T["APPROVED"] = "Approved"
    BY SMT DEF Titles
  <2> HIDE DEF T
  <2>2. /\ "OPERATOR" \in DOMAIN T /\ \A g \in DOMAIN T : T[g] = "To" <=> g = "OPERATOR"
        /\ "To" # "Rarible"
    BY <2>1, SMT
  <2>3. /\ "APPROVED" \in DOMAIN T /\ \A g \in DOMAIN T : T[g] = "Approved" <=> g = "APPROVED"
        /\ "Approved" # "Rarible"
    BY <2>1, SMT
  <2> QED BY <2>2, <2>3, Zenon DEF T, Titled
<1>4. /\ Claimed("OPERATOR") = body.to
      /\ Claimed("APPROVED") = body.isApproved
  BY <1>2, SMT DEF Claimed
<1>5. body.isApproved \in {0, 1}
  BY <1>2, SMT
<1>6. Tells(address_ui("To", body.to), "OPERATOR")
  BY <1>3, <1>4, AddressTells, SMT
<1>7. Tells(set_is_approved(body.isApproved), "APPROVED")
  BY <1>3, <1>4, <1>5, ApprovedTells
<1>8. Len(Screens) = 2 /\ DOMAIN truth = {"OPERATOR", "APPROVED"}
  BY <1>1, <1>2, SMT
<1>9. /\ Screens[1] = address_ui("To", body.to)
       /\ Screens[2] = set_is_approved(body.isApproved)
  BY <1>1, SMT
<1> QED BY <1>6, <1>7, <1>8, <1>9, Zenon

LEMMA CreateTells ==
  ASSUME ContextTypeOK, selectorIndex = "CREATE_TOKEN", wanted = selectorIndex,
         Shown = truth
  PROVE  /\ Len(Screens) = 3
         /\ DOMAIN truth = {"NAME", "SYMBOL", "OPERATORS"}
         /\ Tells(Screens[1], "NAME")
         /\ Tells(Screens[2], "SYMBOL")
         /\ Tells(Screens[3], "OPERATORS")
<1>1. Screens = <<text_ui("Name", body.name_text), text_ui("Symbol", body.symbol_text),
                  operator_ui(body.operator_found, body.operator)>>
  BY SMT DEF Screens
<1>2. truth = [NAME |-> body.name_text, SYMBOL |-> body.symbol_text,
               OPERATORS |-> Found(body.operator_found, body.operator)]
  BY SMT DEF Shown
<1>3. /\ Titled("Name", "NAME")
      /\ Titled("Symbol", "SYMBOL")
      /\ Titled("Operator", "OPERATORS")
  <2> DEFINE T == Titles[wanted]
  <2>1. /\ DOMAIN T = {"NAME", "SYMBOL", "OPERATORS"}
        /\ T["NAME"] = "Name"
        /\ T["SYMBOL"] = "Symbol"
        /\ T["OPERATORS"] = "Operator"
    BY SMT DEF Titles
  <2> HIDE DEF T
  <2>2. /\ "NAME" \in DOMAIN T /\ \A g \in DOMAIN T : T[g] = "Name" <=> g = "NAME"
        /\ "Name" # "Rarible"
    BY <2>1, SMT
  <2>3. /\ "SYMBOL" \in DOMAIN T /\ \A g \in DOMAIN T : T[g] = "Symbol" <=> g = "SYMBOL"
        /\ "Symbol" # "Rarible"
    BY <2>1, SMT
  <2>4. /\ "OPERATORS" \in DOMAIN T /\ \A g \in DOMAIN T : T[g] = "Operator" <=> g = "OPERATORS"
        /\ "Operator" # "Rarible"
    BY <2>1, SMT
  <2> QED BY <2>2, <2>3, <2>4, Zenon DEF T, Titled
<1>4. /\ Claimed("NAME") = body.name_text
      /\ Claimed("SYMBOL") = body.symbol_text
      /\ Claimed("OPERATORS") = Found(body.operator_found, body.operator)
  BY <1>2, SMT DEF Claimed
<1>5. body.operator_found \in BOOLEAN
  BY SMT DEF ContextTypeOK, create_body
<1>6. Tells(text_ui("Name", body.name_text), "NAME")
  BY <1>3, <1>4, TextTells
<1>7. Tells(text_ui("Symbol", body.symbol_text), "SYMBOL")
  BY <1>3, <1>4, TextTells
<1>8. Tells(operator_ui(body.operator_found, body.operator), "OPERATORS")
  BY <1>3, <1>4, <1>5, OperatorTells
<1>9. Len(Screens) = 3 /\ DOMAIN truth = {"NAME", "SYMBOL", "OPERATORS"}
  BY <1>1, <1>2, SMT
<1>10. /\ Screens[1] = text_ui("Name", body.name_text)
       /\ Screens[2] = text_ui("Symbol", body.symbol_text)
       /\ Screens[3] = operator_ui(body.operator_found, body.operator)
  BY <1>1, SMT
<1> QED BY <1>6, <1>7, <1>8, <1>9, <1>10, Zenon

LEMMA InitializerTells ==
  ASSUME ContextTypeOK, selectorIndex = "ERC721_RARIBLE_INIT", wanted = selectorIndex,
         Shown = truth
  PROVE  /\ Len(Screens) = 4
         /\ DOMAIN truth = {"NAME", "SYMBOL", "TRANSFER_PROXY", "LAZY_TRANSFER_PROXY"}
         /\ Tells(Screens[1], "NAME")
         /\ Tells(Screens[2], "SYMBOL")
         /\ Tells(Screens[3], "TRANSFER_PROXY")
         /\ Tells(Screens[4], "LAZY_TRANSFER_PROXY")
<1>1. Screens = <<text_ui("Name", body.name_text), text_ui("Symbol", body.symbol_text),
                  address_ui("Transfer", body.transfer_proxy),
                  address_ui("Lazy Transfer", body.lazy_transfer_proxy)>>
  BY Zenon DEF Screens
<1>2. truth = [NAME |-> body.name_text, SYMBOL |-> body.symbol_text,
               TRANSFER_PROXY |-> body.transfer_proxy,
               LAZY_TRANSFER_PROXY |-> body.lazy_transfer_proxy]
  BY Zenon DEF Shown
<1>3. /\ Titled("Name", "NAME")
      /\ Titled("Symbol", "SYMBOL")
      /\ Titled("Transfer", "TRANSFER_PROXY")
      /\ Titled("Lazy Transfer", "LAZY_TRANSFER_PROXY")
  <2> DEFINE T == Titles[wanted]
  <2>1. /\ DOMAIN T = {"NAME", "SYMBOL", "TRANSFER_PROXY", "LAZY_TRANSFER_PROXY"}
        /\ T["NAME"] = "Name"
        /\ T["SYMBOL"] = "Symbol"
        /\ T["TRANSFER_PROXY"] = "Transfer"
        /\ T["LAZY_TRANSFER_PROXY"] = "Lazy Transfer"
    BY Zenon DEF Titles
  <2> HIDE DEF T
  <2>2. /\ "NAME" \in DOMAIN T /\ \A g \in DOMAIN T : T[g] = "Name" <=> g = "NAME"
        /\ "Name" # "Rarible"
    BY <2>1, Zenon
  <2>3. /\ "SYMBOL" \in DOMAIN T /\ \A g \in DOMAIN T : T[g] = "Symbol" <=> g = "SYMBOL"
        /\ "Symbol" # "Rarible"
    BY <2>1, Zenon
  <2>4. /\ "TRANSFER_PROXY" \in DOMAIN T /\ \A g \in DOMAIN T : T[g] = "Transfer" <=> g = "TRANSFER_PROXY"
        /\ "Transfer" # "Rarible"
    BY <2>1, Zenon
  <2>5. /\ "LAZY_TRANSFER_PROXY" \in DOMAIN T /\ \A g \in DOMAIN T : T[g] = "Lazy Transfer" <=> g = "LAZY_TRANSFER_PROXY"
        /\ "Lazy Transfer" # "Rarible"
    BY <2>1, Zenon
  <2> QED BY <2>2, <2>3, <2>4, <2>5, Zenon DEF T, Titled
<1>4. /\ Claimed("NAME") = body.name_text
      /\ Claimed("SYMBOL") = body.symbol_text
      /\ Claimed("TRANSFER_PROXY") = body.transfer_proxy
      /\ Claimed("LAZY_TRANSFER_PROXY") = body.lazy_transfer_proxy
  BY <1>2, Zenon DEF Claimed
<1>5. Tells(text_ui("Name", body.name_text), "NAME")
  BY <1>3, <1>4, TextTells
<1>6. Tells(text_ui("Symbol", body.symbol_text), "SYMBOL")
  BY <1>3, <1>4, TextTells
<1>7. Tells(address_ui("Transfer", body.transfer_proxy), "TRANSFER_PROXY")
  BY <1>3, <1>4, AddressTells, Zenon
<1>8. Tells(address_ui("Lazy Transfer", body.lazy_transfer_proxy), "LAZY_TRANSFER_PROXY")
  BY <1>3, <1>4, AddressTells, Zenon
<1>9. Len(Screens) = 4 /\ DOMAIN truth = {"NAME", "SYMBOL", "TRANSFER_PROXY",
                                            "LAZY_TRANSFER_PROXY"}
  BY <1>1, <1>2, Zenon
<1>10. /\ Screens[1] = text_ui("Name", body.name_text)
       /\ Screens[2] = text_ui("Symbol", body.symbol_text)
       /\ Screens[3] = address_ui("Transfer", body.transfer_proxy)
       /\ Screens[4] = address_ui("Lazy Transfer", body.lazy_transfer_proxy)
  BY <1>1, Zenon
<1> QED BY <1>5, <1>6, <1>7, <1>8, <1>9, <1>10, Zenon

(* handle_finalize announces the screens there are, and over them every    *)
(* promised field of the method is told, each by a screen of its own, as   *)
(* the transaction has it; no screen tells anything else.                  *)
Approvable == selectorIndex = "SET_APPROVED_FOR_ALL" => truth.APPROVED \in {0, 1}

THEOREM ScreensTellClaims ==
  ASSUME ContextTypeOK, wanted = selectorIndex, Shown = truth, Approvable
  PROVE  /\ screens_of[selectorIndex] = Len(Screens) /\ Len(Screens) \in Nat
         /\ \A i \in 1..Len(Screens) : \E f \in DOMAIN truth : Tells(Screens[i], f)
         /\ \A f \in DOMAIN truth : \E i \in 1..Len(Screens) : Tells(Screens[i], f)
<1> DEFINE S == Screens
           D == DOMAIN truth
           T(i, f) == Tells(S[i], f)
<1> DEFINE Goal == /\ screens_of[selectorIndex] = Len(S) /\ Len(S) \in Nat
                   /\ \A i \in 1..Len(S) : \E f \in D : T(i, f)
                   /\ \A f \in D : \E i \in 1..Len(S) : T(i, f)
<1> SUFFICES Goal
  OBVIOUS
<1>1. CASE selectorIndex = "MINT_AND_TRANSFER"
  <2>1. /\ Len(S) = 4 /\ D = {"ID", "BENEFICIARY", "CREATORS", "ROYALTIES"}
        /\ T(1, "ID") /\ T(2, "BENEFICIARY") /\ T(3, "CREATORS") /\ T(4, "ROYALTIES")
    BY <1>1, MintTells
  <2>2. screens_of[selectorIndex] = 4
    BY <1>1, SMT DEF screens_of
  <2> HIDE DEF S, D, T
  <2> QED BY <2>1, <2>2, SMT
<1>2. CASE selectorIndex = "CANCEL"
  <2>1. /\ Len(S) = 2 /\ D = {"MAKER", "TAKER"}
        /\ T(1, "MAKER") /\ T(2, "TAKER")
    BY <1>2, CancelTells
  <2>2. screens_of[selectorIndex] = 2
    BY <1>2, SMT DEF screens_of
  <2> HIDE DEF S, D, T
  <2> QED BY <2>1, <2>2, SMT
<1>3. CASE selectorIndex = "MATCH_ORDERS"
  <2>1. /\ Len(S) = 4 /\ D = {"LEFT_MAKER", "LEFT_TAKER", "RIGHT_MAKER", "RIGHT_TAKER"}
        /\ T(1, "LEFT_MAKER") /\ T(2, "LEFT_TAKER") /\ T(3, "RIGHT_MAKER") /\ T(4, "RIGHT_TAKER")
    BY <1>3, MatchTells
  <2>2. screens_of[selectorIndex] = 4
    BY <1>3, SMT DEF screens_of
  <2> HIDE DEF S, D, T
  <2> QED BY <2>1, <2>2, SMT
<1>4. CASE selectorIndex = "TRANSFER_FROM_OR_MINT"
  <2>1. /\ Len(S) = 5 /\ D = {"ID", "FROM", "RECIPIENT", "LAST_CREATOR", "ROYALTIES"}
        /\ T(1, "ID") /\ T(2, "FROM") /\ T(3, "RECIPIENT") /\ T(4, "LAST_CREATOR") /\ T(5, "ROYALTIES")
    BY <1>4, TransferTells
  <2>2. screens_of[selectorIndex] = 5
    BY <1>4, SMT DEF screens_of
  <2> HIDE DEF S, D, T
  <2> QED BY <2>1, <2>2, SMT
<1>5. CASE selectorIndex = "SET_APPROVED_FOR_ALL"
  <2>0. truth.APPROVED \in {0, 1}
    BY <1>5, Zenon DEF Approvable
  <2>1. /\ Len(S) = 2 /\ D = {"OPERATOR", "APPROVED"}
        /\ T(1, "OPERATOR") /\ T(2, "APPROVED")
    BY <1>5, <2>0, ApprovalTells
  <2>2. screens_of[selectorIndex] = 2
    BY <1>5, SMT DEF screens_of
  <2> HIDE DEF S, D, T
  <2> QED BY <2>1, <2>2, SMT
<1>6. CASE selectorIndex = "CREATE_TOKEN"
  <2>1. /\ Len(S) = 3 /\ D = {"NAME", "SYMBOL", "OPERATORS"}
        /\ T(1, "NAME") /\ T(2, "SYMBOL") /\ T(3, "OPERATORS")
    BY <1>6, CreateTells
  <2>2. screens_of[selectorIndex] = 3
    BY <1>6, SMT DEF screens_of
  <2> HIDE DEF S, D, T
  <2> QED BY <2>1, <2>2, SMT
<1>7. CASE selectorIndex = "ERC721_RARIBLE_INIT"
  <2>1. /\ Len(S) = 4 /\ D = {"NAME", "SYMBOL", "TRANSFER_PROXY", "LAZY_TRANSFER_PROXY"}
        /\ T(1, "NAME") /\ T(2, "SYMBOL") /\ T(3, "TRANSFER_PROXY") /\ T(4, "LAZY_TRANSFER_PROXY")
    BY <1>7, InitializerTells
  <2>2. screens_of[selectorIndex] = 4
    BY <1>7, SMT DEF screens_of
  <2> HIDE DEF S, D, T
  <2> QED BY <2>1, <2>2, SMT
<1> QED BY <1>1, <1>2, <1>3, <1>4, <1>5, <1>6, <1>7, Zenon DEF ContextTypeOK, SelectorNames

-----------------------------------------------------------------------------
(* Sessions. *)

(* What surrounds the type invariant.  A flag is sent as 0 or 1, and only  *)
(* where the method has one.                                               *)
FlagOK ==
  selectorIndex = "SET_APPROVED_FOR_ALL" =>
    /\ pos \in 1..3 /\ part = IF pos = 3 THEN "end" ELSE "static"
    /\ DOMAIN truth = {"OPERATOR", "APPROVED"} /\ truth.APPROVED \in {0, 1}

SessionInv ==
  /\ SessionTypeOK /\ FlagOK
  /\ phase = "feeding" => result = "OK"
  /\ phase # "idle" => wanted = selectorIndex
  /\ phase \in {"feeding", "finalized"} => shown = 0 /\ told = {}
  /\ UnderReview => numScreens = screens_of[selectorIndex]

LEMMA MethodLookup ==
  /\ \A i \in 1..Len(RARIBLE_SELECTORS) :
       MethodCalled(RARIBLE_SELECTORS[i]) = selector_t[i] /\ selector_t[i] \in SelectorNames
  /\ \A s : MethodCalled(s) \in SelectorNames \cup {"NONE"}
<1>1. /\ MethodCalled("22a775b6") = "MINT_AND_TRANSFER"
      /\ MethodCalled("e2864fe3") = "CANCEL"
      /\ MethodCalled("e99a3f80") = "MATCH_ORDERS"
      /\ MethodCalled("832fbb29") = "TRANSFER_FROM_OR_MINT"
      /\ MethodCalled("a22cb465") = "SET_APPROVED_FOR_ALL"
      /\ MethodCalled("27050d1f") = "CREATE_TOKEN"
      /\ MethodCalled("3db397c6") = "ERC721_RARIBLE_INIT"
  BY Zenon DEF MethodCalled
<1>2. /\ RARIBLE_SELECTORS[1] = "22a775b6" /\ RARIBLE_SELECTORS[2] = "e2864fe3"
      /\ RARIBLE_SELECTORS[3] = "e99a3f80" /\ RARIBLE_SELECTORS[4] = "832fbb29"
      /\ RARIBLE_SELECTORS[5] = "a22cb465" /\ RARIBLE_SELECTORS[6] = "27050d1f"
      /\ RARIBLE_SELECTORS[7] = "3db397c6"
  BY Zenon DEF RARIBLE_SELECTORS
<1>3. /\ selector_t[1] = "MINT_AND_TRANSFER" /\ selector_t[2] = "CANCEL"
      /\ selector_t[3] = "MATCH_ORDERS" /\ selector_t[4] = "TRANSFER_FROM_OR_MINT"
      /\ selector_t[5] = "SET_APPROVED_FOR_ALL" /\ selector_t[6] = "CREATE_TOKEN"
      /\ selector_t[7] = "ERC721_RARIBLE_INIT"
  BY Zenon DEF selector_t
<1>4. Len(RARIBLE_SELECTORS) = 7
  <2>1. \A a, b, c, d, e, f, g : Len(<<a, b, c, d, e, f, g>>) = 7
    OBVIOUS
  <2> QED BY <2>1, Zenon DEF RARIBLE_SELECTORS
<1>5. \A i \in 1..7 : i = 1 \/ i = 2 \/ i = 3 \/ i = 4 \/ i = 5 \/ i = 6 \/ i = 7
  BY SMT
<1>6. \A i \in 1..7 :
        MethodCalled(RARIBLE_SELECTORS[i]) = selector_t[i] /\ selector_t[i] \in SelectorNames
  BY <1>1, <1>2, <1>3, <1>5, Zenon DEF SelectorNames
<1>7. \A s : MethodCalled(s) \in SelectorNames \cup {"NONE"}
  BY Zenon DEF MethodCalled, SelectorNames
<1> QED BY <1>4, <1>6, <1>7, Zenon

(* What handle_init_contract does with a selector. *)
LEMMA InitContract ==
  ASSUME ContextTypeOK, NEW s, NEW compatible \in BOOLEAN, NEW roomy \in BOOLEAN,
         handle_init_contract(compatible, roomy, s)
  PROVE  /\ ContextTypeOK' /\ result' \in {"OK", "ERROR", "UNAVAILABLE"}
         /\ result' = "OK" =>
              /\ MethodCalled(s) \in SelectorNames
              /\ Prepared(MethodCalled(s), first_param[MethodCalled(s)])
<1>1. ContextTypeOK' /\ result' \in {"OK", "ERROR", "UNAVAILABLE"}
  BY InitContractType, Zenon
<1>2. CASE result' \in {"ERROR", "UNAVAILABLE"}
  <2>1. result' # "OK"
    BY <1>2, SMT
  <2> QED BY <1>1, <2>1, Zenon
<1>3. CASE \E i \in 1..Len(RARIBLE_SELECTORS) :
             /\ RARIBLE_SELECTORS[i] = s
             /\ Prepared(selector_t[i], first_param[selector_t[i]])
             /\ result' = "OK"
  <2>1. PICK i \in 1..Len(RARIBLE_SELECTORS) :
          /\ RARIBLE_SELECTORS[i] = s
          /\ Prepared(selector_t[i], first_param[selector_t[i]])
          /\ result' = "OK"
    BY <1>3
  <2>2. MethodCalled(s) = selector_t[i] /\ selector_t[i] \in SelectorNames
    BY <2>1, MethodLookup, Zenon
  <2> QED BY <1>1, <2>1, <2>2, Zenon
<1> QED BY <1>2, <1>3, Zenon DEF handle_init_contract

LEMMA SessionInitOK == SessionInit => SessionInv
<1> SUFFICES ASSUME SessionInit PROVE SessionInv
  OBVIOUS
<1>1. /\ selectorIndex = "MINT_AND_TRANSFER" /\ body = zero_body["MINT_AND_TRANSFER"]
      /\ next_param = "BODY_OFFSET" /\ sub_param = "BODY_OFFSET"
      /\ counter = 0 /\ max_counter = 0 /\ result = "OK" /\ refusable = FALSE
      /\ numScreens = 0 /\ phase = "idle" /\ wanted = "NONE" /\ shown = 0 /\ told = {}
  BY Zenon DEF SessionInit
<1>2. first_param["MINT_AND_TRANSFER"] = "BODY_OFFSET" /\ "MINT_AND_TRANSFER" \in SelectorNames
  BY Zenon DEF first_param, SelectorNames
<1>3. ContextTypeOK
  BY <1>1, <1>2, FreshContext, SMT DEF ContextTypeOK
<1>4. SessionTypeOK
  <2>1. 0 \in Nat /\ 0 \in 0..0
    BY SMT
  <2> QED BY <1>1, <1>3, <2>1, Zenon DEF SessionTypeOK
<1>5. FlagOK
  BY <1>1, SMT DEF FlagOK
<1> QED BY <1>1, <1>4, <1>5, SMT DEF SessionInv, UnderReview

(* A new transaction has told nothing of its flag, and an old one's is     *)
(* forgotten.                                                              *)
LEMMA FlagRestarts == ASSUME NEW sel, selectorIndex' = sel, RestartCalldata(sel) PROVE FlagOK'
<1>1. pos' = 1 /\ part' = "static" /\ truth' = NothingKnown[sel]
  BY Zenon DEF RestartCalldata
<1>2. NothingKnown["SET_APPROVED_FOR_ALL"] = [OPERATOR |-> 0, APPROVED |-> 0]
  BY Zenon DEF NothingKnown
<1> QED BY <1>1, <1>2, SMT DEF FlagOK

LEMMA SelectOK ==
  ASSUME SessionInv, NEW s, NEW compatible \in BOOLEAN, NEW roomy \in BOOLEAN,
         Select(s, compatible, roomy)
  PROVE  SessionInv'
<1>1. /\ ContextTypeOK' /\ result' \in {"OK", "ERROR", "UNAVAILABLE"}
      /\ result' = "OK" => Prepared(MethodCalled(s), first_param[MethodCalled(s)])
  BY InitContract, Zenon DEF SessionInv, SessionTypeOK, Select
<1>2. /\ wanted' = MethodCalled(s) /\ phase' = IF result' = "OK" THEN "feeding" ELSE "idle"
      /\ refusable' \in BOOLEAN /\ RestartCalldata(selectorIndex')
      /\ numScreens' = 0 /\ shown' = 0 /\ told' = {}
  BY Zenon DEF Select
<1>3. wanted' \in SelectorNames \cup {"NONE"}
  BY <1>2, MethodLookup, Zenon
<1>4. SessionTypeOK'
  BY <1>1, <1>2, <1>3, SMT DEF SessionTypeOK
<1>5. FlagOK'
  BY <1>2, FlagRestarts, Zenon
<1>6. result' = "OK" => selectorIndex' = wanted'
  BY <1>1, <1>2, Zenon DEF Prepared
<1> QED BY <1>2, <1>4, <1>5, <1>6, SMT DEF SessionInv, UnderReview

(* Only the word of the flag tells the flag. *)
LEMMA FlagFed == ASSUME FlagOK, NEW w, EncodeWord(w), selectorIndex' = selectorIndex PROVE FlagOK'
<1> SUFFICES ASSUME selectorIndex = "SET_APPROVED_FOR_ALL" PROVE FlagOK'
  BY Zenon DEF FlagOK
<1> DEFINE L == Layout[selectorIndex]
<1>1. Len(L) = 2 /\ L[1] = "OPERATOR" /\ L[2] = "APPROVED"
  BY ApprovalLayout
<1>2. /\ pos \in 1..3 /\ part = IF pos = 3 THEN "end" ELSE "static"
      /\ DOMAIN truth = {"OPERATOR", "APPROVED"} /\ truth.APPROVED \in {0, 1}
  BY Zenon DEF FlagOK
<1>3. FirstPart("APPROVED") = "static"
  BY SMT DEF FirstPart, ByteStrings, Lists
<1>4. field = L[pos]
  BY Zenon DEF field
<1> HIDE DEF L
<1>5. CASE pos = 3
  <2>1. SurplusWord(w)
    BY <1>2, <1>5, SMT DEF EncodeWord, StaticWord, LengthWord, ChunkWord, QuantityWord,
       OffsetWord, FirstWord, SecondWord
  <2> QED BY <2>1, Zenon DEF SurplusWord, calldataVars, FlagOK
<1>6. CASE pos \in 1..2
  <2>1. part = "static"
    BY <1>2, <1>6, SMT
  <2>2. StaticWord(w)
    BY <2>1, SMT DEF EncodeWord, SurplusWord, LengthWord, ChunkWord, QuantityWord,
       OffsetWord, FirstWord, SecondWord
  <2>3. /\ NextField /\ Tell(w)
        /\ w \in IF field \in AddressFields THEN Addresses
                 ELSE IF field = "APPROVED" THEN {0, 1} ELSE Values
    BY <2>2, Zenon DEF StaticWord
  <2>4. pos' = pos + 1 /\ part' = IF pos = 2 THEN "end" ELSE FirstPart(L[pos + 1])
    BY <1>1, <2>3, Zenon DEF NextField, L
  <2>5. pos' \in 1..3 /\ part' = IF pos' = 3 THEN "end" ELSE "static"
    BY <1>1, <1>3, <1>6, <2>4, SMT
  <2>6. field \in {"OPERATOR", "APPROVED"}
    BY <1>1, <1>4, <1>6, SMT
  <2>7. truth' = [truth EXCEPT ![field] = w]
    BY <1>2, <2>3, <2>6, Zenon DEF Tell
  <2>8. field = "APPROVED" => w \in {0, 1}
    BY <2>3, SMT DEF AddressFields
  <2>9. DOMAIN truth' = {"OPERATOR", "APPROVED"} /\ truth'.APPROVED \in {0, 1}
    BY <1>2, <2>6, <2>7, <2>8, SMT
  <2> QED BY <2>5, <2>9, Zenon DEF FlagOK
<1> QED BY <1>2, <1>5, <1>6, SMT

LEMMA FeedWordOK == ASSUME SessionInv, FeedWord PROVE SessionInv'
<1>1. PICK w \in WordsToSend :
        EncodeWord(w) /\ handle_provide_parameter(w) /\ refusable' = MustRefuse(w)
  BY Zenon DEF FeedWord, Feed
<1>2. w \in Nat
  BY WordsAreNaturals, Zenon
<1>3. ContextTypeOK' /\ selectorIndex' = selectorIndex /\ result' \in {"OK", "ERROR"}
  BY <1>1, <1>2, ProvideParameterType, Zenon DEF SessionInv, SessionTypeOK
<1>4. refusable' \in BOOLEAN
  BY <1>1, Zenon DEF MustRefuse
<1>5. /\ phase = "feeding" /\ phase' = IF result' = "OK" THEN "feeding" ELSE "idle"
      /\ UNCHANGED <<numScreens, wanted, shown, told>>
  BY Zenon DEF FeedWord, screenVars
<1>6. FlagOK'
  BY <1>1, <1>3, FlagFed, Zenon DEF SessionInv
<1>7. SessionTypeOK'
  BY <1>3, <1>4, <1>5, SMT DEF SessionInv, SessionTypeOK
<1> QED BY <1>3, <1>5, <1>6, <1>7, SMT DEF SessionInv, UnderReview

(* From the last word on the transaction is what it is. *)
SameTransaction == UNCHANGED <<context, calldataVars, wanted>>

LEMMA SameMeans ==
  ASSUME SameTransaction
  PROVE  /\ UNCHANGED <<selectorIndex, wanted, truth, Screens, Shown, Claims>>
         /\ \A s : Told(s)' = Told(s)
         /\ ContextTypeOK => ContextTypeOK'
         /\ FlagOK => FlagOK'
<1>1. /\ UNCHANGED <<selectorIndex, next_param, sub_param, counter, max_counter, body>>
      /\ UNCHANGED <<wanted, pos, part, truth>>
  BY Zenon DEF SameTransaction, context, calldataVars
<1>2. UNCHANGED Screens
  BY <1>1, Zenon DEF Screens
<1>3. UNCHANGED Shown
  BY <1>1, Zenon DEF Shown
<1>4. UNCHANGED Claims
  BY <1>1, Zenon DEF Claims, Claimed
<1>5. \A s : Told(s)' = Told(s)
  BY <1>1, Zenon DEF Told
<1>6. ContextTypeOK => ContextTypeOK'
  BY <1>1, Zenon DEF ContextTypeOK
<1>7. FlagOK => FlagOK'
  BY <1>1, Zenon DEF FlagOK
<1> QED BY <1>1, <1>2, <1>3, <1>4, <1>5, <1>6, <1>7, Zenon

LEMMA FinalizeOK == ASSUME SessionInv, Finalize PROVE SameTransaction /\ SessionInv'
<1>1. /\ phase = "feeding" /\ phase' = "finalized" /\ result' = "OK"
      /\ numScreens' = screens_of[selectorIndex]
      /\ UNCHANGED <<refusable, shown, told>> /\ SameTransaction
  BY Zenon DEF Finalize, handle_finalize, SameTransaction
<1>2. ContextTypeOK' /\ FlagOK' /\ selectorIndex' = selectorIndex /\ wanted' = wanted
  BY <1>1, SameMeans, Zenon DEF SessionInv, SessionTypeOK
<1>3. screens_of[selectorIndex] \in Nat /\ 0 \in 0..screens_of[selectorIndex]
  <2>1. selectorIndex \in SelectorNames
    BY Zenon DEF SessionInv, SessionTypeOK, ContextTypeOK
  <2>2. screens_of[selectorIndex] \in {4, 2, 5, 3}
    BY <2>1, SMT DEF screens_of, SelectorNames
  <2> QED BY <2>2, SMT
<1>4. SessionTypeOK'
  BY <1>1, <1>2, <1>3, Zenon DEF SessionInv, SessionTypeOK
<1> QED BY <1>1, <1>2, <1>4, SMT DEF SessionInv, UnderReview

LEMMA QueryIdOK == ASSUME SessionInv, QueryId PROVE SameTransaction /\ SessionInv'
<1>1. /\ phase = "finalized" /\ phase' = "review" /\ result' = "OK" /\ shown' = 0
      /\ UNCHANGED <<refusable, numScreens>> /\ SameTransaction
  BY Zenon DEF QueryId, handle_query_contract_id, SameTransaction
<1>2. ContextTypeOK' /\ FlagOK' /\ selectorIndex' = selectorIndex /\ wanted' = wanted
  BY <1>1, SameMeans, Zenon DEF SessionInv, SessionTypeOK
<1>3. SessionTypeOK'
  BY <1>1, <1>2, SMT DEF SessionInv, SessionTypeOK
<1> QED BY <1>1, <1>2, <1>3, SMT DEF SessionInv, UnderReview

LEMMA ShowScreenOK ==
  ASSUME SessionInv, NEW i \in Nat, i < numScreens, ShowScreen(i)
  PROVE  SameTransaction /\ SessionInv'
<1>1. /\ phase = "review" /\ UNCHANGED numScreens /\ SameTransaction
      /\ result' \in {"OK", "ERROR"} /\ refusable' \in BOOLEAN
      /\ \/ phase' = "review" /\ shown' = i + 1
         \/ phase' = "idle" /\ shown' = shown
  BY Zenon DEF ShowScreen, handle_query_contract_ui, handle_query_ui_exception, SameTransaction
<1>2. ContextTypeOK' /\ FlagOK' /\ selectorIndex' = selectorIndex /\ wanted' = wanted
  BY <1>1, SameMeans, Zenon DEF SessionInv, SessionTypeOK
<1>3. SessionTypeOK'
  BY <1>1, <1>2, SMT DEF SessionInv, SessionTypeOK
<1> QED BY <1>1, <1>2, <1>3, SMT DEF SessionInv, UnderReview

(* A screen asked for is one that was announced, the one after those shown *)
(* or one of them.                                                         *)
LEMMA PagesExist ==
  ASSUME SessionInv, PageForward \/ PageBack
  PROVE  \E i \in Nat : i < numScreens /\ i <= shown /\ ShowScreen(i)
<1>1. numScreens \in Nat /\ shown \in 0..numScreens
  BY Zenon DEF SessionInv, SessionTypeOK
<1>2. /\ shown \in Nat /\ shown <= shown
      /\ shown > 1 => shown - 2 \in Nat /\ shown - 2 < numScreens /\ shown - 2 <= shown
  BY <1>1, SMT
<1>3. CASE PageForward
  BY <1>2, <1>3, Zenon DEF PageForward
<1>4. CASE PageBack
  BY <1>2, <1>4, Zenon DEF PageBack
<1> QED BY <1>3, <1>4

LEMMA ApproveOK == ASSUME SessionInv, Approve PROVE SameTransaction /\ SessionInv'
<1>1. /\ phase = "review" /\ phase' = "signed"
      /\ UNCHANGED <<result, refusable, numScreens, shown, told>> /\ SameTransaction
  BY Zenon DEF Approve, vars, contextVars, screenVars, SameTransaction
<1>2. ContextTypeOK' /\ FlagOK' /\ selectorIndex' = selectorIndex /\ wanted' = wanted
  BY <1>1, SameMeans, Zenon DEF SessionInv, SessionTypeOK
<1>3. SessionTypeOK'
  BY <1>1, <1>2, SMT DEF SessionInv, SessionTypeOK
<1> QED BY <1>1, <1>2, <1>3, SMT DEF SessionInv, UnderReview

LEMMA AbandonOK == ASSUME SessionInv, Abandon PROVE SessionInv'
<1>1. /\ phase' = "idle"
      /\ UNCHANGED <<result, refusable, numScreens, shown, told>> /\ SameTransaction
  BY Zenon DEF Abandon, vars, contextVars, screenVars, SameTransaction
<1>2. ContextTypeOK' /\ FlagOK' /\ selectorIndex' = selectorIndex /\ wanted' = wanted
  BY <1>1, SameMeans, Zenon DEF SessionInv, SessionTypeOK
<1>3. SessionTypeOK'
  BY <1>1, <1>2, SMT DEF SessionInv, SessionTypeOK
<1> QED BY <1>1, <1>2, <1>3, SMT DEF SessionInv, UnderReview

LEMMA SessionStutterOK == SessionInv /\ UNCHANGED sessionVars => SessionInv'
<1> SUFFICES ASSUME SessionInv, UNCHANGED sessionVars PROVE SessionInv'
  OBVIOUS
<1>1. UNCHANGED <<result, refusable, numScreens, phase, shown, told>> /\ SameTransaction
  BY Zenon DEF sessionVars, vars, contextVars, screenVars, SameTransaction
<1>2. ContextTypeOK' /\ FlagOK' /\ selectorIndex' = selectorIndex /\ wanted' = wanted
  BY <1>1, SameMeans, Zenon DEF SessionInv, SessionTypeOK
<1>3. SessionTypeOK'
  BY <1>1, <1>2, SMT DEF SessionInv, SessionTypeOK
<1> QED BY <1>1, <1>2, <1>3, SMT DEF SessionInv, UnderReview

LEMMA SessionStepOK == SessionInv /\ [SessionNext]_sessionVars => SessionInv'
<1> SUFFICES ASSUME SessionInv, SessionNext PROVE SessionInv'
  BY SessionStutterOK, Zenon
<1>1. ASSUME PageForward \/ PageBack PROVE SessionInv'
  BY <1>1, PagesExist, ShowScreenOK, Zenon
<1> QED BY <1>1, SelectOK, FeedWordOK, FinalizeOK, QueryIdOK, ApproveOK, AbandonOK, Zenon
    DEF SessionNext

(* Over any number of transactions of any methods, dropped at any point,   *)
(* with exceptions in any screen, the context stays within its C types and *)
(* the review never goes beyond the screens that were announced.           *)
THEOREM SessionTypeCorrect == SessionSpec => []SessionTypeOK
<1>1. SessionInv => SessionTypeOK
  BY Zenon DEF SessionInv
<1> QED BY <1>1, SessionInitOK, SessionStepOK, PTL DEF SessionSpec

-----------------------------------------------------------------------------
(* The review. *)

ReviewInv ==
  /\ UnderReview => Shown = truth
  /\ phase \in {"review", "signed"} =>
       /\ <<"METHOD", wanted>> \in told /\ told \subseteq Claims
       /\ \A i \in 1..shown : Told(Screens[i]) \subseteq told

LEMMA TitleTells ==
  ASSUME wanted = selectorIndex, selectorIndex \in SelectorNames
  PROVE  Told(notice_ui("Rarible", version_of[selectorIndex])) = {<<"METHOD", wanted>>}
<1> DEFINE s == notice_ui("Rarible", version_of[selectorIndex])
<1>1. s.form = "notice" /\ s.title = "Rarible" /\ s.value = version_of[selectorIndex]
  BY SMT DEF notice_ui
<1>2. \A n, m \in SelectorNames : MethodNamed[n] = MethodNamed[m] <=> n = m
  <2>1. /\ MethodNamed["MINT_AND_TRANSFER"] = "Mint&Transfer"
        /\ MethodNamed["CANCEL"] = "Cancel"
        /\ MethodNamed["MATCH_ORDERS"] = "Match Orders"
        /\ MethodNamed["TRANSFER_FROM_OR_MINT"] = "TransferFromOrMint"
        /\ MethodNamed["SET_APPROVED_FOR_ALL"] = "SetApprovalForAll"
        /\ MethodNamed["CREATE_TOKEN"] = "Create Token"
        /\ MethodNamed["ERC721_RARIBLE_INIT"] = "ERC 721 Init"
    BY Zenon DEF MethodNamed, SelectorNames
  <2>2. \A m \in SelectorNames : MethodNamed[m] = "Mint&Transfer" <=> m = "MINT_AND_TRANSFER"
    BY <2>1, Zenon DEF SelectorNames
  <2>3. \A m \in SelectorNames : MethodNamed[m] = "Cancel" <=> m = "CANCEL"
    BY <2>1, Zenon DEF SelectorNames
  <2>4. \A m \in SelectorNames : MethodNamed[m] = "Match Orders" <=> m = "MATCH_ORDERS"
    BY <2>1, Zenon DEF SelectorNames
  <2>5. \A m \in SelectorNames : MethodNamed[m] = "TransferFromOrMint" <=> m = "TRANSFER_FROM_OR_MINT"
    BY <2>1, Zenon DEF SelectorNames
  <2>6. \A m \in SelectorNames : MethodNamed[m] = "SetApprovalForAll" <=> m = "SET_APPROVED_FOR_ALL"
    BY <2>1, Zenon DEF SelectorNames
  <2>7. \A m \in SelectorNames : MethodNamed[m] = "Create Token" <=> m = "CREATE_TOKEN"
    BY <2>1, Zenon DEF SelectorNames
  <2>8. \A m \in SelectorNames : MethodNamed[m] = "ERC 721 Init" <=> m = "ERC721_RARIBLE_INIT"
    BY <2>1, Zenon DEF SelectorNames
  <2> QED BY <2>1, <2>2, <2>3, <2>4, <2>5, <2>6, <2>7, <2>8, Zenon DEF SelectorNames
<1>3. \A n \in SelectorNames : MethodNamed[n] = version_of[n]
  BY Zenon DEF MethodNamed, version_of, SelectorNames
<1> HIDE DEF s
<1>4. Told(s) = {<<"METHOD", m>> : m \in {n \in SelectorNames : MethodNamed[n] = s.value}}
  BY <1>1, Zenon DEF Told
<1>5. {n \in SelectorNames : MethodNamed[n] = s.value} = {wanted}
  <2>1. \A n \in SelectorNames : MethodNamed[n] = s.value <=> n = wanted
    BY <1>1, <1>2, <1>3, Zenon
  <2> QED BY <2>1, Zenon
<1>6. Told(s) = {<<"METHOD", wanted>>}
  BY <1>4, <1>5, Zenon
<1> QED BY <1>6 DEF s

(* What the screens tell of a transaction the context holds. *)
LEMMA ReviewTells ==
  ASSUME SessionInv, ReviewInv, UnderReview
  PROVE  /\ numScreens = Len(Screens) /\ numScreens \in Nat
         /\ \A i \in 1..numScreens : Told(Screens[i]) \subseteq Claims
         /\ \A f \in DOMAIN truth : \E i \in 1..numScreens :
              Told(Screens[i]) = {<<f, Claimed(f)>>}
<1>1. phase # "idle"
  BY SMT DEF UnderReview
<1>2. ContextTypeOK /\ wanted = selectorIndex /\ Shown = truth
  BY <1>1, Zenon DEF SessionInv, SessionTypeOK, ReviewInv
<1>3. Approvable
  BY Zenon DEF SessionInv, FlagOK, Approvable
<1>4. /\ screens_of[selectorIndex] = Len(Screens) /\ Len(Screens) \in Nat
      /\ \A i \in 1..Len(Screens) : \E f \in DOMAIN truth : Tells(Screens[i], f)
      /\ \A f \in DOMAIN truth : \E i \in 1..Len(Screens) : Tells(Screens[i], f)
  BY <1>2, <1>3, ScreensTellClaims
<1>5. numScreens = Len(Screens)
  BY <1>4, Zenon DEF SessionInv
<1>6. \A i \in 1..Len(Screens) : Told(Screens[i]) \subseteq Claims
  <2> SUFFICES ASSUME NEW i \in 1..Len(Screens) PROVE Told(Screens[i]) \subseteq Claims
    OBVIOUS
  <2>1. PICK f \in DOMAIN truth : Told(Screens[i]) = {<<f, Claimed(f)>>}
    BY <1>4, Zenon DEF Tells
  <2>2. <<f, Claimed(f)>> \in Claims
    BY Zenon DEF Claims
  <2> QED BY <2>1, <2>2, Zenon
<1> QED BY <1>4, <1>5, <1>6, Zenon DEF Tells

LEMMA ReviewInitOK == SessionInit => ReviewInv
  BY SMT DEF SessionInit, ReviewInv, UnderReview

LEMMA SelectReviews ==
  ASSUME NEW s, NEW compatible, NEW roomy, Select(s, compatible, roomy) PROVE ReviewInv'
<1>1. phase' \in {"feeding", "idle"}
  BY Zenon DEF Select
<1> QED BY <1>1, SMT DEF ReviewInv, UnderReview

LEMMA FeedWordReviews == ASSUME FeedWord PROVE ReviewInv'
<1>1. phase' \in {"feeding", "idle"}
  BY Zenon DEF FeedWord
<1> QED BY <1>1, SMT DEF ReviewInv, UnderReview

LEMMA FinalizeReviews ==
  ASSUME SessionInv, phase = "feeding" => ShownMatchesCalldata, Finalize
  PROVE  ReviewInv'
<1>1. Shown = truth /\ phase' = "finalized"
  BY Zenon DEF SessionInv, Finalize, ShownMatchesCalldata
<1>2. UNCHANGED <<Shown, truth>>
  BY FinalizeOK, SameMeans, Zenon
<1> QED BY <1>1, <1>2, SMT DEF ReviewInv

LEMMA QueryIdReviews == ASSUME SessionInv, ReviewInv, QueryId PROVE ReviewInv'
<1>1. /\ phase = "finalized" /\ phase' = "review" /\ shown' = 0
      /\ told' = Told(screen') /\ screen' = notice_ui("Rarible", version_of[selectorIndex])
  BY Zenon DEF QueryId, handle_query_contract_id
<1>2. UnderReview /\ phase # "idle"
  BY <1>1, SMT DEF UnderReview
<1>3. selectorIndex \in SelectorNames /\ wanted = selectorIndex /\ Shown = truth
  BY <1>2, Zenon DEF SessionInv, SessionTypeOK, ContextTypeOK, ReviewInv
<1>4. told' = {<<"METHOD", wanted>>}
  BY <1>1, <1>3, TitleTells, Zenon
<1>5. UNCHANGED <<Shown, truth, wanted, Claims>>
  BY QueryIdOK, SameMeans, Zenon
<1>6. <<"METHOD", wanted>> \in Claims
  BY Zenon DEF Claims
<1>7. \A i \in 1..shown' : FALSE
  BY <1>1, SMT
<1> QED BY <1>3, <1>4, <1>5, <1>6, <1>7, Zenon DEF ReviewInv

LEMMA ShowScreenReviews ==
  ASSUME SessionInv, ReviewInv, NEW i \in Nat, i < numScreens, i <= shown, ShowScreen(i)
  PROVE  /\ ReviewInv'
         /\ \/ phase' = "review" /\ told' = told \cup Told(Screens[i + 1])
            \/ phase' = "idle"
<1>1. phase = "review" /\ UnderReview
  BY SMT DEF ShowScreen, UnderReview
<1>2. /\ numScreens = Len(Screens) /\ numScreens \in Nat
      /\ \A j \in 1..numScreens : Told(Screens[j]) \subseteq Claims
  BY <1>1, ReviewTells, Zenon
<1>3. i < Len(Screens) /\ i + 1 \in 1..numScreens
  BY <1>2, SMT
<1>4. /\ SameTransaction
      /\ UNCHANGED <<wanted, truth, Screens, Shown, Claims>>
      /\ \A s : Told(s)' = Told(s)
  BY ShowScreenOK, SameMeans, Zenon
<1>5. ASSUME NEW e \in Exceptions, handle_query_ui_exception(i, e) PROVE result' = "ERROR"
  BY <1>5, ExceptionsAssumption, Zenon DEF handle_query_ui_exception
<1>6. \/ result' = "OK" /\ screen' = Screens[i + 1]
      \/ result' = "ERROR"
  BY <1>3, <1>5, Zenon DEF ShowScreen, handle_query_contract_ui
<1>7. CASE result' = "ERROR"
  <2>1. phase' = "idle"
    <3>1. result' # "OK"
      BY <1>7, SMT
    <3> QED BY <3>1, Zenon DEF ShowScreen
  <2> QED BY <2>1, SMT DEF ReviewInv, UnderReview
<1>8. CASE result' = "OK" /\ screen' = Screens[i + 1]
  <2>1. /\ phase' = "review" /\ shown' = i + 1
        /\ told' = told \cup Told(screen')
    BY <1>8, Zenon DEF ShowScreen
  <2>2. told' = told \cup Told(Screens[i + 1])
    BY <1>8, <2>1, Zenon
  <2>3. /\ <<"METHOD", wanted>> \in told /\ told \subseteq Claims
        /\ \A j \in 1..shown : Told(Screens[j]) \subseteq told
        /\ Shown = truth
    BY <1>1, Zenon DEF ReviewInv
  <2>4. told' \subseteq Claims'
    BY <1>2, <1>3, <1>4, <2>2, <2>3, Zenon
  <2>5. ASSUME NEW j \in 1..shown' PROVE Told(Screens[j]) \subseteq told'
    <3>1. shown \in Nat
      BY SMT DEF SessionInv, SessionTypeOK
    <3>2. j \in 1..shown \/ j = i + 1
      BY <2>1, <3>1, SMT
    <3> QED BY <2>2, <2>3, <3>2, Zenon
  <2>6. \A j \in 1..shown' : Told(Screens[j])' \subseteq told'
    BY <1>4, <2>5, Zenon
  <2>7. <<"METHOD", wanted'>> \in told'
    <3>1. <<"METHOD", wanted>> \in told'
      BY <2>2, <2>3, Zenon
    <3>2. wanted' = wanted
      BY <1>4
    <3> QED BY <3>1, <3>2, SMT
  <2>8. Shown' = truth'
    <3>1. Shown' = Shown /\ truth' = truth
      BY <1>4
    <3> QED BY <2>3, <3>1, Zenon
  <2> QED BY <2>1, <2>2, <2>4, <2>6, <2>7, <2>8, Zenon DEF ReviewInv
<1> QED BY <1>6, <1>7, <1>8

LEMMA ApproveReviews ==
  ASSUME SessionInv, ReviewInv, Approve
  PROVE  ReviewInv' /\ told = Claims
<1>1. /\ phase = "review" /\ UnderReview /\ shown = numScreens
      /\ phase' = "signed" /\ UNCHANGED <<shown, told>>
  BY SMT DEF Approve, UnderReview
<1>2. UNCHANGED <<wanted, truth, Screens, Shown, Claims>> /\ \A s : Told(s)' = Told(s)
  BY ApproveOK, SameMeans, Zenon
<1>3. /\ <<"METHOD", wanted>> \in told /\ told \subseteq Claims
      /\ \A i \in 1..shown : Told(Screens[i]) \subseteq told
      /\ Shown = truth
  BY <1>1, Zenon DEF ReviewInv
<1>4. \A f \in DOMAIN truth : <<f, Claimed(f)>> \in told
  <2> SUFFICES ASSUME NEW f \in DOMAIN truth PROVE <<f, Claimed(f)>> \in told
    OBVIOUS
  <2>1. PICK i \in 1..numScreens : Told(Screens[i]) = {<<f, Claimed(f)>>}
    BY <1>1, ReviewTells, Zenon
  <2> QED BY <1>1, <1>3, <2>1, Zenon
<1>5. told = Claims
  BY <1>3, <1>4, Zenon DEF Claims
<1>6. /\ told' = told /\ shown' = shown /\ wanted' = wanted
      /\ Claims' = Claims /\ Shown' = Shown /\ truth' = truth
  BY <1>1, <1>2
<1>7. \A i \in 1..shown' : Told(Screens[i])' \subseteq told'
  <2>1. \A i : Told(Screens[i])' = Told(Screens[i])
    BY <1>2, Zenon
  <2> QED BY <1>3, <1>6, <2>1, Zenon
<1>8. <<"METHOD", wanted'>> \in told' /\ told' \subseteq Claims' /\ Shown' = truth'
  <2>1. <<"METHOD", wanted>> \in told /\ told \subseteq Claims /\ Shown = truth
    BY <1>3
  <2> QED BY <1>6, <2>1, SMT
<1> QED BY <1>5, <1>7, <1>8, Zenon DEF ReviewInv

LEMMA ReviewStutters == SessionInv /\ ReviewInv /\ UNCHANGED sessionVars => ReviewInv'
<1> SUFFICES ASSUME ReviewInv, UNCHANGED sessionVars PROVE ReviewInv'
  OBVIOUS
<1>1. SameTransaction /\ UNCHANGED <<phase, shown, told>>
  BY Zenon DEF sessionVars, vars, contextVars, SameTransaction
<1>2. /\ UNCHANGED <<wanted, truth, Screens, Shown, Claims>>
      /\ \A s : Told(s)' = Told(s)
  BY <1>1, SameMeans, Zenon
<1>3. /\ told' = told /\ shown' = shown /\ wanted' = wanted /\ phase' = phase
      /\ Claims' = Claims /\ Shown' = Shown /\ truth' = truth
  BY <1>1, <1>2
<1>4. UnderReview' = UnderReview
  BY <1>3, Zenon DEF UnderReview
<1>5. \A i : Told(Screens[i])' = Told(Screens[i])
  BY <1>2, Zenon
<1>6. phase \in {"review", "signed"} =>
        \A i \in 1..shown' : Told(Screens[i])' \subseteq told'
  BY <1>3, <1>5, Zenon DEF ReviewInv
<1>7. phase \in {"review", "signed"} =>
        <<"METHOD", wanted'>> \in told' /\ told' \subseteq Claims'
  <2>1. phase \in {"review", "signed"} =>
          <<"METHOD", wanted>> \in told /\ told \subseteq Claims
    BY Zenon DEF ReviewInv
  <2> QED BY <1>3, <2>1, SMT
<1>8. UnderReview => Shown' = truth'
  <2>1. UnderReview => Shown = truth
    BY Zenon DEF ReviewInv
  <2> QED BY <1>3, <2>1, SMT
<1> QED BY <1>3, <1>4, <1>6, <1>7, <1>8, Zenon DEF ReviewInv

KeptInFeeding == phase = "feeding" => ShownMatchesCalldata

LEMMA ReviewStepOK ==
  SessionInv /\ ReviewInv /\ KeptInFeeding /\ [SessionNext]_sessionVars => ReviewInv'
<1> SUFFICES ASSUME SessionInv, ReviewInv, KeptInFeeding, SessionNext PROVE ReviewInv'
  BY ReviewStutters, Zenon
<1>1. ASSUME PageForward \/ PageBack PROVE ReviewInv'
  BY <1>1, PagesExist, ShowScreenReviews, Zenon
<1>2. ASSUME Finalize PROVE ReviewInv'
  BY <1>2, FinalizeReviews, Zenon DEF KeptInFeeding
<1>3. ASSUME Abandon PROVE ReviewInv'
  <2>1. phase' = "idle"
    BY <1>3, Zenon DEF Abandon
  <2> QED BY <2>1, SMT DEF ReviewInv, UnderReview
<1> QED BY <1>1, <1>2, <1>3, SelectReviews, FeedWordReviews, QueryIdReviews, ApproveReviews,
           Zenon DEF SessionNext

-----------------------------------------------------------------------------
(* The refinement. *)

LEMMA PromiseInit == SessionInit => Promise!Init
<1> SUFFICES ASSUME SessionInit PROVE Promise!Init
  OBVIOUS
<1>1. ~UnderReview
  BY SMT DEF SessionInit, UnderReview
<1> QED BY <1>1, Zenon DEF Promise!Init, Outcome, ReviewClaims, ReviewTold

LEMMA MappedReview ==
  /\ ~UnderReview => Outcome = "none" /\ ReviewClaims = {} /\ ReviewTold = {}
  /\ UnderReview => ReviewClaims = Claims /\ ReviewTold = told
  /\ phase \in {"finalized", "review"} => Outcome = "open" /\ UnderReview
  /\ phase = "signed" => Outcome = "signed" /\ UnderReview
  /\ phase \in {"idle", "feeding"} => ~UnderReview
  BY SMT DEF Outcome, ReviewClaims, ReviewTold, UnderReview

LEMMA MappedReviewNext ==
  /\ ~UnderReview' => Outcome' = "none" /\ ReviewClaims' = {} /\ ReviewTold' = {}
  /\ UnderReview' => ReviewClaims' = Claims' /\ ReviewTold' = told'
  /\ phase' \in {"finalized", "review"} => Outcome' = "open" /\ UnderReview'
  /\ phase' = "signed" => Outcome' = "signed" /\ UnderReview'
  /\ phase' \in {"idle", "feeding"} => ~UnderReview'
  BY SMT DEF Outcome, ReviewClaims, ReviewTold, UnderReview

(* What ends a review, or comes before one. *)
LEMMA PromiseCloses ==
  ASSUME SessionInv, phase' \in {"idle", "feeding"} PROVE [Promise!Next]_(Promise!vars)
<1>1. Outcome' = "none" /\ ReviewClaims' = {} /\ ReviewTold' = {}
  BY MappedReviewNext, Zenon
<1>2. CASE UnderReview
  <2>1. Outcome \in {"open", "signed"}
    BY <1>2, MappedReview, Zenon DEF UnderReview
  <2> QED BY <1>1, <2>1, Zenon DEF Promise!Next, Promise!Close
<1>3. CASE ~UnderReview
  BY <1>1, <1>3, MappedReview, Zenon DEF Promise!vars
<1> QED BY <1>2, <1>3

LEMMA PromiseOpens == ASSUME SessionInv, Finalize PROVE Promise!Next
<1>1. phase = "feeding" /\ phase' = "finalized" /\ told' = told /\ told = {}
  BY Zenon DEF Finalize, SessionInv
<1>2. Outcome = "none" /\ Outcome' = "open" /\ ReviewClaims' = Claims' /\ ReviewTold' = told'
  BY <1>1, MappedReview, MappedReviewNext, Zenon
<1>3. Claims' # {}
  BY Zenon DEF Claims
<1> QED BY <1>1, <1>2, <1>3, Zenon DEF Promise!Next, Promise!Open

(* A step of the review that tells more. *)
LEMMA PromiseTells ==
  ASSUME phase \in {"finalized", "review"}, phase' = "review", Claims' = Claims,
         ReviewInv', told \subseteq told'
  PROVE  Promise!Next
<1>1. /\ Outcome = "open" /\ ReviewClaims = Claims /\ ReviewTold = told
      /\ Outcome' = "open" /\ ReviewClaims' = Claims' /\ ReviewTold' = told'
  BY MappedReview, MappedReviewNext, Zenon
<1>2. told' \subseteq Claims'
  BY Zenon DEF ReviewInv
<1>3. told' \subseteq Claims
  BY <1>2, SMT
<1>4. /\ Outcome = "open" /\ ReviewTold \subseteq ReviewTold' /\ ReviewTold' \subseteq ReviewClaims
      /\ Outcome' = Outcome /\ ReviewClaims' = ReviewClaims
  BY <1>1, <1>3, SMT
<1> QED BY <1>4, Zenon DEF Promise!Next, Promise!Tell

LEMMA PromiseSigns == ASSUME SessionInv, ReviewInv, Approve PROVE Promise!Next
<1>1. phase = "review" /\ phase' = "signed" /\ told' = told
  BY Zenon DEF Approve
<1>2. told = Claims /\ Claims' = Claims
  BY ApproveReviews, ApproveOK, SameMeans, Zenon
<1>3. /\ Outcome = "open" /\ ReviewClaims = Claims /\ ReviewTold = told
      /\ Outcome' = "signed" /\ ReviewClaims' = Claims' /\ ReviewTold' = told'
  BY <1>1, MappedReview, MappedReviewNext, Zenon
<1>4. ReviewTold = ReviewClaims /\ ReviewTold' = ReviewTold /\ ReviewClaims' = ReviewClaims
  BY <1>1, <1>2, <1>3, SMT
<1> QED BY <1>3, <1>4, Zenon DEF Promise!Next, Promise!Sign

LEMMA PromiseStep ==
  SessionInv /\ ReviewInv /\ KeptInFeeding /\ [SessionNext]_sessionVars
    => [Promise!Next]_(Promise!vars)
<1> SUFFICES ASSUME SessionInv, ReviewInv, KeptInFeeding, [SessionNext]_sessionVars
             PROVE  [Promise!Next]_(Promise!vars)
  OBVIOUS
<1>1. ReviewInv'
  BY ReviewStepOK, Zenon
<1>2. CASE UNCHANGED sessionVars
  <2>1. SameTransaction /\ phase' = phase /\ told' = told
    BY <1>2, Zenon DEF sessionVars, vars, contextVars, SameTransaction
  <2>2. Claims' = Claims
    BY <2>1, SameMeans, Zenon
  <2>3. UnderReview' = UnderReview
    BY <2>1, Zenon DEF UnderReview
  <2>4. Outcome' = Outcome
    BY <2>1, <2>3, Zenon DEF Outcome
  <2>5. ReviewClaims' = ReviewClaims
    BY <2>2, <2>3, Zenon DEF ReviewClaims
  <2>6. ReviewTold' = ReviewTold
    BY <2>1, <2>3, Zenon DEF ReviewTold
  <2> QED BY <2>4, <2>5, <2>6, Zenon DEF Promise!vars
<1>3. CASE (\E s \in Calls, compatible, roomy \in BOOLEAN : Select(s, compatible, roomy))
           \/ FeedWord \/ Abandon
  <2>1. phase' \in {"idle", "feeding"}
    BY <1>3, Zenon DEF Select, FeedWord, Abandon
  <2> QED BY <2>1, PromiseCloses, Zenon
<1>4. CASE Finalize
  BY <1>4, PromiseOpens, Zenon
<1>5. CASE QueryId
  <2>1. phase = "finalized" /\ phase' = "review" /\ told = {}
    BY <1>5, Zenon DEF QueryId, SessionInv
  <2>2. Claims' = Claims
    BY <1>5, QueryIdOK, SameMeans, Zenon
  <2>3. told \subseteq told'
    BY <2>1, SMT
  <2> QED BY <1>1, <2>1, <2>2, <2>3, PromiseTells, Zenon
<1>6. CASE PageForward \/ PageBack
  <2>1. PICK i \in Nat : i < numScreens /\ i <= shown /\ ShowScreen(i)
    BY <1>6, PagesExist, Zenon
  <2>2. \/ phase' = "review" /\ told' = told \cup Told(Screens[i + 1])
        \/ phase' = "idle"
    BY <2>1, ShowScreenReviews, Zenon
  <2>3. CASE phase' = "idle"
    BY <2>3, PromiseCloses, Zenon
  <2>4. CASE phase' = "review" /\ told' = told \cup Told(Screens[i + 1])
    <3>1. phase = "review" /\ told \subseteq told'
      BY <2>1, <2>4, Zenon DEF ShowScreen
    <3>2. Claims' = Claims
      BY <2>1, ShowScreenOK, SameMeans, Zenon
    <3> QED BY <1>1, <2>4, <3>1, <3>2, PromiseTells, Zenon
  <2> QED BY <2>2, <2>3, <2>4
<1>7. CASE Approve
  BY <1>7, PromiseSigns, Zenon
<1> QED BY <1>2, <1>3, <1>4, <1>5, <1>6, <1>7, Zenon DEF SessionNext

(* For all seven methods: sessions in which the parsers keep what the      *)
(* calldata says (the invariant of ParameterFeed) tell the user every      *)
(* claim of a transaction and nothing else before it can be signed.  What  *)
(* is left of earlier transactions, paging to and fro, exceptions in a     *)
(* screen and dropped connections do not change that.                      *)
THEOREM ReviewIsClear ==
  SessionSpec /\ [](phase = "feeding" => ShownMatchesCalldata) => ClearSigned
<1>1. SessionInit => SessionInv /\ ReviewInv /\ Promise!Init
  BY SessionInitOK, ReviewInitOK, PromiseInit
<1>2. SessionInv /\ ReviewInv /\ (phase = "feeding" => ShownMatchesCalldata)
        /\ [SessionNext]_sessionVars
        => SessionInv' /\ ReviewInv' /\ [Promise!Next]_(Promise!vars)
  BY SessionStepOK, ReviewStepOK, PromiseStep, Zenon DEF KeptInFeeding
<1> QED BY <1>1, <1>2, PTL DEF SessionSpec, ClearSigned, Promise!Spec

-----------------------------------------------------------------------------
(* The parsers of all seven methods, fed by themselves (ParameterFeed) and *)
(* in a session.                                                           *)

(* What the proofs ask of the calldata of method m: that the byte strings  *)
(* its parser does not test for being empty are not.                       *)
KeepsInStep(m) ==
  /\ m \in MintMethods => NoEmptyMintParts
  /\ m \in OrderMethods => NoEmptyOrderParts

NoUntestedEmptyParts == \A m \in Selectors : KeepsInStep(m)

ParsersInv == TokenInv /\ MintInv /\ OrderInv

LEMMA EveryMethod == SelectorNames = TokenMethods \cup MintMethods \cup OrderMethods
  BY SMT DEF SelectorNames, TokenMethods, MintMethods, OrderMethods

LEMMA ParsersInit == Init => TypeOK /\ ParsersInv
  BY InitType, TokenInit, MintInit, OrderInit, Zenon DEF ParsersInv

LEMMA NextKeepsMethod == ASSUME TypeOK, Next PROVE selectorIndex' = selectorIndex
<1>1. PICK w \in WordsToSend : handle_provide_parameter(w)
  BY Zenon DEF Next, Feed
<1>2. w \in Nat
  BY WordsAreNaturals, Zenon
<1> QED BY <1>1, <1>2, ProvideParameterType, Zenon DEF TypeOK

LEMMA ParsersStep ==
  ASSUME TypeOK, ParsersInv, KeepsInStep(selectorIndex), Next
  PROVE  TypeOK' /\ ParsersInv'
<1>1. TypeOK' /\ selectorIndex' = selectorIndex
  BY NextType, NextKeepsMethod, Zenon
<1>2. TokenInv'
  BY TokenStep, Zenon DEF ParsersInv
<1>3. MintInv'
  <2>1. CASE selectorIndex \in MintMethods
    BY <2>1, MintStep, Zenon DEF ParsersInv, KeepsInStep
  <2>2. CASE selectorIndex \notin MintMethods
    BY <1>1, <2>2, Zenon DEF MintInv
  <2> QED BY <2>1, <2>2
<1>4. OrderInv'
  <2>1. CASE selectorIndex \in OrderMethods
    BY <2>1, OrderStep, Zenon DEF ParsersInv, KeepsInStep
  <2>2. CASE selectorIndex \notin OrderMethods
    BY <1>1, <2>2, Zenon DEF OrderInv
  <2> QED BY <2>1, <2>2
<1> QED BY <1>1, <1>2, <1>3, <1>4, Zenon DEF ParsersInv

LEMMA ParsersStutter ==
  ASSUME TypeOK, ParsersInv, UNCHANGED vars PROVE TypeOK' /\ ParsersInv'
  BY NextType, TokenUnchanged, MintUnchanged, OrderUnchanged, Zenon DEF ParsersInv

LEMMA ParsersInvMeans ==
  ASSUME TypeOK, ParsersInv
  PROVE  InStep /\ CountdownExact /\ ShownMatchesCalldata /\ RefusedExactly
<1>1. selectorIndex \in TokenMethods \cup MintMethods \cup OrderMethods
  BY EveryMethod, Zenon DEF TypeOK, ContextTypeOK
<1>2. CASE selectorIndex \in TokenMethods
  BY <1>2, TokenInvMeans, Zenon DEF ParsersInv
<1>3. CASE selectorIndex \in MintMethods
  BY <1>3, MintInvMeans, Zenon DEF ParsersInv
<1>4. CASE selectorIndex \in OrderMethods
  BY <1>4, OrderInvMeans, Zenon DEF ParsersInv
<1> QED BY <1>1, <1>2, <1>3, <1>4, SMT

LEMMA ParsersSafe ==
  ASSUME NoUntestedEmptyParts
  PROVE  Spec => [](InStep /\ CountdownExact /\ ShownMatchesCalldata /\ RefusedExactly)
<1>1. Init => TypeOK /\ ParsersInv
  BY ParsersInit
<1>2. TypeOK /\ ParsersInv /\ [Next]_vars => TypeOK' /\ ParsersInv'
  <2> SUFFICES ASSUME TypeOK, ParsersInv, [Next]_vars PROVE TypeOK' /\ ParsersInv'
    OBVIOUS
  <2>1. KeepsInStep(selectorIndex)
    BY Zenon DEF NoUntestedEmptyParts, TypeOK
  <2> QED BY <2>1, ParsersStep, ParsersStutter, Zenon
<1>3. TypeOK /\ ParsersInv => InStep /\ CountdownExact /\ ShownMatchesCalldata /\ RefusedExactly
  BY ParsersInvMeans
<1> QED BY <1>1, <1>2, <1>3, PTL DEF Spec

(* Where no byte string that a parser does not test for is empty, each     *)
(* parser takes every word for what it is, to the end of the calldata and  *)
(* beyond: every next_param, sub_param and order_side is the encoder's.    *)
THEOREM ParsersStayInStep == NoUntestedEmptyParts => (Spec => []InStep)
<1> SUFFICES ASSUME NoUntestedEmptyParts PROVE Spec => []InStep
  OBVIOUS
<1> QED BY ParsersSafe, PTL

(* There, each counter of the context is what is left of what it counts.   *)
THEOREM CountersAreExact == NoUntestedEmptyParts => (Spec => []CountdownExact)
<1> SUFFICES ASSUME NoUntestedEmptyParts PROVE Spec => []CountdownExact
  OBVIOUS
<1> QED BY ParsersSafe, PTL

(* There, what would be shown is at every word what the calldata says.     *)
THEOREM ShownIsCalldata == NoUntestedEmptyParts => (Spec => []ShownMatchesCalldata)
<1> SUFFICES ASSUME NoUntestedEmptyParts PROVE Spec => []ShownMatchesCalldata
  OBVIOUS
<1> QED BY ParsersSafe, PTL

(* There, no transaction is refused but for a word no uint16_t (or no      *)
(* royalty) holds and for a word beyond its end.                           *)
THEOREM RefusalsAreExact == NoUntestedEmptyParts => (Spec => []RefusedExactly)
<1> SUFFICES ASSUME NoUntestedEmptyParts PROVE Spec => []RefusedExactly
  OBVIOUS
<1> QED BY ParsersSafe, PTL

-----------------------------------------------------------------------------
(* Sessions of such transactions, and calls with unknown selectors.        *)

CallsKeepInStep ==
  \A s \in Calls : MethodCalled(s) \in SelectorNames =>
    MethodCalled(s) \in Selectors /\ KeepsInStep(MethodCalled(s))

FeedInv == phase = "feeding" => TypeOK /\ ParsersInv /\ KeepsInStep(selectorIndex)

LEMMA FreshFeed == Init' => TypeOK' /\ ParsersInv'
  BY ParsersInit, PTL

LEMMA SelectFeeds ==
  ASSUME CallsKeepInStep, SessionInv, NEW s \in Calls,
         NEW compatible \in BOOLEAN, NEW roomy \in BOOLEAN, Select(s, compatible, roomy)
  PROVE  FeedInv'
<1> SUFFICES ASSUME phase' = "feeding"
             PROVE  TypeOK' /\ ParsersInv' /\ KeepsInStep(selectorIndex')
  BY Zenon DEF FeedInv, KeepsInStep
<1> DEFINE m == MethodCalled(s)
<1>1. result' = "OK"
  BY SMT DEF Select
<1>2. m \in SelectorNames /\ Prepared(m, first_param[m])
  BY <1>1, InitContract, Zenon DEF Select, SessionInv, SessionTypeOK
<1>3. m \in Selectors /\ KeepsInStep(m)
  BY <1>2, Zenon DEF CallsKeepInStep
<1>4. /\ selectorIndex' = m /\ next_param' = first_param[m] /\ sub_param' = "BODY_OFFSET"
      /\ counter' = 0 /\ max_counter' = 0 /\ body' = zero_body[m]
  BY <1>2, Zenon DEF Prepared
<1>5. RestartCalldata(m)
  BY <1>4, Zenon DEF Select
<1>6. refusable' = FALSE
  <2>1. /\ refusable' = (~compatible \/ ~roomy \/ wanted' = "NONE") /\ wanted' = m
        /\ handle_init_contract(compatible, roomy, s)
    BY Zenon DEF Select
  <2>2. compatible /\ roomy
    BY <1>1, <2>1, SMT DEF handle_init_contract
  <2>3. m # "NONE"
    BY <1>2, SMT DEF SelectorNames
  <2> QED BY <2>1, <2>2, <2>3, Zenon
<1>7. /\ pos' = 1 /\ part' = "static" /\ truth' = NothingKnown[m]
      /\ len' = 0 /\ qty' = 0 /\ sent' = 0 /\ done' = 0
  BY <1>5, Zenon DEF RestartCalldata
<1> HIDE DEF m
<1>8. Init'
  BY <1>1, <1>3, <1>4, <1>6, <1>7, Zenon DEF Init, StartCalldata
<1> QED BY <1>3, <1>4, <1>8, FreshFeed, Zenon

(* The last word fed keeps the invariants of the parsers, refused or not.  *)
LEMMA FeedWordFeeds ==
  ASSUME FeedInv, FeedWord PROVE FeedInv' /\ TypeOK' /\ ParsersInv'
<1>1. phase = "feeding" /\ Next
  BY Zenon DEF FeedWord, Next
<1>2. TypeOK /\ ParsersInv /\ KeepsInStep(selectorIndex)
  BY <1>1, Zenon DEF FeedInv
<1>3. TypeOK' /\ ParsersInv' /\ selectorIndex' = selectorIndex
  BY <1>1, <1>2, ParsersStep, NextKeepsMethod, Zenon
<1>4. KeepsInStep(selectorIndex)'
  BY <1>2, <1>3, Zenon DEF KeepsInStep
<1> QED BY <1>3, <1>4, Zenon DEF FeedInv

LEMMA FeedStepOK ==
  CallsKeepInStep /\ SessionInv /\ FeedInv /\ [SessionNext]_sessionVars => FeedInv'
<1> SUFFICES ASSUME CallsKeepInStep, SessionInv, FeedInv, [SessionNext]_sessionVars
             PROVE  FeedInv'
  OBVIOUS
<1>1. CASE UNCHANGED sessionVars
  <2>1. UNCHANGED vars /\ phase' = phase
    BY <1>1, Zenon DEF sessionVars
  <2>2. selectorIndex' = selectorIndex
    BY <2>1, Zenon DEF vars, contextVars, context
  <2>3. KeepsInStep(selectorIndex) => KeepsInStep(selectorIndex)'
    BY <2>2, Zenon DEF KeepsInStep
  <2> QED BY <2>1, <2>3, ParsersStutter, Zenon DEF FeedInv
<1>2. CASE \E s \in Calls, compatible, roomy \in BOOLEAN : Select(s, compatible, roomy)
  BY <1>2, SelectFeeds, Zenon
<1>3. CASE FeedWord
  BY <1>3, FeedWordFeeds, Zenon
<1>4. CASE Finalize \/ QueryId \/ PageForward \/ PageBack \/ Approve \/ Abandon
  <2>1. phase' \in {"finalized", "review", "idle", "signed"}
    BY <1>4, Zenon DEF Finalize, QueryId, PageForward, PageBack, ShowScreen, Approve, Abandon
  <2> QED BY <2>1, SMT DEF FeedInv
<1> QED BY <1>1, <1>2, <1>3, <1>4, Zenon DEF SessionNext

LEMMA FeedInitOK == SessionInit => SessionInv /\ FeedInv
<1>1. SessionInit => FeedInv
  BY SMT DEF SessionInit, FeedInv
<1> QED BY <1>1, SessionInitOK

(* Any number of transactions of all seven methods, between them calls     *)
(* with selectors the plugin does not know: the user is told each claim,   *)
(* and nothing else, before signing.                                       *)
THEOREM SessionsAreClear == CallsKeepInStep => (SessionSpec => ClearSigned)
<1> SUFFICES ASSUME CallsKeepInStep PROVE SessionSpec => ClearSigned
  OBVIOUS
<1>1. SessionInit => SessionInv /\ FeedInv
  BY FeedInitOK
<1>2. SessionInv /\ FeedInv /\ [SessionNext]_sessionVars => SessionInv' /\ FeedInv'
  BY SessionStepOK, FeedStepOK
<1>3. FeedInv => (phase = "feeding" => ShownMatchesCalldata)
  BY ParsersInvMeans, Zenon DEF FeedInv
<1>4. SessionSpec => [](phase = "feeding" => ShownMatchesCalldata)
  BY <1>1, <1>2, <1>3, PTL DEF SessionSpec
<1> QED BY <1>4, ReviewIsClear, PTL

TokenCalls ==
  \A s \in Calls : MethodCalled(s) \in SelectorNames => MethodCalled(s) \in TokenMethods \cap Selectors

(* Of createToken, __ERC721Rarible_init and setApprovalForAll that needs   *)
(* no condition on the calldata.                                           *)
THEOREM TokenSessionsAreClear == TokenCalls => (SessionSpec => ClearSigned)
<1> SUFFICES ASSUME TokenCalls PROVE SessionSpec => ClearSigned
  OBVIOUS
<1>1. \A m \in TokenMethods : KeepsInStep(m)
  BY SMT DEF TokenMethods, MintMethods, OrderMethods, KeepsInStep
<1>2. CallsKeepInStep
  BY <1>1, Zenon DEF TokenCalls, CallsKeepInStep
<1> QED BY <1>2, SessionsAreClear, PTL

-----------------------------------------------------------------------------
(* The answers of a session.  In its course the last answer was OK.        *)

AnswersInv == AnswersExactly /\ (phase # "idle" => result = "OK")

LEMMA SelectorKnown ==
  ASSUME NEW s, \A i \in 1..Len(RARIBLE_SELECTORS) : RARIBLE_SELECTORS[i] # s
  PROVE  MethodCalled(s) = "NONE"
<1>1. /\ Len(RARIBLE_SELECTORS) = 7
      /\ RARIBLE_SELECTORS[1] = "22a775b6" /\ RARIBLE_SELECTORS[2] = "e2864fe3"
      /\ RARIBLE_SELECTORS[3] = "e99a3f80" /\ RARIBLE_SELECTORS[4] = "832fbb29"
      /\ RARIBLE_SELECTORS[5] = "a22cb465" /\ RARIBLE_SELECTORS[6] = "27050d1f"
      /\ RARIBLE_SELECTORS[7] = "3db397c6"
  BY SMT DEF RARIBLE_SELECTORS
<1>2. {1, 2, 3, 4, 5, 6, 7} \subseteq 1..Len(RARIBLE_SELECTORS)
  BY <1>1, SMT
<1>3. s \notin {"22a775b6", "e2864fe3", "e99a3f80", "832fbb29", "a22cb465", "27050d1f",
                "3db397c6"}
  BY <1>1, <1>2, Zenon
<1> QED BY <1>3, SMT DEF MethodCalled

LEMMA SelectAnswers ==
  ASSUME NEW s, NEW compatible \in BOOLEAN, NEW roomy \in BOOLEAN,
         Select(s, compatible, roomy)
  PROVE  AnswersInv'
<1> DEFINE known == \E i \in 1..Len(RARIBLE_SELECTORS) : RARIBLE_SELECTORS[i] = s
           accepted == compatible /\ roomy /\ known
<1>1. known <=> MethodCalled(s) # "NONE"
  <2>1. known => MethodCalled(s) \in SelectorNames
    BY MethodLookup, Zenon
  <2>2. "NONE" \notin SelectorNames
    BY SMT DEF SelectorNames
  <2> QED BY <2>1, <2>2, SelectorKnown, Zenon
<1>2. /\ handle_init_contract(compatible, roomy, s)
      /\ refusable' = (~compatible \/ ~roomy \/ MethodCalled(s) = "NONE")
      /\ phase' = IF result' = "OK" THEN "feeding" ELSE "idle"
  BY Zenon DEF Select
<1>3. \/ result' = "OK" /\ accepted
      \/ result' \in {"ERROR", "UNAVAILABLE"} /\ ~accepted
  BY <1>2, Zenon DEF handle_init_contract
<1> HIDE DEF known
<1>4. result' = "OK" <=> accepted
  BY <1>3, SMT
<1>5. refusable' <=> ~accepted
  BY <1>1, <1>2, Zenon
<1> HIDE DEF accepted
<1>6. result' # "OK" <=> refusable'
  BY <1>4, <1>5, Zenon
<1>7. phase' # "idle" => result' = "OK"
  BY <1>2, Zenon
<1> QED BY <1>6, <1>7, Zenon DEF AnswersInv, AnswersExactly

LEMMA RefusedExactlyNext == TypeOK' /\ ParsersInv' => RefusedExactly'
<1>1. TypeOK /\ ParsersInv => RefusedExactly
  BY ParsersInvMeans
<1> QED BY <1>1, PTL

LEMMA FeedWordAnswers == ASSUME FeedInv, FeedWord PROVE AnswersInv'
<1>1. TypeOK' /\ ParsersInv'
  BY FeedWordFeeds, Zenon
<1>2. RefusedExactly'
  BY <1>1, RefusedExactlyNext, Zenon
<1>3. result' \in {"OK", "ERROR"}
  BY <1>1, Zenon DEF TypeOK
<1>4. result' # "OK" <=> result' = "ERROR"
  BY <1>3, SMT
<1>5. result' # "OK" <=> refusable'
  BY <1>2, <1>4, Zenon DEF RefusedExactly
<1>6. phase' # "idle" => result' = "OK"
  BY Zenon DEF FeedWord
<1> QED BY <1>5, <1>6, Zenon DEF AnswersInv, AnswersExactly

LEMMA ScreenCount ==
  ASSUME selectorIndex \in SelectorNames PROVE Len(Screens) = screens_of[selectorIndex]
<1>1. /\ \A a, b : Len(<<a, b>>) = 2
      /\ \A a, b, c : Len(<<a, b, c>>) = 3
      /\ \A a, b, c, d : Len(<<a, b, c, d>>) = 4
      /\ \A a, b, c, d, e : Len(<<a, b, c, d, e>>) = 5
  OBVIOUS
<1>2. /\ selectorIndex \in {"CANCEL", "SET_APPROVED_FOR_ALL"} => \E a, b : Screens = <<a, b>>
      /\ selectorIndex = "CREATE_TOKEN" => \E a, b, c : Screens = <<a, b, c>>
      /\ selectorIndex \in {"MINT_AND_TRANSFER", "MATCH_ORDERS", "ERC721_RARIBLE_INIT"} =>
           \E a, b, c, d : Screens = <<a, b, c, d>>
      /\ selectorIndex = "TRANSFER_FROM_OR_MINT" =>
           \E a, b, c, d, e : Screens = <<a, b, c, d, e>>
  BY Zenon DEF Screens
<1>3. /\ selectorIndex \in {"CANCEL", "SET_APPROVED_FOR_ALL"} => screens_of[selectorIndex] = 2
      /\ selectorIndex = "CREATE_TOKEN" => screens_of[selectorIndex] = 3
      /\ selectorIndex \in {"MINT_AND_TRANSFER", "MATCH_ORDERS", "ERC721_RARIBLE_INIT"} =>
           screens_of[selectorIndex] = 4
      /\ selectorIndex = "TRANSFER_FROM_OR_MINT" => screens_of[selectorIndex] = 5
  BY SMT DEF screens_of
<1> QED BY <1>1, <1>2, <1>3, Zenon DEF SelectorNames

LEMMA ShowScreenAnswers ==
  ASSUME SessionInv, NEW i \in Nat, i < numScreens, ShowScreen(i)
  PROVE  AnswersInv'
<1>1. phase = "review" /\ UnderReview
  BY SMT DEF ShowScreen, UnderReview
<1>2. i < Len(Screens)
  <2>1. numScreens = screens_of[selectorIndex] /\ selectorIndex \in SelectorNames
    BY <1>1, Zenon DEF SessionInv, SessionTypeOK, ContextTypeOK
  <2>2. Len(Screens) = screens_of[selectorIndex]
    BY <2>1, ScreenCount, Zenon
  <2> QED BY <2>1, <2>2, Zenon
<1>3. \/ result' = "OK" /\ refusable' = FALSE
      \/ result' = "ERROR" /\ refusable' = TRUE
  BY <1>2, ExceptionsAssumption, Zenon
  DEF ShowScreen, handle_query_contract_ui, handle_query_ui_exception
<1>4. result' # "OK" <=> refusable'
  BY <1>3, SMT
<1>5. phase' # "idle" => result' = "OK"
  BY Zenon DEF ShowScreen
<1> QED BY <1>4, <1>5, Zenon DEF AnswersInv, AnswersExactly

LEMMA AnswersStepOK ==
  SessionInv /\ FeedInv /\ AnswersInv /\ [SessionNext]_sessionVars => AnswersInv'
<1> SUFFICES ASSUME SessionInv, FeedInv, AnswersInv, [SessionNext]_sessionVars
             PROVE  AnswersInv'
  OBVIOUS
<1>1. CASE \E s \in Calls, compatible, roomy \in BOOLEAN : Select(s, compatible, roomy)
  BY <1>1, SelectAnswers, Zenon
<1>2. CASE FeedWord
  BY <1>2, FeedWordAnswers, Zenon
<1>3. CASE Finalize \/ QueryId
  <2>1. phase # "idle" /\ result' = "OK" /\ refusable' = refusable
    BY <1>3, SMT DEF Finalize, QueryId, handle_finalize, handle_query_contract_id
  <2> QED BY <2>1, Zenon DEF AnswersInv, AnswersExactly
<1>4. CASE PageForward \/ PageBack
  BY <1>4, PagesExist, ShowScreenAnswers, Zenon
<1>5. CASE Approve \/ Abandon \/ UNCHANGED sessionVars
  <2>1. UNCHANGED <<result, refusable>>
    BY <1>5, Zenon DEF Approve, Abandon, sessionVars, vars, contextVars
  <2>2. phase' # "idle" => phase # "idle"
    BY <1>5, SMT DEF Approve, Abandon, sessionVars
  <2> QED BY <2>1, <2>2, Zenon DEF AnswersInv, AnswersExactly
<1> QED BY <1>1, <1>2, <1>3, <1>4, <1>5, Zenon DEF SessionNext

(* In such sessions the plugin answers OK to every call but to those it    *)
(* has to refuse, and refuses all of those: every screen handle_finalize   *)
(* announced is there when asked for, and none whose text could not be     *)
(* written is passed off as drawn.                                         *)
THEOREM AnswersAreExact == CallsKeepInStep => (SessionSpec => []AnswersExactly)
<1> SUFFICES ASSUME CallsKeepInStep PROVE SessionSpec => []AnswersExactly
  OBVIOUS
<1>1. SessionInit => SessionInv /\ FeedInv /\ AnswersInv
  <2>1. SessionInit => AnswersInv
    BY SMT DEF SessionInit, AnswersInv, AnswersExactly
  <2> QED BY <2>1, FeedInitOK
<1>2. SessionInv /\ FeedInv /\ AnswersInv /\ [SessionNext]_sessionVars
        => SessionInv' /\ FeedInv' /\ AnswersInv'
  BY SessionStepOK, FeedStepOK, AnswersStepOK
<1>3. AnswersInv => AnswersExactly
  BY DEF AnswersInv
<1> QED BY <1>1, <1>2, <1>3, PTL DEF SessionSpec
=============================================================================
