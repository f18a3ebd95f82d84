-------------------------- MODULE OrderFeedSafety --------------------------
(***************************************************************************)
(* Proof that the parser of cancel and matchOrders keeps in step with any  *)
(* calldata in which the data of an order and the signature of a matched   *)
(* order are not empty.  The data of an asset may be: parse_asset tests    *)
(* for it, the cases DATA_LENGTH and SIGNATURE_LENGTH of parse_order do    *)
(* not.  And, before that, that an empty last signature of a match changes *)
(* nothing that is shown.                                                  *)
(***************************************************************************)
EXTENDS ParameterFeedTypes, SequenceTheorems

(* The last signature of a match, which SIGNATURE waits for when it is     *)
(* empty too: whatever comes, only the order the parser is in moves.       *)
LEMMA LastSignatureCases ==
  ASSUME NEW w, body \in match_body, body.order_side = RIGHT_ORDER,
         next_param \in {"SIGNATURE_LENGTH", "SIGNATURE"},
         parse_order(w, "right_maker", "right_taker", ERROR_ORDER, TRUE)
  PROVE  /\ selectorIndex' = selectorIndex
         /\ \/ next_param' \in {"SIGNATURE_LENGTH", "SIGNATURE"} /\ body' = body
            \/ /\ next_param' = "UNEXPECTED_PARAMETER"
               /\ body' = [body EXCEPT !.order_side = ERROR_ORDER]
<1>1. /\ ~Skip(order_skips)
      /\ ~TakeAddress("MAKER", "right_maker", "MAKE_ASSET_OFFSET", w)
      /\ ~TakeAddress("TAKER", "right_taker", "TAKE_ASSET_OFFSET", w)
      /\ next_param \notin {"DATA_OFFSET", "MAKE_ASSET", "TAKE_ASSET"}
  BY SMT DEF Skip, order_skips, TakeAddress
<1>2. ~order_length("DATA_LENGTH", "DATA", w) /\ ~order_chunk("DATA", ~TRUE, ERROR_ORDER)
  BY SMT DEF order_length, order_chunk
<1>3. ~Unsupported(order_params)
  BY SMT DEF Unsupported, order_params
<1>4. CASE order_length("SIGNATURE_LENGTH", "SIGNATURE", w)
  BY <1>4, Zenon DEF order_length
<1>5. CASE order_chunk("SIGNATURE", TRUE, ERROR_ORDER)
  <2>1. /\ selectorIndex' = selectorIndex
        /\ \/ next_param' = next_param /\ body' = body
           \/ order_done(ERROR_ORDER)
    BY <1>5, Zenon DEF order_chunk
  <2> QED BY <2>1, Zenon DEF order_done
<1> QED BY <1>1, <1>2, <1>3, <1>4, <1>5, Zenon DEF parse_order

LEMMA LastSignatureStep ==
  ASSUME TypeOK, AmongLastSignature, [Next]_vars
  PROVE  AmongLastSignature' /\ Shown' = Shown
<1>1. CASE UNCHANGED vars
  BY <1>1, Zenon DEF vars, contextVars, context, AmongLastSignature, Shown, Found
<1>2. CASE Next
  <2>1. PICK w : handle_provide_parameter(w)
    BY <1>2, Zenon DEF Next, Feed
  <2>2. selectorIndex = "MATCH_ORDERS" /\ body \in match_body /\ handle_match_orders(w)
    BY <2>1, SMT DEF TypeOK, ContextTypeOK, AmongLastSignature, handle_provide_parameter
  <2>3. CASE body.order_side = ERROR_ORDER /\ next_param = "UNEXPECTED_PARAMETER"
    <3>1. Refuse
      BY <2>2, <2>3, SMT
      DEF handle_match_orders, NO_ORDER, LEFT_ORDER, RIGHT_ORDER, ERROR_ORDER
    <3>2. UNCHANGED context
      BY <3>1, Zenon DEF Refuse
    <3> QED BY <3>2, Zenon DEF context, AmongLastSignature, Shown, Found
  <2>4. CASE body.order_side = RIGHT_ORDER /\ next_param \in {"SIGNATURE_LENGTH", "SIGNATURE"}
    <3>1. parse_order(w, "right_maker", "right_taker", ERROR_ORDER, TRUE)
      <4>1. /\ RIGHT_ORDER # NO_ORDER /\ RIGHT_ORDER # LEFT_ORDER
            /\ RIGHT_ORDER # ERROR_ORDER
        BY SMT DEF NO_ORDER, LEFT_ORDER, RIGHT_ORDER, ERROR_ORDER
      <4> QED BY <2>2, <2>4, <4>1, Zenon DEF handle_match_orders
    <3>2. selectorIndex' = selectorIndex
      BY <2>2, <2>4, <3>1, LastSignatureCases
    <3>3. CASE next_param' \in {"SIGNATURE_LENGTH", "SIGNATURE"} /\ body' = body
      BY <2>4, <3>2, <3>3, <2>2, Zenon DEF AmongLastSignature, Shown, Found
    <3>4. CASE /\ next_param' = "UNEXPECTED_PARAMETER"
               /\ body' = [body EXCEPT !.order_side = ERROR_ORDER]
      <4>1. /\ body'.order_side = ERROR_ORDER
            /\ body'.left_maker = body.left_maker /\ body'.left_taker = body.left_taker
            /\ body'.right_maker = body.right_maker /\ body'.right_taker = body.right_taker
        BY <2>2, <3>4, SMT DEF match_body
      <4> QED BY <2>2, <3>2, <3>4, <4>1, SMT DEF AmongLastSignature, Shown, Found
    <3> QED BY <2>2, <2>4, <3>1, <3>3, <3>4, LastSignatureCases
  <2> QED BY <2>3, <2>4, Zenon DEF AmongLastSignature
<1> QED BY <1>1, <1>2

(* Whatever follows the length of a match's last signature, empty or not,  *)
(* and the words too many that an empty one lets through, the makers and   *)
(* takers for the screens stay what they are.                              *)
THEOREM LastSignatureIsNotShown == Spec => LastSignatureShowsNothing
<1>1. TypeOK /\ [Next]_vars =>
        (AmongLastSignature => AmongLastSignature' /\ Shown' = Shown)
  BY LastSignatureStep, Zenon
<1> QED BY <1>1, TypeCorrect, PTL DEF Spec, LastSignatureShowsNothing

-----------------------------------------------------------------------------
(* What follows is of calldata in which none of them is empty.             *)

OrderMethods == {"CANCEL", "MATCH_ORDERS"}
NoEmptyOrderParts == {"DATA", "LEFT_SIGNATURE", "RIGHT_SIGNATURE"} \cap MayBeEmpty = {}

(* The fields of both methods, and the parameter each starts with.         *)
OrderStart ==
  [BODY_OFFSET |-> "BODY_OFFSET",
   LEFT_ORDER_OFFSET |-> "LEFT_ORDER_OFFSET",
   LEFT_SIGNATURE_OFFSET |-> "LEFT_SIGNATURE_OFFSET",
   RIGHT_ORDER_OFFSET |-> "RIGHT_ORDER_OFFSET",
   RIGHT_SIGNATURE_OFFSET |-> "RIGHT_SIGNATURE_OFFSET",
   MAKER |-> "MAKER", LEFT_MAKER |-> "MAKER", RIGHT_MAKER |-> "MAKER",
   MAKE_ASSET_OFFSET |-> "MAKE_ASSET_OFFSET",
   TAKER |-> "TAKER", LEFT_TAKER |-> "TAKER", RIGHT_TAKER |-> "TAKER",
   TAKE_ASSET_OFFSET |-> "TAKE_ASSET_OFFSET", SALT |-> "SALT", START |-> "START",
   END |-> "END", DATA_TYPE |-> "DATA_TYPE", DATA_OFFSET |-> "DATA_OFFSET",
   MAKE_TYPE_OFFSET |-> "MAKE_ASSET", MAKE_VALUE |-> "MAKE_ASSET",
   MAKE_CLASS |-> "MAKE_ASSET", MAKE_DATA_OFFSET |-> "MAKE_ASSET",
   MAKE_DATA |-> "MAKE_ASSET",
   TAKE_TYPE_OFFSET |-> "TAKE_ASSET", TAKE_VALUE |-> "TAKE_ASSET",
   TAKE_CLASS |-> "TAKE_ASSET", TAKE_DATA_OFFSET |-> "TAKE_ASSET",
   TAKE_DATA |-> "TAKE_ASSET",
   DATA |-> "DATA_LENGTH", LEFT_SIGNATURE |-> "SIGNATURE_LENGTH",
   RIGHT_SIGNATURE |-> "SIGNATURE_LENGTH"]

(* What follows each field, in either method; the data of an order are the *)
(* last field of a cancel.                                                 *)
OrderAfter ==
  [BODY_OFFSET |-> "MAKER",
   LEFT_ORDER_OFFSET |-> "LEFT_SIGNATURE_OFFSET",
   LEFT_SIGNATURE_OFFSET |-> "RIGHT_ORDER_OFFSET",
   RIGHT_ORDER_OFFSET |-> "RIGHT_SIGNATURE_OFFSET",
   RIGHT_SIGNATURE_OFFSET |-> "MAKER",
   MAKER |-> "MAKE_ASSET_OFFSET", LEFT_MAKER |-> "MAKE_ASSET_OFFSET",
   RIGHT_MAKER |-> "MAKE_ASSET_OFFSET", MAKE_ASSET_OFFSET |-> "TAKER",
   TAKER |-> "TAKE_ASSET_OFFSET", LEFT_TAKER |-> "TAKE_ASSET_OFFSET",
   RIGHT_TAKER |-> "TAKE_ASSET_OFFSET",
   TAKE_ASSET_OFFSET |-> "SALT", SALT |-> "START", START |-> "END",
   END |-> "DATA_TYPE", DATA_TYPE |-> "DATA_OFFSET", DATA_OFFSET |-> "MAKE_ASSET",
   MAKE_TYPE_OFFSET |-> "MAKE_ASSET", MAKE_VALUE |-> "MAKE_ASSET",
   MAKE_CLASS |-> "MAKE_ASSET", MAKE_DATA_OFFSET |-> "MAKE_ASSET",
   MAKE_DATA |-> "TAKE_ASSET",
   TAKE_TYPE_OFFSET |-> "TAKE_ASSET", TAKE_VALUE |-> "TAKE_ASSET",
   TAKE_CLASS |-> "TAKE_ASSET", TAKE_DATA_OFFSET |-> "TAKE_ASSET",
   TAKE_DATA |-> "DATA_LENGTH",
   DATA |-> "SIGNATURE_LENGTH", LEFT_SIGNATURE |-> "MAKER",
   RIGHT_SIGNATURE |-> "UNEXPECTED_PARAMETER"]
NextAfter(sel, f) ==
  IF sel = "CANCEL" /\ f = "DATA" THEN "UNEXPECTED_PARAMETER" ELSE OrderAfter[f]

(* The part of an asset that each of its fields starts with, and the one   *)
(* that follows each field before another part of an asset.                *)
AssetFields == MakeAsset \cup TakeAsset
SubStart ==
  [MAKE_TYPE_OFFSET |-> "ASSET_TYPE_OFFSET", MAKE_VALUE |-> "ASSET_VALUE",
   MAKE_CLASS |-> "ASSET_CLASS", MAKE_DATA_OFFSET |-> "ASSET_DATA_OFFSET",
   MAKE_DATA |-> "ASSET_DATA_LENGTH",
   TAKE_TYPE_OFFSET |-> "ASSET_TYPE_OFFSET", TAKE_VALUE |-> "ASSET_VALUE",
   TAKE_CLASS |-> "ASSET_CLASS", TAKE_DATA_OFFSET |-> "ASSET_DATA_OFFSET",
   TAKE_DATA |-> "ASSET_DATA_LENGTH"]
SubAfter ==
  [DATA_OFFSET |-> "ASSET_TYPE_OFFSET",
   MAKE_TYPE_OFFSET |-> "ASSET_VALUE", MAKE_VALUE |-> "ASSET_CLASS",
   MAKE_CLASS |-> "ASSET_DATA_OFFSET", MAKE_DATA_OFFSET |-> "ASSET_DATA_LENGTH",
   MAKE_DATA |-> "ASSET_TYPE_OFFSET",
   TAKE_TYPE_OFFSET |-> "ASSET_VALUE", TAKE_VALUE |-> "ASSET_CLASS",
   TAKE_CLASS |-> "ASSET_DATA_OFFSET", TAKE_DATA_OFFSET |-> "ASSET_DATA_LENGTH"]

AssetData == {"MAKE_DATA", "TAKE_DATA"}
OrderTails == {"DATA", "LEFT_SIGNATURE", "RIGHT_SIGNATURE"}
MatchHead ==
  {"LEFT_ORDER_OFFSET", "LEFT_SIGNATURE_OFFSET", "RIGHT_ORDER_OFFSET",
   "RIGHT_SIGNATURE_OFFSET"}
OnlyInCancel == {"BODY_OFFSET", "MAKER", "TAKER"}
OnlyLeft == {"LEFT_MAKER", "LEFT_TAKER", "LEFT_SIGNATURE"}
OnlyRight == {"RIGHT_MAKER", "RIGHT_TAKER", "RIGHT_SIGNATURE"}

(* The order of a match that field number p is in. *)
SideAt(p) ==
  IF p <= 4 THEN NO_ORDER ELSE IF p <= 25 THEN LEFT_ORDER
  ELSE IF p <= 46 THEN RIGHT_ORDER ELSE ERROR_ORDER
SideAfter(side, f) ==
  IF f = "RIGHT_SIGNATURE_OFFSET" THEN LEFT_ORDER
  ELSE IF f = "LEFT_SIGNATURE" THEN RIGHT_ORDER
  ELSE IF f = "RIGHT_SIGNATURE" THEN ERROR_ORDER ELSE side

-----------------------------------------------------------------------------
(* The inductive invariant, by the place the encoder is at. *)

AtOrderField ==
  /\ InField /\ part = FirstPart(field) /\ qty = 0 /\ sent = 0 /\ done = 0
  /\ next_param = OrderStart[field]
  /\ field \in AssetFields => sub_param = SubStart[field]
InAssetData ==
  /\ InField /\ part = "chunk" /\ field \in AssetData /\ qty = 0 /\ sent < WordsOf(len)
  /\ next_param = OrderStart[field] /\ sub_param = "ASSET_DATA"
  /\ counter = WordsOf(len) - sent
InOrderTail ==
  /\ InField /\ part = "chunk" /\ field \in OrderTails /\ qty = 0 /\ sent < WordsOf(len)
  /\ next_param = IF field = "DATA" THEN "DATA" ELSE "SIGNATURE"
  /\ counter = WordsOf(len) - sent
AtOrdersEnd ==
  /\ part = "end" /\ qty = 0 /\ next_param = "UNEXPECTED_PARAMETER"
  /\ pos = Len(Layout[selectorIndex]) + 1

OnItsSide == selectorIndex = "MATCH_ORDERS" => body.order_side = SideAt(pos)

OrderPlace == AtOrderField \/ InAssetData \/ InOrderTail \/ AtOrdersEnd

OrderInv ==
  selectorIndex \in OrderMethods =>
    /\ result = "OK" => OrderPlace /\ OnItsSide /\ Shown = truth
    /\ RefusedExactly

(* A word is about to be taken, and what the step has to establish.        *)
OrderReady(w) ==
  /\ w \in Nat /\ TypeOK /\ NoEmptyOrderParts
  /\ selectorIndex \in OrderMethods /\ selectorIndex' = selectorIndex
  /\ OnItsSide /\ Shown = truth /\ EncodeWord(w) /\ handle_provide_parameter(w)
OrderStepOK(w) ==
  /\ result' = "OK" => OrderPlace' /\ OnItsSide' /\ Shown' = truth'
  /\ result' = "ERROR" <=> MustRefuse(w)

-----------------------------------------------------------------------------
(* The layouts. *)

LEMMA OrderEntries ==
  ASSUME NEW m, NEW t, NEW O, O = Order(m, t)
  PROVE  /\ Len(O) = 20
         /\ O[1] = m /\ O[2] = "MAKE_ASSET_OFFSET" /\ O[3] = t
         /\ O[4] = "TAKE_ASSET_OFFSET" /\ O[5] = "SALT" /\ O[6] = "START" /\ O[7] = "END"
         /\ O[8] = "DATA_TYPE" /\ O[9] = "DATA_OFFSET"
         /\ O[10] = "MAKE_TYPE_OFFSET" /\ O[11] = "MAKE_VALUE" /\ O[12] = "MAKE_CLASS"
         /\ O[13] = "MAKE_DATA_OFFSET" /\ O[14] = "MAKE_DATA"
         /\ O[15] = "TAKE_TYPE_OFFSET" /\ O[16] = "TAKE_VALUE" /\ O[17] = "TAKE_CLASS"
         /\ O[18] = "TAKE_DATA_OFFSET" /\ O[19] = "TAKE_DATA" /\ O[20] = "DATA"
         /\ \A S : {m, t} \cup DOMAIN OrderStart \subseteq S => O \in Seq(S)
<1>1. O = <<m, "MAKE_ASSET_OFFSET", t, "TAKE_ASSET_OFFSET", "SALT", "START", "END",
            "DATA_TYPE", "DATA_OFFSET",
            "MAKE_TYPE_OFFSET", "MAKE_VALUE", "MAKE_CLASS", "MAKE_DATA_OFFSET", "MAKE_DATA",
            "TAKE_TYPE_OFFSET", "TAKE_VALUE", "TAKE_CLASS", "TAKE_DATA_OFFSET", "TAKE_DATA",
            "DATA">>
  BY DEF Order
<1>2. \A S : {m, t} \cup DOMAIN OrderStart \subseteq S => O \in Seq(S)
  <2> SUFFICES ASSUME NEW S, {m, t} \cup DOMAIN OrderStart \subseteq S PROVE O \in Seq(S)
    OBVIOUS
  <2>1. /\ m \in S /\ t \in S
        /\ {"MAKE_ASSET_OFFSET", "TAKE_ASSET_OFFSET", "SALT", "START", "END", "DATA_TYPE",
            "DATA_OFFSET", "MAKE_TYPE_OFFSET", "MAKE_VALUE", "MAKE_CLASS",
            "MAKE_DATA_OFFSET", "MAKE_DATA", "TAKE_TYPE_OFFSET", "TAKE_VALUE", "TAKE_CLASS",
            "TAKE_DATA_OFFSET", "TAKE_DATA", "DATA"} \subseteq S
    BY SMT DEF OrderStart
  <2> QED BY <1>1, <2>1, SMT
<1> QED BY <1>1, <1>2, SMT

(* A concatenation, place by place. *)
LEMMA Joined ==
  ASSUME NEW S, NEW s \in Seq(S), NEW t \in Seq(S)
  PROVE  /\ s \o t \in Seq(S)
         /\ Len(s \o t) = Len(s) + Len(t)
         /\ \A i \in 1..Len(s) : (s \o t)[i] = s[i]
         /\ \A i \in 1..Len(t) : (s \o t)[i + Len(s)] = t[i]
<1> DEFINE m == Len(s)
           n == Len(t)
<1>1. /\ s \o t \in Seq(S) /\ Len(s \o t) = m + n
      /\ \A i \in 1 .. m + n : (s \o t)[i] = IF i <= m THEN s[i] ELSE t[i - m]
  BY ConcatProperties, Zenon
<1>2. m \in Nat /\ n \in Nat
  BY SMT
<1> HIDE DEF m, n
<1>3. \A i \in 1..m : i \in 1 .. m + n /\ i <= m
  BY <1>2, SMT
<1>4. \A i \in 1..n : i + m \in 1 .. m + n /\ ~(i + m <= m) /\ (i + m) - m = i
  BY <1>2, SMT
<1>5. \A i \in 1..m : (s \o t)[i] = s[i]
  BY <1>1, <1>3, Zenon
<1>6. \A i \in 1..n : (s \o t)[i + m] = t[i]
  <2> TAKE i \in 1..n
  <2>1. (s \o t)[i + m] = t[(i + m) - m]
    BY <1>1, <1>4, Zenon
  <2> QED BY <1>4, <2>1, Zenon
<1> QED BY <1>1, <1>5, <1>6, Zenon DEF m, n

(* The same with a name for each length. *)
OfLength(s, S, n) == s \in Seq(S) /\ n = Len(s)
Placed(s, u, first, n) == \A i \in 1..n : u[i + first] = s[i]
Leading(s, u, n) == \A i \in 1..n : u[i] = s[i]

LEMMA JoinedBy ==
  ASSUME NEW S, NEW s, NEW t, NEW m, NEW n, OfLength(s, S, m), OfLength(t, S, n)
  PROVE  OfLength(s \o t, S, m + n) /\ Leading(s, s \o t, m) /\ Placed(t, s \o t, m, n)
<1>1. s \in Seq(S) /\ t \in Seq(S)
  BY Zenon DEF OfLength
<1>2. /\ s \o t \in Seq(S) /\ Len(s \o t) = Len(s) + Len(t)
      /\ Leading(s, s \o t, Len(s)) /\ Placed(t, s \o t, Len(s), Len(t))
  <2>1. /\ s \o t \in Seq(S) /\ Len(s \o t) = Len(s) + Len(t)
        /\ \A i \in 1..Len(s) : (s \o t)[i] = s[i]
        /\ \A i \in 1..Len(t) : (s \o t)[i + Len(s)] = t[i]
    BY <1>1, Joined
  <2> QED BY <2>1 DEF Leading, Placed
<1>3. m = Len(s) /\ n = Len(t)
  BY Zenon DEF OfLength
<1>4. Len(s \o t) = m + n
  BY <1>2, <1>3, Zenon
<1> QED BY <1>2, <1>3, <1>4, Zenon DEF OfLength

LEMMA CancelLayout ==
  ASSUME NEW L, L = Layout["CANCEL"], NEW O, O = Order("MAKER", "TAKER")
  PROVE  /\ Len(L) = 21 /\ L[1] = "BODY_OFFSET"
         /\ \A i \in 1..20 : L[i + 1] = O[i]
<1> DEFINE S == DOMAIN OrderStart
           A == <<"BODY_OFFSET">>
           W == A \o O
<1>1. L = W
  BY SMT DEF Layout
<1>2. {"MAKER", "TAKER"} \cup DOMAIN OrderStart \subseteq S
  BY SMT DEF OrderStart
<1>3. OfLength(O, S, 20)
  BY <1>2, OrderEntries DEF OfLength
<1>4. "BODY_OFFSET" \in S
  BY SMT DEF OrderStart
<1> HIDE DEF S
<1>5. OfLength(A, S, 1) /\ A[1] = "BODY_OFFSET"
  BY <1>4, SMT DEF OfLength
<1> HIDE DEF A, W
<1>6. OfLength(W, S, 1 + 20) /\ Leading(A, W, 1) /\ Placed(O, W, 1, 20)
  BY <1>3, <1>5, JoinedBy, Zenon DEF W
<1>7. 1 + 20 = 21 /\ 1 \in 1..1
  BY SMT
<1>8. Len(W) = 21
  BY <1>6, <1>7, Zenon DEF OfLength
<1>9. W[1] = A[1]
  BY <1>6, <1>7, Zenon DEF Leading
<1> QED BY <1>1, <1>5, <1>6, <1>8, <1>9, Zenon DEF Placed

LEMMA StaysPlaced ==
  ASSUME NEW s, NEW u, NEW v, NEW m \in Nat, NEW n \in Nat, NEW first \in Nat,
         Leading(u, v, m), first + n <= m
  PROVE  /\ Placed(s, u, first, n) => Placed(s, v, first, n)
         /\ Leading(s, u, n) => Leading(s, v, n)
<1>1. \A i \in 1..n : i \in 1..m /\ i + first \in 1..m
  BY SMT
<1> QED BY <1>1, Zenon DEF Placed, Leading

LEMMA MatchLayout ==
  ASSUME NEW L, L = Layout["MATCH_ORDERS"],
         NEW O, O = Order("LEFT_MAKER", "LEFT_TAKER"),
         NEW Q, Q = Order("RIGHT_MAKER", "RIGHT_TAKER")
  PROVE  /\ Len(L) = 46
         /\ L[1] = "LEFT_ORDER_OFFSET" /\ L[2] = "LEFT_SIGNATURE_OFFSET"
         /\ L[3] = "RIGHT_ORDER_OFFSET" /\ L[4] = "RIGHT_SIGNATURE_OFFSET"
         /\ \A i \in 1..20 : L[i + 4] = O[i]
         /\ L[25] = "LEFT_SIGNATURE"
         /\ \A i \in 1..20 : L[i + 25] = Q[i]
         /\ L[46] = "RIGHT_SIGNATURE"
<1> DEFINE S == DOMAIN OrderStart
           A == <<"LEFT_ORDER_OFFSET", "LEFT_SIGNATURE_OFFSET", "RIGHT_ORDER_OFFSET",
                  "RIGHT_SIGNATURE_OFFSET">>
           B == <<"LEFT_SIGNATURE">>
           C == <<"RIGHT_SIGNATURE">>
           X == A \o O
           Y == X \o B
           Z == Y \o Q
           W == Z \o C
<1>1. L = W
  BY SMT DEF Layout
<1>2. /\ {"LEFT_MAKER", "LEFT_TAKER"} \cup DOMAIN OrderStart \subseteq S
      /\ {"RIGHT_MAKER", "RIGHT_TAKER"} \cup DOMAIN OrderStart \subseteq S
  BY SMT DEF OrderStart
<1>3. OfLength(O, S, 20) /\ OfLength(Q, S, 20)
  BY <1>2, OrderEntries DEF OfLength
<1>4. {"LEFT_ORDER_OFFSET", "LEFT_SIGNATURE_OFFSET", "RIGHT_ORDER_OFFSET",
       "RIGHT_SIGNATURE_OFFSET", "LEFT_SIGNATURE", "RIGHT_SIGNATURE"} \subseteq S
  BY SMT DEF OrderStart
<1> HIDE DEF S
<1>5. OfLength(A, S, 4) /\ OfLength(B, S, 1) /\ OfLength(C, S, 1)
  BY <1>4, SMT DEF OfLength
<1>6. /\ A[1] = "LEFT_ORDER_OFFSET" /\ A[2] = "LEFT_SIGNATURE_OFFSET"
      /\ A[3] = "RIGHT_ORDER_OFFSET" /\ A[4] = "RIGHT_SIGNATURE_OFFSET"
      /\ B[1] = "LEFT_SIGNATURE" /\ C[1] = "RIGHT_SIGNATURE"
  BY SMT
<1>7. 4 + 20 = 24 /\ 24 + 1 = 25 /\ 25 + 20 = 45 /\ 45 + 1 = 46
  BY SMT
<1> HIDE DEF A, B, C, X, Y, Z, W
<1>8. OfLength(X, S, 24) /\ Leading(A, X, 4) /\ Placed(O, X, 4, 20)
  <2>1. OfLength(X, S, 4 + 20) /\ Leading(A, X, 4) /\ Placed(O, X, 4, 20)
    BY <1>3, <1>5, JoinedBy, Zenon DEF X
  <2> QED BY <1>7, <2>1
<1>9. OfLength(Y, S, 25) /\ Leading(X, Y, 24) /\ Placed(B, Y, 24, 1)
  <2>1. OfLength(Y, S, 24 + 1) /\ Leading(X, Y, 24) /\ Placed(B, Y, 24, 1)
    BY <1>5, <1>8, JoinedBy, Zenon DEF Y
  <2> QED BY <1>7, <2>1
<1>10. OfLength(Z, S, 45) /\ Leading(Y, Z, 25) /\ Placed(Q, Z, 25, 20)
  <2>1. OfLength(Z, S, 25 + 20) /\ Leading(Y, Z, 25) /\ Placed(Q, Z, 25, 20)
    BY <1>3, <1>9, JoinedBy, Zenon DEF Z
  <2> QED BY <1>7, <2>1
<1>11. OfLength(W, S, 46) /\ Leading(Z, W, 45) /\ Placed(C, W, 45, 1)
  <2>1. OfLength(W, S, 45 + 1) /\ Leading(Z, W, 45) /\ Placed(C, W, 45, 1)
    BY <1>5, <1>10, JoinedBy, Zenon DEF W
  <2> QED BY <1>7, <2>1
<1>12. /\ 1 \in Nat /\ 4 \in Nat /\ 20 \in Nat /\ 24 \in Nat /\ 25 \in Nat /\ 45 \in Nat
       /\ 0 \in Nat /\ 0 + 4 <= 24 /\ 0 + 4 <= 25 /\ 0 + 4 <= 45
       /\ 4 + 20 <= 25 /\ 4 + 20 <= 45 /\ 24 + 1 <= 45
       /\ 25 + 20 <= 45
  BY SMT
<1>13. Leading(A, W, 4)
  <2>1. Leading(A, Y, 4)
    BY <1>8, <1>9, <1>12, StaysPlaced, SMT
  <2>2. Leading(A, Z, 4)
    BY <2>1, <1>10, <1>12, StaysPlaced, SMT
  <2> QED BY <2>2, <1>11, <1>12, StaysPlaced, SMT
<1>14. Placed(O, W, 4, 20)
  <2>0. 4 + 20 <= 24
    BY SMT
  <2>1. Placed(O, Y, 4, 20)
    BY <2>0, <1>8, <1>9, <1>12, StaysPlaced, SMT
  <2>2. Placed(O, Z, 4, 20)
    BY <2>1, <1>10, <1>12, StaysPlaced, SMT
  <2> QED BY <2>2, <1>11, <1>12, StaysPlaced, SMT
<1>15. Placed(B, W, 24, 1)
  <2>0. 24 + 1 <= 25
    BY SMT
  <2>1. Placed(B, Z, 24, 1)
    BY <2>0, <1>9, <1>10, <1>12, StaysPlaced, SMT
  <2> QED BY <2>1, <1>11, <1>12, StaysPlaced, SMT
<1>16. Placed(Q, W, 25, 20)
  BY <1>10, <1>11, <1>12, StaysPlaced, SMT
<1>17. /\ W[1] = A[1] /\ W[2] = A[2] /\ W[3] = A[3] /\ W[4] = A[4]
       /\ W[25] = B[1] /\ W[46] = C[1]
  BY <1>13, <1>15, <1>11, SMT DEF Leading, Placed
<1>18. Len(W) = 46
  BY <1>11, Zenon DEF OfLength
<1> QED BY <1>1, <1>6, <1>14, <1>16, <1>17, <1>18, Zenon DEF Placed

(* The fields of an order, whosever it is. *)
Makers == {"MAKER", "LEFT_MAKER", "RIGHT_MAKER"}
Takers == {"TAKER", "LEFT_TAKER", "RIGHT_TAKER"}
OfAnyOrder ==
  DOMAIN OrderStart \
    (MatchHead \cup Makers \cup Takers \cup {"BODY_OFFSET", "LEFT_SIGNATURE", "RIGHT_SIGNATURE"})

LEMMA OrderRun ==
  ASSUME NEW m \in Makers, NEW t \in Takers, NEW O, O = Order(m, t)
  PROVE  /\ \A i \in 1..20 : O[i] \in OfAnyOrder \cup {m, t}
         /\ \A i \in 1..19 : OrderAfter[O[i]] = OrderStart[O[i + 1]] /\ O[i] # "DATA"
         /\ \A i \in 1..19 : O[i + 1] \in AssetFields => SubAfter[O[i]] = SubStart[O[i + 1]]
         /\ O[1] = m /\ O[20] = "DATA"
<1>1. /\ O[1] = m /\ O[2] = "MAKE_ASSET_OFFSET" /\ O[3] = t
      /\ O[4] = "TAKE_ASSET_OFFSET" /\ O[5] = "SALT" /\ O[6] = "START" /\ O[7] = "END"
      /\ O[8] = "DATA_TYPE" /\ O[9] = "DATA_OFFSET"
      /\ O[10] = "MAKE_TYPE_OFFSET" /\ O[11] = "MAKE_VALUE" /\ O[12] = "MAKE_CLASS"
      /\ O[13] = "MAKE_DATA_OFFSET" /\ O[14] = "MAKE_DATA"
      /\ O[15] = "TAKE_TYPE_OFFSET" /\ O[16] = "TAKE_VALUE" /\ O[17] = "TAKE_CLASS"
      /\ O[18] = "TAKE_DATA_OFFSET" /\ O[19] = "TAKE_DATA" /\ O[20] = "DATA"
  BY OrderEntries
<1>2. /\ OrderAfter[m] = "MAKE_ASSET_OFFSET" /\ OrderStart[m] = "MAKER"
      /\ OrderAfter[t] = "TAKE_ASSET_OFFSET" /\ OrderStart[t] = "TAKER"
      /\ m # "DATA" /\ t # "DATA" /\ m \notin AssetFields /\ t \notin AssetFields
  BY SMT DEF OrderAfter, OrderStart, Makers, Takers, AssetFields, MakeAsset, TakeAsset
<1>3. \A i \in 1..20 : O[i] \in OfAnyOrder \cup {m, t}
  <2>1. {"MAKE_ASSET_OFFSET", "TAKE_ASSET_OFFSET", "SALT", "START", "END", "DATA_TYPE",
         "DATA_OFFSET", "MAKE_TYPE_OFFSET", "MAKE_VALUE", "MAKE_CLASS", "MAKE_DATA_OFFSET",
         "MAKE_DATA", "TAKE_TYPE_OFFSET", "TAKE_VALUE", "TAKE_CLASS", "TAKE_DATA_OFFSET",
         "TAKE_DATA", "DATA"} \subseteq OfAnyOrder
    BY SMT DEF OfAnyOrder, OrderStart, MatchHead, Makers, Takers
  <2> QED BY <1>1, <2>1, SMTT(30)
<1>4. \A i \in 1..19 : OrderAfter[O[i]] = OrderStart[O[i + 1]] /\ O[i] # "DATA"
  BY <1>1, <1>2, SMTT(30) DEF OrderAfter, OrderStart
<1>5. \A i \in 1..19 : O[i + 1] \in AssetFields => SubAfter[O[i]] = SubStart[O[i + 1]]
  BY <1>1, <1>2, SMTT(30) DEF SubAfter, SubStart, AssetFields, MakeAsset, TakeAsset
<1> QED BY <1>1, <1>3, <1>4, <1>5

(* A sequence of fields each of which starts with the parameter, and in an *)
(* asset with the part of it, that follows the one before.                 *)
OrderChained(L, sel) ==
  /\ Len(L) \in Nat /\ Len(L) > 0
  /\ \A p \in 1..Len(L) : L[p] \in DOMAIN OrderStart
  /\ \A p \in 1..Len(L) :
       NextAfter(sel, L[p]) = IF p = Len(L) THEN "UNEXPECTED_PARAMETER" ELSE OrderStart[L[p + 1]]
  /\ \A p \in 1..Len(L) :
       p # Len(L) /\ L[p + 1] \in AssetFields => SubAfter[L[p]] = SubStart[L[p + 1]]

LEMMA CancelChained ==
  /\ OrderChained(Layout["CANCEL"], "CANCEL")
  /\ Layout["CANCEL"][1] = "BODY_OFFSET"
  /\ \A p \in 1..Len(Layout["CANCEL"]) :
       Layout["CANCEL"][p] \in OfAnyOrder \cup {"BODY_OFFSET", "MAKER", "TAKER"}
<1> DEFINE L == Layout["CANCEL"]
           O == Order("MAKER", "TAKER")
<1>1. /\ Len(L) = 21 /\ L[1] = "BODY_OFFSET"
      /\ \A i \in 1..20 : L[i + 1] = O[i]
  BY CancelLayout
<1>2. /\ \A i \in 1..20 : O[i] \in OfAnyOrder \cup {"MAKER", "TAKER"}
      /\ \A i \in 1..19 : OrderAfter[O[i]] = OrderStart[O[i + 1]] /\ O[i] # "DATA"
      /\ \A i \in 1..19 : O[i + 1] \in AssetFields => SubAfter[O[i]] = SubStart[O[i + 1]]
      /\ O[1] = "MAKER" /\ O[20] = "DATA"
  <2>1. "MAKER" \in Makers /\ "TAKER" \in Takers
    BY Zenon DEF Makers, Takers
  <2> QED BY <2>1, OrderRun
<1> HIDE DEF L, O
<1>3. OfAnyOrder \cup {"BODY_OFFSET", "MAKER", "TAKER"} \subseteq DOMAIN OrderStart
  BY SMT DEF OfAnyOrder, OrderStart
<1>4. /\ NextAfter("CANCEL", "BODY_OFFSET") = OrderStart["MAKER"]
      /\ NextAfter("CANCEL", "DATA") = "UNEXPECTED_PARAMETER"
      /\ \A f : f # "DATA" => NextAfter("CANCEL", f) = OrderAfter[f]
      /\ "MAKER" \notin AssetFields
  BY SMT DEF NextAfter, OrderStart, OrderAfter, AssetFields, MakeAsset, TakeAsset
<1>5. \A p \in 1..21 : p = 1 \/ \E i \in 1..20 : p = i + 1
  <2> TAKE p \in 1..21
  <2>1. p # 1 => p - 1 \in 1..20 /\ p = (p - 1) + 1
    BY SMT
  <2> QED BY <2>1
<1>6. \A p \in 1..21 : L[p] \in OfAnyOrder \cup {"BODY_OFFSET", "MAKER", "TAKER"}
  <2>1. \A i \in 1..20 : L[i + 1] \in OfAnyOrder \cup {"BODY_OFFSET", "MAKER", "TAKER"}
    <3> TAKE i \in 1..20
    <3>1. L[i + 1] = O[i] /\ O[i] \in OfAnyOrder \cup {"MAKER", "TAKER"}
      BY <1>1, <1>2, Zenon
    <3> QED BY <3>1, SMT
  <2>2. L[1] \in OfAnyOrder \cup {"BODY_OFFSET", "MAKER", "TAKER"}
    BY <1>1, SMT
  <2> QED BY <1>5, <2>1, <2>2, Zenon
<1>7. \A i \in 1..20 :
        NextAfter("CANCEL", L[i + 1]) =
          IF i + 1 = 21 THEN "UNEXPECTED_PARAMETER" ELSE OrderStart[L[(i + 1) + 1]]
  <2> TAKE i \in 1..20
  <2>1. CASE i = 20
    BY <1>1, <1>2, <1>4, <2>1, SMT
  <2>2. CASE i # 20
    <3>1. i \in 1..19 /\ i + 1 \in 1..20 /\ i + 1 # 21
      BY <2>2, SMT
    <3>2. L[i + 1] = O[i] /\ L[(i + 1) + 1] = O[i + 1]
      BY <1>1, <3>1, Zenon
    <3>3. OrderAfter[O[i]] = OrderStart[O[i + 1]] /\ O[i] # "DATA"
      BY <1>2, <3>1, Zenon
    <3>4. NextAfter("CANCEL", O[i]) = OrderAfter[O[i]]
      BY <1>4, <3>3, Zenon
    <3> QED BY <3>1, <3>2, <3>3, <3>4, Zenon
  <2> QED BY <2>1, <2>2
<1>8. \A i \in 1..20 : i + 1 # 21 /\ L[(i + 1) + 1] \in AssetFields =>
        SubAfter[L[i + 1]] = SubStart[L[(i + 1) + 1]]
  <2> SUFFICES ASSUME NEW i \in 1..20, i + 1 # 21, L[(i + 1) + 1] \in AssetFields
               PROVE  SubAfter[L[i + 1]] = SubStart[L[(i + 1) + 1]]
    BY Zenon
  <2>1. i \in 1..19 /\ i + 1 \in 1..20
    BY SMT
  <2>2. L[i + 1] = O[i] /\ L[(i + 1) + 1] = O[i + 1]
    BY <1>1, <2>1, Zenon
  <2> QED BY <1>2, <2>1, <2>2, Zenon
<1>9. /\ 1 # 21 /\ L[1 + 1] = "MAKER"
      /\ NextAfter("CANCEL", L[1]) = OrderStart[L[1 + 1]] /\ L[1 + 1] \notin AssetFields
  <2>1. 1 # 21 /\ 1 \in 1..20
    BY SMT
  <2>2. L[1 + 1] = "MAKER"
    BY <1>1, <1>2, <2>1, Zenon
  <2> QED BY <1>1, <1>4, <2>1, <2>2, Zenon
<1>10. \A p \in 1..21 :
         NextAfter("CANCEL", L[p]) =
           IF p = 21 THEN "UNEXPECTED_PARAMETER" ELSE OrderStart[L[p + 1]]
  BY <1>5, <1>7, <1>9, Zenon
<1>11. \A p \in 1..21 :
         p # 21 /\ L[p + 1] \in AssetFields => SubAfter[L[p]] = SubStart[L[p + 1]]
  BY <1>5, <1>8, <1>9, Zenon
<1>12. Len(L) \in Nat /\ Len(L) > 0
  BY <1>1, SMT
<1>13. /\ OrderChained(L, "CANCEL") /\ L[1] = "BODY_OFFSET"
       /\ \A p \in 1..Len(L) : L[p] \in OfAnyOrder \cup {"BODY_OFFSET", "MAKER", "TAKER"}
  BY <1>1, <1>3, <1>6, <1>10, <1>11, <1>12, Zenon DEF OrderChained
<1> QED BY <1>13 DEF L

(* Of a match, the order each field is of. *)
Sided(L) ==
  \A p \in 1..Len(L) :
    /\ SideAt(p + 1) = SideAfter(SideAt(p), L[p]) /\ SideAt(p) # ERROR_ORDER
    /\ L[p] \in MatchHead <=> SideAt(p) = NO_ORDER
    /\ L[p] \in OnlyLeft => SideAt(p) = LEFT_ORDER
    /\ L[p] \in OnlyRight => SideAt(p) = RIGHT_ORDER
    /\ L[p] \notin OnlyInCancel

LEMMA MatchSided ==
  /\ OrderChained(Layout["MATCH_ORDERS"], "MATCH_ORDERS") /\ Sided(Layout["MATCH_ORDERS"])
  /\ Layout["MATCH_ORDERS"][1] = "LEFT_ORDER_OFFSET"
<1> DEFINE L == Layout["MATCH_ORDERS"]
           O == Order("LEFT_MAKER", "LEFT_TAKER")
           Q == Order("RIGHT_MAKER", "RIGHT_TAKER")
           After(p) == L[p] \in DOMAIN OrderStart
             /\ NextAfter("MATCH_ORDERS", L[p]) =
                  IF p = 46 THEN "UNEXPECTED_PARAMETER" ELSE OrderStart[L[p + 1]]
           Sub(p) == p # 46 /\ L[p + 1] \in AssetFields => SubAfter[L[p]] = SubStart[L[p + 1]]
           Side(p) ==
             /\ SideAt(p + 1) = SideAfter(SideAt(p), L[p]) /\ SideAt(p) # ERROR_ORDER
             /\ L[p] \in MatchHead <=> SideAt(p) = NO_ORDER
             /\ L[p] \in OnlyLeft => SideAt(p) = LEFT_ORDER
             /\ L[p] \in OnlyRight => SideAt(p) = RIGHT_ORDER
             /\ L[p] \notin OnlyInCancel
<1>1. /\ Len(L) = 46
      /\ L[1] = "LEFT_ORDER_OFFSET" /\ L[2] = "LEFT_SIGNATURE_OFFSET"
      /\ L[3] = "RIGHT_ORDER_OFFSET" /\ L[4] = "RIGHT_SIGNATURE_OFFSET"
      /\ \A i \in 1..20 : L[i + 4] = O[i]
      /\ L[25] = "LEFT_SIGNATURE"
      /\ \A i \in 1..20 : L[i + 25] = Q[i]
      /\ L[46] = "RIGHT_SIGNATURE"
  BY MatchLayout
<1>2. /\ \A i \in 1..20 : O[i] \in OfAnyOrder \cup {"LEFT_MAKER", "LEFT_TAKER"}
      /\ \A i \in 1..19 : OrderAfter[O[i]] = OrderStart[O[i + 1]] /\ O[i] # "DATA"
      /\ \A i \in 1..19 : O[i + 1] \in AssetFields => SubAfter[O[i]] = SubStart[O[i + 1]]
      /\ O[1] = "LEFT_MAKER" /\ O[20] = "DATA"
  <2>1. "LEFT_MAKER" \in Makers /\ "LEFT_TAKER" \in Takers
    BY Zenon DEF Makers, Takers
  <2> QED BY <2>1, OrderRun
<1>3. /\ \A i \in 1..20 : Q[i] \in OfAnyOrder \cup {"RIGHT_MAKER", "RIGHT_TAKER"}
      /\ \A i \in 1..19 : OrderAfter[Q[i]] = OrderStart[Q[i + 1]] /\ Q[i] # "DATA"
      /\ \A i \in 1..19 : Q[i + 1] \in AssetFields => SubAfter[Q[i]] = SubStart[Q[i + 1]]
      /\ Q[1] = "RIGHT_MAKER" /\ Q[20] = "DATA"
  <2>1. "RIGHT_MAKER" \in Makers /\ "RIGHT_TAKER" \in Takers
    BY Zenon DEF Makers, Takers
  <2> QED BY <2>1, OrderRun
<1> HIDE DEF L, O, Q
<1>4. \A f : NextAfter("MATCH_ORDERS", f) = OrderAfter[f]
  BY SMT DEF NextAfter
<1>5. /\ OfAnyOrder \cup {"LEFT_MAKER", "LEFT_TAKER", "RIGHT_MAKER", "RIGHT_TAKER"}
           \subseteq DOMAIN OrderStart
      /\ OfAnyOrder \cap (MatchHead \cup OnlyLeft \cup OnlyRight \cup OnlyInCancel) = {}
      /\ {"LEFT_MAKER", "LEFT_TAKER", "RIGHT_MAKER", "RIGHT_TAKER"}
           \cap (MatchHead \cup OnlyInCancel) = {}
      /\ {"LEFT_MAKER", "LEFT_TAKER"} \cap OnlyRight = {}
      /\ {"RIGHT_MAKER", "RIGHT_TAKER"} \cap OnlyLeft = {}
      /\ \A f \in OfAnyOrder \cup {"LEFT_MAKER", "LEFT_TAKER", "RIGHT_MAKER", "RIGHT_TAKER"} :
           f # "RIGHT_SIGNATURE_OFFSET" /\ f # "LEFT_SIGNATURE" /\ f # "RIGHT_SIGNATURE"
  BY SMT DEF OfAnyOrder, OrderStart, MatchHead, Makers, Takers, OnlyLeft, OnlyRight,
     OnlyInCancel
<1>6. \A p \in 1..46 : \/ p \in 1..4 \/ p = 25 \/ p = 46
                       \/ (\E i \in 1..20 : p = i + 4) \/ (\E i \in 1..20 : p = i + 25)
  <2> TAKE p \in 1..46
  <2>1. p \notin 1..4 /\ p <= 24 => p - 4 \in 1..20 /\ p = (p - 4) + 4
    BY SMT
  <2>2. p > 25 /\ p # 46 => p - 25 \in 1..20 /\ p = (p - 25) + 25
    BY SMT
  <2>3. p \in 1..4 \/ p = 25 \/ p = 46 \/ (p \notin 1..4 /\ p <= 24) \/ (p > 25 /\ p # 46)
    BY SMT
  <2> QED BY <2>1, <2>2, <2>3, Zenon
<1>7. \A p \in 1..4 : After(p) /\ Sub(p) /\ Side(p)
  <2>1. L[5] = "LEFT_MAKER"
    BY <1>1, <1>2, SMT
  <2> SUFFICES ASSUME NEW p \in 1..4 PROVE After(p) /\ Sub(p) /\ Side(p)
    OBVIOUS
  <2>2. p = 1 \/ p = 2 \/ p = 3 \/ p = 4
    BY SMT
  <2>3. After(p)
    BY <1>1, <1>4, <2>1, <2>2, SMT DEF OrderStart, OrderAfter
  <2>4. Sub(p)
    BY <1>1, <2>1, <2>2, SMT DEF AssetFields, MakeAsset, TakeAsset
  <2>5. Side(p)
    BY <1>1, <2>2, SMT DEF SideAt, SideAfter, MatchHead, OnlyLeft, OnlyRight, OnlyInCancel,
       NO_ORDER, LEFT_ORDER, RIGHT_ORDER, ERROR_ORDER
  <2> QED BY <2>3, <2>4, <2>5
<1>8. After(25) /\ Sub(25) /\ Side(25)
  <2>1. L[25 + 1] = "RIGHT_MAKER" /\ L[25] = "LEFT_SIGNATURE"
    BY <1>1, <1>3, SMT
  <2>2. After(25)
    BY <1>4, <2>1, SMT DEF OrderStart, OrderAfter
  <2>3. Sub(25)
    BY <2>1, SMT DEF AssetFields, MakeAsset, TakeAsset
  <2>4. Side(25)
    BY <2>1, SMT DEF SideAt, SideAfter, MatchHead, OnlyLeft, OnlyRight, OnlyInCancel,
       NO_ORDER, LEFT_ORDER, RIGHT_ORDER, ERROR_ORDER
  <2> QED BY <2>2, <2>3, <2>4
<1>9. After(46) /\ Sub(46) /\ Side(46)
  <2>1. L[46] = "RIGHT_SIGNATURE"
    BY <1>1
  <2>2. After(46)
    BY <1>4, <2>1, SMT DEF OrderStart, OrderAfter
  <2>3. Side(46)
    BY <2>1, SMT DEF SideAt, SideAfter, MatchHead, OnlyLeft, OnlyRight, OnlyInCancel,
       NO_ORDER, LEFT_ORDER, RIGHT_ORDER, ERROR_ORDER
  <2> QED BY <2>2, <2>3, SMT
<1>10. \A i \in 1..20 : After(i + 4) /\ Sub(i + 4)
  <2> TAKE i \in 1..20
  <2>1. CASE i = 20
    <3>1. L[i + 4] = "DATA" /\ L[(i + 4) + 1] = "LEFT_SIGNATURE" /\ i + 4 # 46
      BY <1>1, <1>2, <2>1, SMT
    <3> QED BY <1>4, <3>1, SMT DEF OrderStart, OrderAfter, AssetFields, MakeAsset, TakeAsset
  <2>2. CASE i # 20
    <3>1. i \in 1..19 /\ i + 1 \in 1..20 /\ i + 4 # 46 /\ (i + 1) + 4 = (i + 4) + 1
      BY <2>2, SMT
    <3>2. L[i + 4] = O[i] /\ L[(i + 1) + 4] = O[i + 1]
      BY <1>1, <3>1, Zenon
    <3>3. /\ OrderAfter[O[i]] = OrderStart[O[i + 1]]
          /\ O[i + 1] \in AssetFields => SubAfter[O[i]] = SubStart[O[i + 1]]
      BY <1>2, <3>1, Zenon
    <3>4. O[i] \in DOMAIN OrderStart
      BY <1>2, <1>5, SMT
    <3>5. L[(i + 4) + 1] = O[i + 1]
      BY <3>1, <3>2, Zenon
    <3> QED BY <1>4, <3>1, <3>2, <3>3, <3>4, <3>5, Zenon
  <2> QED BY <2>1, <2>2
<1>11. \A i \in 1..20 : After(i + 25) /\ Sub(i + 25)
  <2> TAKE i \in 1..20
  <2>1. CASE i = 20
    <3>1. L[i + 25] = "DATA" /\ L[(i + 25) + 1] = "RIGHT_SIGNATURE" /\ i + 25 # 46
      BY <1>1, <1>3, <2>1, SMT
    <3> QED BY <1>4, <3>1, SMT DEF OrderStart, OrderAfter, AssetFields, MakeAsset, TakeAsset
  <2>2. CASE i # 20
    <3>1. i \in 1..19 /\ i + 1 \in 1..20 /\ i + 25 # 46 /\ (i + 1) + 25 = (i + 25) + 1
      BY <2>2, SMT
    <3>2. L[i + 25] = Q[i] /\ L[(i + 1) + 25] = Q[i + 1]
      BY <1>1, <3>1, Zenon
    <3>3. /\ OrderAfter[Q[i]] = OrderStart[Q[i + 1]]
          /\ Q[i + 1] \in AssetFields => SubAfter[Q[i]] = SubStart[Q[i + 1]]
      BY <1>3, <3>1, Zenon
    <3>4. Q[i] \in DOMAIN OrderStart
      BY <1>3, <1>5, SMT
    <3>5. L[(i + 25) + 1] = Q[i + 1]
      BY <3>1, <3>2, Zenon
    <3> QED BY <1>4, <3>1, <3>2, <3>3, <3>4, <3>5, Zenon
  <2> QED BY <2>1, <2>2
<1>12. \A i \in 1..20 : Side(i + 4)
  <2> TAKE i \in 1..20
  <2>1. SideAt(i + 4) = LEFT_ORDER /\ SideAt((i + 4) + 1) = LEFT_ORDER
        /\ LEFT_ORDER # ERROR_ORDER /\ LEFT_ORDER # NO_ORDER
    BY SMT DEF SideAt, NO_ORDER, LEFT_ORDER, RIGHT_ORDER, ERROR_ORDER
  <2> DEFINE f == L[i + 4]
  <2>2. f \in OfAnyOrder \cup {"LEFT_MAKER", "LEFT_TAKER"}
    BY <1>1, <1>2, Zenon
  <2> HIDE DEF f
  <2>3. /\ f \notin MatchHead /\ f \notin OnlyRight /\ f \notin OnlyInCancel
        /\ f # "RIGHT_SIGNATURE_OFFSET" /\ f # "LEFT_SIGNATURE" /\ f # "RIGHT_SIGNATURE"
    BY <1>5, <2>2, SMT
  <2>4. SideAfter(SideAt(i + 4), f) = SideAt(i + 4)
    BY <2>3, Zenon DEF SideAfter
  <2> QED BY <2>1, <2>3, <2>4, Zenon DEF f
<1>13. \A i \in 1..20 : Side(i + 25)
  <2> TAKE i \in 1..20
  <2>1. SideAt(i + 25) = RIGHT_ORDER /\ SideAt((i + 25) + 1) = RIGHT_ORDER
        /\ RIGHT_ORDER # ERROR_ORDER /\ RIGHT_ORDER # NO_ORDER
    BY SMT DEF SideAt, NO_ORDER, LEFT_ORDER, RIGHT_ORDER, ERROR_ORDER
  <2> DEFINE f == L[i + 25]
  <2>2. f \in OfAnyOrder \cup {"RIGHT_MAKER", "RIGHT_TAKER"}
    BY <1>1, <1>3, Zenon
  <2> HIDE DEF f
  <2>3. /\ f \notin MatchHead /\ f \notin OnlyLeft /\ f \notin OnlyInCancel
        /\ f # "RIGHT_SIGNATURE_OFFSET" /\ f # "LEFT_SIGNATURE" /\ f # "RIGHT_SIGNATURE"
    BY <1>5, <2>2, SMT
  <2>4. SideAfter(SideAt(i + 25), f) = SideAt(i + 25)
    BY <2>3, Zenon DEF SideAfter
  <2> QED BY <2>1, <2>3, <2>4, Zenon DEF f
<1>14. Len(L) \in Nat /\ Len(L) > 0
  BY <1>1, SMT
<1> HIDE DEF After, Sub, Side
<1>15. \A p \in 1..46 : After(p) /\ Sub(p) /\ Side(p)
  BY <1>6, <1>7, <1>8, <1>9, <1>10, <1>11, <1>12, <1>13, Zenon
<1>16. OrderChained(L, "MATCH_ORDERS")
  <2>1. \A p \in 1..46 : After(p) /\ Sub(p)
    BY <1>15
  <2>2. Len(L) = 46
    BY <1>1
  <2>3. \A p \in 1..Len(L) : After(p) /\ Sub(p)
    BY <2>1, <2>2, Zenon
  <2>4. /\ \A p \in 1..Len(L) : L[p] \in DOMAIN OrderStart
        /\ \A p \in 1..Len(L) :
             NextAfter("MATCH_ORDERS", L[p]) =
               IF p = Len(L) THEN "UNEXPECTED_PARAMETER" ELSE OrderStart[L[p + 1]]
    BY <2>2, <2>3, Zenon DEF After
  <2>5. \A p \in 1..Len(L) :
          p # Len(L) /\ L[p + 1] \in AssetFields => SubAfter[L[p]] = SubStart[L[p + 1]]
    BY <2>2, <2>3, Zenon DEF Sub
  <2> QED BY <1>14, <2>4, <2>5, Zenon DEF OrderChained
<1>17. Sided(L)
  <2>1. \A p \in 1..46 : Side(p)
    BY <1>15
  <2> QED BY <1>1, <2>1, Zenon DEF Sided, Side
<1> QED BY <1>1, <1>16, <1>17 DEF L

LEMMA OrderFields ==
  ASSUME selectorIndex \in OrderMethods
  PROVE  /\ OrderChained(Layout[selectorIndex], selectorIndex)
         /\ selectorIndex = "CANCEL" =>
              /\ Layout[selectorIndex][1] = "BODY_OFFSET"
              /\ \A p \in 1..Len(Layout[selectorIndex]) :
                   Layout[selectorIndex][p] \in OfAnyOrder \cup {"BODY_OFFSET", "MAKER", "TAKER"}
         /\ selectorIndex = "MATCH_ORDERS" =>
              Layout[selectorIndex][1] = "LEFT_ORDER_OFFSET" /\ Sided(Layout[selectorIndex])
  BY CancelChained, MatchSided, Zenon DEF OrderMethods

LEMMA OrderField ==
  ASSUME selectorIndex \in OrderMethods, InField
  PROVE  /\ field \in DOMAIN OrderStart
         /\ selectorIndex = "CANCEL" => field \in OfAnyOrder \cup {"BODY_OFFSET", "MAKER", "TAKER"}
         /\ selectorIndex = "MATCH_ORDERS" =>
              /\ SideAt(pos + 1) = SideAfter(SideAt(pos), field) /\ SideAt(pos) # ERROR_ORDER
              /\ field \in MatchHead <=> SideAt(pos) = NO_ORDER
              /\ field \in OnlyLeft => SideAt(pos) = LEFT_ORDER
              /\ field \in OnlyRight => SideAt(pos) = RIGHT_ORDER
              /\ field \notin OnlyInCancel
<1>1. field = Layout[selectorIndex][pos] /\ pos \in 1..Len(Layout[selectorIndex])
  BY Zenon DEF field, InField
<1>2. field \in DOMAIN OrderStart
  BY <1>1, OrderFields, Zenon DEF OrderChained
<1>3. selectorIndex = "CANCEL" => field \in OfAnyOrder \cup {"BODY_OFFSET", "MAKER", "TAKER"}
  BY <1>1, OrderFields, Zenon
<1>4. selectorIndex = "MATCH_ORDERS" => Sided(Layout[selectorIndex])
  BY OrderFields, Zenon
<1> QED BY <1>1, <1>2, <1>3, <1>4, Zenon DEF Sided

LEMMA OrderFirstParts ==
  \A f \in DOMAIN OrderStart :
    FirstPart(f) = IF f \in AssetData \cup OrderTails THEN "length" ELSE "static"
  BY SMT DEF FirstPart, OrderStart, AssetData, OrderTails, ByteStrings, Lists

LEMMA AssetStart ==
  \A f \in AssetFields : OrderStart[f] \in {"MAKE_ASSET", "TAKE_ASSET"}
  BY SMT DEF AssetFields, MakeAsset, TakeAsset, OrderStart

(* Both sides are at the next field, or at the end. *)
LEMMA OrderMovesOn ==
  ASSUME NEW w, OrderReady(w), InField, NextField,
         next_param' = NextAfter(selectorIndex, field),
         next_param' \in {"MAKE_ASSET", "TAKE_ASSET"} => sub_param' = SubAfter[field],
         selectorIndex = "MATCH_ORDERS" => body'.order_side = SideAfter(body.order_side, field)
  PROVE  OrderPlace' /\ OnItsSide'
<1> DEFINE L == Layout[selectorIndex]
<1>1. /\ Len(L) \in Nat /\ pos \in 1..Len(L) /\ selectorIndex' = selectorIndex
      /\ selectorIndex \in OrderMethods /\ field = L[pos]
  BY OrderFields, Zenon DEF OrderReady, InField, field, OrderChained
<1>2. /\ qty' = 0 /\ sent' = 0 /\ done' = 0
      /\ pos = Len(L) => part' = "end"
      /\ pos # Len(L) =>
           pos' \in 1..Len(L) /\ field' = L[pos + 1] /\ part' = FirstPart(L[pos + 1])
  BY <1>1, NextFieldMoves, Zenon
<1>3. pos' = pos + 1
  BY Zenon DEF NextField
<1>4. /\ next_param' = IF pos = Len(L) THEN "UNEXPECTED_PARAMETER" ELSE OrderStart[L[pos + 1]]
      /\ pos # Len(L) /\ L[pos + 1] \in AssetFields => SubAfter[field] = SubStart[L[pos + 1]]
  BY <1>1, OrderFields, Zenon DEF OrderChained
<1>5. OnItsSide'
  <2> SUFFICES ASSUME selectorIndex = "MATCH_ORDERS" PROVE body'.order_side = SideAt(pos')
    BY <1>1, Zenon DEF OnItsSide
  <2>1. body.order_side = SideAt(pos)
    BY Zenon DEF OrderReady, OnItsSide
  <2>2. SideAt(pos + 1) = SideAfter(SideAt(pos), field)
    BY <1>1, OrderField, Zenon
  <2> QED BY <1>3, <2>1, <2>2, Zenon
<1>6. CASE pos = Len(L)
  <2>1. AtOrdersEnd'
    BY <1>1, <1>2, <1>3, <1>4, <1>6, Zenon DEF AtOrdersEnd
  <2> QED BY <1>5, <2>1, Zenon DEF OrderPlace
<1>7. CASE pos # Len(L)
  <2>1. part' # "end"
    <3>1. L[pos + 1] \in DOMAIN OrderStart
      BY <1>1, <1>2, <1>3, <1>7, OrderFields, Zenon DEF OrderChained
    <3> QED BY <1>2, <1>7, <3>1, OrderFirstParts, SMT
  <2>2. field' \in AssetFields => sub_param' = SubStart[field']
    <3> SUFFICES ASSUME field' \in AssetFields PROVE sub_param' = SubStart[field']
      OBVIOUS
    <3>1. L[pos + 1] \in AssetFields /\ field' = L[pos + 1]
      BY <1>2, <1>7, Zenon
    <3>2. next_param' \in {"MAKE_ASSET", "TAKE_ASSET"}
      BY <1>4, <1>7, <3>1, AssetStart, Zenon
    <3> QED BY <1>4, <1>7, <3>1, <3>2, Zenon
  <2>3. AtOrderField'
    BY <1>1, <1>2, <1>4, <1>7, <2>1, <2>2, Zenon DEF AtOrderField, InField
  <2> QED BY <1>5, <2>3, Zenon DEF OrderPlace
<1> QED BY <1>6, <1>7

-----------------------------------------------------------------------------
(* The case each parameter leads to. *)

MakeAssetWord(w) ==
  parse_asset(w, "TAKE_ASSET", TRUE) /\ UNCHANGED <<selectorIndex, max_counter, body>>
TakeAssetWord(w) ==
  parse_asset(w, "DATA_LENGTH", FALSE) /\ UNCHANGED <<selectorIndex, max_counter, body>>
DataChunk(with_signature, next_order) == order_chunk("DATA", ~with_signature, next_order)
SignatureChunk(next_order) == order_chunk("SIGNATURE", TRUE, next_order)

OrderCase(w, maker, taker, next_order, with_signature) ==
  /\ next_param \in DOMAIN order_skips => Skip(order_skips)
  /\ next_param = "MAKER" => TakeAddress("MAKER", maker, "MAKE_ASSET_OFFSET", w)
  /\ next_param = "TAKER" => TakeAddress("TAKER", taker, "TAKE_ASSET_OFFSET", w)
  /\ next_param = "DATA_OFFSET" =>
       /\ next_param' = "MAKE_ASSET" /\ sub_param' = "ASSET_TYPE_OFFSET"
       /\ result' = "OK" /\ UNCHANGED <<selectorIndex, counter, max_counter, body>>
  /\ next_param = "MAKE_ASSET" => MakeAssetWord(w)
  /\ next_param = "TAKE_ASSET" => TakeAssetWord(w)
  /\ next_param = "DATA_LENGTH" => order_length("DATA_LENGTH", "DATA", w)
  /\ next_param = "DATA" => DataChunk(with_signature, next_order)
  /\ next_param = "SIGNATURE_LENGTH" => order_length("SIGNATURE_LENGTH", "SIGNATURE", w)
  /\ next_param = "SIGNATURE" => SignatureChunk(next_order)
  /\ next_param = "UNEXPECTED_PARAMETER" => Refuse

LEMMA OrderDispatch ==
  ASSUME NEW w, NEW maker, NEW taker, NEW next_order, NEW with_signature,
         parse_order(w, maker, taker, next_order, with_signature)
  PROVE  OrderCase(w, maker, taker, next_order, with_signature)
<1>1. CASE Skip(order_skips)
  <2>1. next_param \in DOMAIN order_skips
    BY <1>1, Zenon DEF Skip
  <2>2. /\ next_param \notin {"MAKER", "TAKER", "DATA_OFFSET", "MAKE_ASSET", "TAKE_ASSET"}
        /\ next_param \notin {"DATA_LENGTH", "DATA", "SIGNATURE_LENGTH", "SIGNATURE",
                              "UNEXPECTED_PARAMETER"}
    BY <2>1, SMT DEF order_skips
  <2> QED BY <1>1, <2>2, Zenon DEF OrderCase
<1>2. CASE TakeAddress("MAKER", maker, "MAKE_ASSET_OFFSET", w)
  <2>1. next_param = "MAKER"
    BY <1>2, Zenon DEF TakeAddress
  <2> QED BY <1>2, <2>1, SMT DEF OrderCase, order_skips
<1>3. CASE TakeAddress("TAKER", taker, "TAKE_ASSET_OFFSET", w)
  <2>1. next_param = "TAKER"
    BY <1>3, Zenon DEF TakeAddress
  <2> QED BY <1>3, <2>1, SMT DEF OrderCase, order_skips
<1>4. CASE /\ next_param = "DATA_OFFSET"
           /\ next_param' = "MAKE_ASSET" /\ sub_param' = "ASSET_TYPE_OFFSET"
           /\ result' = "OK" /\ UNCHANGED <<selectorIndex, counter, max_counter, body>>
  <2> QED BY <1>4, SMT DEF OrderCase, order_skips
<1>5. CASE next_param = "MAKE_ASSET" /\ MakeAssetWord(w)
  BY <1>5, SMT DEF OrderCase, order_skips
<1>6. CASE next_param = "TAKE_ASSET" /\ TakeAssetWord(w)
  BY <1>6, SMT DEF OrderCase, order_skips
<1>7. CASE order_length("DATA_LENGTH", "DATA", w)
  <2>1. next_param = "DATA_LENGTH"
    BY <1>7, Zenon DEF order_length
  <2> QED BY <1>7, <2>1, SMT DEF OrderCase, order_skips
<1>8. CASE DataChunk(with_signature, next_order)
  <2>1. next_param = "DATA"
    BY <1>8, Zenon DEF DataChunk, order_chunk
  <2> QED BY <1>8, <2>1, SMT DEF OrderCase, order_skips
<1>9. CASE order_length("SIGNATURE_LENGTH", "SIGNATURE", w)
  <2>1. next_param = "SIGNATURE_LENGTH"
    BY <1>9, Zenon DEF order_length
  <2> QED BY <1>9, <2>1, SMT DEF OrderCase, order_skips
<1>10. CASE SignatureChunk(next_order)
  <2>1. next_param = "SIGNATURE"
    BY <1>10, Zenon DEF SignatureChunk, order_chunk
  <2> QED BY <1>10, <2>1, SMT DEF OrderCase, order_skips
<1>11. CASE Unsupported(order_params)
  <2>1. next_param \notin order_params /\ Refuse
    BY <1>11, Zenon DEF Unsupported
  <2>2. next_param \notin DOMAIN order_skips \cup {"MAKER", "TAKER", "DATA_OFFSET",
          "MAKE_ASSET", "TAKE_ASSET", "DATA_LENGTH", "DATA", "SIGNATURE_LENGTH", "SIGNATURE"}
    BY <2>1, SMT DEF order_params
  <2> QED BY <2>1, <2>2, Zenon DEF OrderCase
<1>12. \/ Skip(order_skips) \/ TakeAddress("MAKER", maker, "MAKE_ASSET_OFFSET", w)
       \/ TakeAddress("TAKER", taker, "TAKE_ASSET_OFFSET", w)
       \/ /\ next_param = "DATA_OFFSET"
          /\ next_param' = "MAKE_ASSET" /\ sub_param' = "ASSET_TYPE_OFFSET"
          /\ result' = "OK" /\ UNCHANGED <<selectorIndex, counter, max_counter, body>>
       \/ next_param = "MAKE_ASSET" /\ MakeAssetWord(w)
       \/ next_param = "TAKE_ASSET" /\ TakeAssetWord(w)
       \/ order_length("DATA_LENGTH", "DATA", w) \/ DataChunk(with_signature, next_order)
       \/ order_length("SIGNATURE_LENGTH", "SIGNATURE", w) \/ SignatureChunk(next_order)
       \/ Unsupported(order_params)
  BY Zenon DEF parse_order, MakeAssetWord, TakeAssetWord, DataChunk, SignatureChunk
<1> QED BY <1>1, <1>2, <1>3, <1>4, <1>5, <1>6, <1>7, <1>8, <1>9, <1>10, <1>11, <1>12

(* Where each order keeps its maker and its taker, and what follows it.    *)
OrderArgs(maker, taker, next_order, with_signature) ==
  \/ /\ selectorIndex = "CANCEL" /\ maker = "maker" /\ taker = "taker"
     /\ next_order = ERROR_ORDER /\ with_signature = FALSE
  \/ /\ selectorIndex = "MATCH_ORDERS" /\ body.order_side = LEFT_ORDER
     /\ maker = "left_maker" /\ taker = "left_taker"
     /\ next_order = RIGHT_ORDER /\ with_signature = TRUE
  \/ /\ selectorIndex = "MATCH_ORDERS" /\ body.order_side = RIGHT_ORDER
     /\ maker = "right_maker" /\ taker = "right_taker"
     /\ next_order = ERROR_ORDER /\ with_signature = TRUE

LEMMA SidesDiffer ==
  /\ NO_ORDER # LEFT_ORDER /\ NO_ORDER # RIGHT_ORDER /\ NO_ORDER # ERROR_ORDER
  /\ LEFT_ORDER # RIGHT_ORDER /\ LEFT_ORDER # ERROR_ORDER /\ RIGHT_ORDER # ERROR_ORDER
  BY SMT DEF NO_ORDER, LEFT_ORDER, RIGHT_ORDER, ERROR_ORDER

LEMMA ReadyMethod ==
  ASSUME NEW w, OrderReady(w)
  PROVE  /\ selectorIndex = "CANCEL" \/ selectorIndex = "MATCH_ORDERS"
         /\ selectorIndex = "CANCEL" => handle_cancel(w)
         /\ selectorIndex = "MATCH_ORDERS" =>
              handle_match_orders(w) /\ body.order_side = SideAt(pos)
<1>1. /\ selectorIndex = "CANCEL" => handle_cancel(w)
      /\ selectorIndex = "MATCH_ORDERS" => handle_match_orders(w)
  BY SMT DEF OrderReady, handle_provide_parameter
<1> QED BY <1>1, Zenon DEF OrderReady, OrderMethods, OnItsSide

(* A word of an order. *)
LEMMA ReadyOrder ==
  ASSUME NEW w, OrderReady(w), InField, field \notin MatchHead, next_param # "BODY_OFFSET"
  PROVE  \E maker, taker, next_order, with_signature :
           /\ OrderArgs(maker, taker, next_order, with_signature)
           /\ OrderCase(w, maker, taker, next_order, with_signature)
<1>1. CASE selectorIndex = "CANCEL"
  <2>1. ~Skip([BODY_OFFSET |-> "MAKER"])
    BY SMT DEF Skip
  <2>2. parse_order(w, "maker", "taker", ERROR_ORDER, FALSE)
    BY <1>1, <2>1, ReadyMethod, Zenon DEF handle_cancel
  <2>3. OrderCase(w, "maker", "taker", ERROR_ORDER, FALSE)
    BY <2>2, OrderDispatch
  <2> QED BY <1>1, <2>3, Zenon DEF OrderArgs
<1>2. CASE selectorIndex = "MATCH_ORDERS"
  <2>1. body.order_side # NO_ORDER /\ body.order_side # ERROR_ORDER
    BY <1>2, OrderField, ReadyMethod, Zenon DEF OrderReady
  <2>2. CASE body.order_side = LEFT_ORDER
    <3>1. parse_order(w, "left_maker", "left_taker", RIGHT_ORDER, TRUE)
      BY <1>2, <2>2, ReadyMethod, SidesDiffer, Zenon DEF handle_match_orders
    <3>2. OrderCase(w, "left_maker", "left_taker", RIGHT_ORDER, TRUE)
      BY <3>1, OrderDispatch
    <3> QED BY <1>2, <2>2, <3>2, Zenon DEF OrderArgs
  <2>3. CASE body.order_side = RIGHT_ORDER
    <3>1. parse_order(w, "right_maker", "right_taker", ERROR_ORDER, TRUE)
      BY <1>2, <2>3, ReadyMethod, SidesDiffer, Zenon DEF handle_match_orders
    <3>2. OrderCase(w, "right_maker", "right_taker", ERROR_ORDER, TRUE)
      BY <3>1, OrderDispatch
    <3> QED BY <1>2, <2>3, <3>2, Zenon DEF OrderArgs
  <2>4. body.order_side = LEFT_ORDER \/ body.order_side = RIGHT_ORDER
    BY <1>2, <2>1, ReadyMethod, Zenon DEF handle_match_orders
  <2> QED BY <2>2, <2>3, <2>4
<1> QED BY <1>1, <1>2, ReadyMethod

(* The word before an order. *)
LEMMA ReadyHead ==
  ASSUME NEW w, OrderReady(w), InField, field \in MatchHead \cup {"BODY_OFFSET"},
         next_param = OrderStart[field]
  PROVE  /\ next_param' = NextAfter(selectorIndex, field)
         /\ next_param' \notin {"MAKE_ASSET", "TAKE_ASSET"}
         /\ Accept
         /\ field = "RIGHT_SIGNATURE_OFFSET" => body' = [body EXCEPT !.order_side = LEFT_ORDER]
         /\ field # "RIGHT_SIGNATURE_OFFSET" => body' = body
<1>1. CASE field = "BODY_OFFSET"
  <2>1. selectorIndex = "CANCEL"
    BY <1>1, OrderField, ReadyMethod, Zenon DEF OnlyInCancel, OrderReady
  <2>2. next_param = "BODY_OFFSET"
    BY <1>1, SMT DEF OrderStart
  <2>3. Skip([BODY_OFFSET |-> "MAKER"])
    BY <2>1, <2>2, ReadyMethod, Zenon DEF handle_cancel
  <2>4. Accept /\ body' = body /\ next_param' = "MAKER"
    BY <2>2, <2>3, SMT DEF Skip
  <2>5. NextAfter(selectorIndex, field) = "MAKER"
    BY <1>1, <2>1, SMT DEF NextAfter, OrderAfter
  <2> QED BY <1>1, <2>4, <2>5, SMT
<1>2. CASE field \in MatchHead
  <2>1. selectorIndex = "MATCH_ORDERS"
    <3>1. MatchHead \cap (OfAnyOrder \cup {"BODY_OFFSET", "MAKER", "TAKER"}) = {}
      BY SMT DEF MatchHead, OfAnyOrder
    <3> QED BY <1>2, <3>1, OrderField, ReadyMethod, Zenon DEF OrderReady
  <2>2. body.order_side = NO_ORDER
    BY <1>2, <2>1, OrderField, ReadyMethod, Zenon DEF OrderReady
  <2>3. match_offsets
    BY <2>1, <2>2, ReadyMethod, SidesDiffer, Zenon DEF handle_match_orders
  <2>4. next_param = field
    BY <1>2, SMT DEF MatchHead, OrderStart
  <2>5. NextAfter(selectorIndex, field) = OrderAfter[field]
    BY <2>1, SMT DEF NextAfter
  <2>6. CASE field = "RIGHT_SIGNATURE_OFFSET"
    <3>1. ~Skip(match_head) /\ ~Unsupported(DOMAIN match_head \cup {"RIGHT_SIGNATURE_OFFSET"})
      BY <2>4, <2>6, SMT DEF Skip, Unsupported, match_head
    <3>2. body' = [body EXCEPT !.order_side = LEFT_ORDER] /\ next_param' = "MAKER" /\ Accept
      BY <2>3, <3>1, Zenon DEF match_offsets
    <3>3. OrderAfter[field] = "MAKER"
      BY <2>6, SMT DEF OrderAfter
    <3>4. next_param' \notin {"MAKE_ASSET", "TAKE_ASSET"}
      BY <3>2, SMT
    <3> QED BY <2>5, <2>6, <3>2, <3>3, <3>4, Zenon
  <2>7. CASE field # "RIGHT_SIGNATURE_OFFSET"
    <3>1. field \in DOMAIN match_head /\ match_head[field] = OrderAfter[field]
          /\ match_head[field] \notin {"MAKE_ASSET", "TAKE_ASSET"}
      BY <1>2, <2>7, SMT DEF MatchHead, match_head, OrderAfter
    <3>2. ~Unsupported(DOMAIN match_head \cup {"RIGHT_SIGNATURE_OFFSET"})
      BY <2>4, <3>1, Zenon DEF Unsupported
    <3>3. Skip(match_head)
      BY <2>3, <2>4, <2>7, <3>2, Zenon DEF match_offsets
    <3> QED BY <2>4, <2>5, <2>7, <3>1, <3>3, Zenon DEF Skip
  <2> QED BY <2>6, <2>7
<1> QED BY <1>1, <1>2, Zenon

-----------------------------------------------------------------------------
(* What is shown of the two methods. *)

ShownOrders ==
  [CANCEL |-> {"MAKER", "TAKER"},
   MATCH_ORDERS |-> {"LEFT_MAKER", "LEFT_TAKER", "RIGHT_MAKER", "RIGHT_TAKER"}]
MemberOf ==
  [MAKER |-> "maker", TAKER |-> "taker", LEFT_MAKER |-> "left_maker",
   LEFT_TAKER |-> "left_taker", RIGHT_MAKER |-> "right_maker",
   RIGHT_TAKER |-> "right_taker"]

LEMMA OrderShown ==
  /\ selectorIndex \in OrderMethods =>
       Shown = [f \in ShownOrders[selectorIndex] |-> body[MemberOf[f]]]
  /\ selectorIndex' \in OrderMethods =>
       Shown' = [f \in ShownOrders[selectorIndex'] |-> body'[MemberOf[f]]]
<1> DEFINE B == body'
           S == Shown'
<1>1. /\ selectorIndex = "CANCEL" => Shown = [MAKER |-> body.maker, TAKER |-> body.taker]
      /\ selectorIndex = "MATCH_ORDERS" =>
           Shown = [LEFT_MAKER |-> body.left_maker, LEFT_TAKER |-> body.left_taker,
                    RIGHT_MAKER |-> body.right_maker, RIGHT_TAKER |-> body.right_taker]
  BY SMT DEF Shown
<1>2. /\ selectorIndex' = "CANCEL" => S = [MAKER |-> B.maker, TAKER |-> B.taker]
      /\ selectorIndex' = "MATCH_ORDERS" =>
           S = [LEFT_MAKER |-> B.left_maker, LEFT_TAKER |-> B.left_taker,
                RIGHT_MAKER |-> B.right_maker, RIGHT_TAKER |-> B.right_taker]
  BY SMT DEF Shown
<1> HIDE DEF B, S
<1>3. \A b : [MAKER |-> b.maker, TAKER |-> b.taker] =
               [f \in ShownOrders["CANCEL"] |-> b[MemberOf[f]]]
  BY SMT DEF ShownOrders, MemberOf
<1>4. \A b : [LEFT_MAKER |-> b.left_maker, LEFT_TAKER |-> b.left_taker,
              RIGHT_MAKER |-> b.right_maker, RIGHT_TAKER |-> b.right_taker] =
               [f \in ShownOrders["MATCH_ORDERS"] |-> b[MemberOf[f]]]
  BY SMT DEF ShownOrders, MemberOf
<1>5. selectorIndex \in OrderMethods =>
       Shown = [f \in ShownOrders[selectorIndex] |-> body[MemberOf[f]]]
  BY <1>1, <1>3, <1>4, Zenon DEF OrderMethods
<1>6. selectorIndex' \in OrderMethods =>
       S = [f \in ShownOrders[selectorIndex'] |-> B[MemberOf[f]]]
  BY <1>2, <1>3, <1>4, Zenon DEF OrderMethods
<1> QED BY <1>5, <1>6 DEF B, S

LEMMA OrderBody ==
  ASSUME NEW w, OrderReady(w)
  PROVE  /\ "order_side" \in DOMAIN body
         /\ \A f \in ShownOrders[selectorIndex] : MemberOf[f] \in DOMAIN body \ {"order_side"}
         /\ \A f, g \in ShownOrders[selectorIndex] : f # g => MemberOf[f] # MemberOf[g]
<1>1. CASE selectorIndex = "CANCEL"
  <2>1. body \in cancel_body
    BY <1>1, Zenon DEF OrderReady, TypeOK, ContextTypeOK
  <2>2. DOMAIN body = {"maker", "taker", "order_side"}
    BY <2>1, SMT DEF cancel_body
  <2>3. \A f \in ShownOrders[selectorIndex] :
          MemberOf[f] \in {"maker", "taker"} /\ MemberOf[f] # "order_side"
    BY <1>1, SMT DEF ShownOrders, MemberOf
  <2>4. \A f, g \in ShownOrders[selectorIndex] : f # g => MemberOf[f] # MemberOf[g]
    BY <1>1, SMT DEF ShownOrders, MemberOf
  <2> QED BY <2>2, <2>3, <2>4, Zenon
<1>2. CASE selectorIndex = "MATCH_ORDERS"
  <2>1. body \in match_body
    BY <1>2, Zenon DEF OrderReady, TypeOK, ContextTypeOK
  <2>2. DOMAIN body = {"left_maker", "left_taker", "right_maker", "right_taker", "order_side"}
    BY <2>1, SMT DEF match_body
  <2>3. \A f \in ShownOrders[selectorIndex] :
          /\ MemberOf[f] \in {"left_maker", "left_taker", "right_maker", "right_taker"}
          /\ MemberOf[f] # "order_side"
    BY <1>2, SMT DEF ShownOrders, MemberOf
  <2>4. \A f, g \in ShownOrders[selectorIndex] : f # g => MemberOf[f] # MemberOf[g]
    BY <1>2, SMT DEF ShownOrders, MemberOf
  <2> QED BY <2>2, <2>3, <2>4, Zenon
<1> QED BY <1>1, <1>2, ReadyMethod

(* The body is left alone, or only the order being parsed changes in it,   *)
(* to what the encoder goes on with after the field.                       *)
OnlySide ==
  \/ body' = body /\ (selectorIndex = "MATCH_ORDERS" =>
                        SideAfter(body.order_side, field) = body.order_side)
  \/ \E side : /\ body' = [body EXCEPT !["order_side"] = side]
               /\ selectorIndex = "MATCH_ORDERS" => side = SideAfter(body.order_side, field)

LEMMA SideOnly ==
  ASSUME NEW w, OrderReady(w), OnlySide
  PROVE  /\ Shown' = truth
         /\ selectorIndex = "MATCH_ORDERS" =>
              body'.order_side = SideAfter(body.order_side, field)
<1> DEFINE B == body'
           S == Shown'
<1>1. /\ \A y \in DOMAIN body \ {"order_side"} : B[y] = body[y]
      /\ selectorIndex = "MATCH_ORDERS" => B["order_side"] = SideAfter(body.order_side, field)
  <2>1. CASE B = body /\ (selectorIndex = "MATCH_ORDERS" =>
                            SideAfter(body.order_side, field) = body.order_side)
    BY <2>1, Zenon
  <2>2. CASE \E side : /\ B = [body EXCEPT !["order_side"] = side]
                       /\ selectorIndex = "MATCH_ORDERS" =>
                            side = SideAfter(body.order_side, field)
    <3>1. PICK side : /\ B = [body EXCEPT !["order_side"] = side]
                      /\ selectorIndex = "MATCH_ORDERS" =>
                           side = SideAfter(body.order_side, field)
      BY <2>2
    <3>2. B["order_side"] = side /\ \A y \in DOMAIN body \ {"order_side"} : B[y] = body[y]
      BY <3>1, OrderBody, Assigned, Zenon
    <3> QED BY <3>1, <3>2, Zenon
  <2> QED BY <2>1, <2>2, Zenon DEF OnlySide
<1>2. /\ Shown = [f \in ShownOrders[selectorIndex] |-> body[MemberOf[f]]]
      /\ S = [f \in ShownOrders[selectorIndex] |-> B[MemberOf[f]]]
      /\ Shown = truth
  BY OrderShown, Zenon DEF OrderReady
<1> HIDE DEF B, S
<1>3. \A f \in ShownOrders[selectorIndex] : B[MemberOf[f]] = body[MemberOf[f]]
  BY <1>1, OrderBody, Zenon
<1>4. S = Shown
  BY <1>2, <1>3, Zenon
<1> QED BY <1>1, <1>2, <1>4, Zenon DEF B, S

LEMMA OneShown ==
  ASSUME NEW w, OrderReady(w), NEW f \in ShownOrders[selectorIndex], NEW v,
         body' = [body EXCEPT ![MemberOf[f]] = v]
  PROVE  /\ Shown' = [truth EXCEPT ![f] = v] /\ f \in DOMAIN truth
         /\ body'.order_side = body.order_side
<1> DEFINE B == body'
           S == Shown'
<1>1. /\ B[MemberOf[f]] = v
      /\ \A y \in DOMAIN body \ {MemberOf[f]} : B[y] = body[y]
  BY OrderBody, Assigned, Zenon
<1>2. /\ Shown = [g \in ShownOrders[selectorIndex] |-> body[MemberOf[g]]]
      /\ S = [g \in ShownOrders[selectorIndex] |-> B[MemberOf[g]]]
      /\ Shown = truth
  BY OrderShown, Zenon DEF OrderReady
<1> HIDE DEF B, S
<1>3. B["order_side"] = body["order_side"]
  BY <1>1, OrderBody, Zenon
<1>4. \A g \in ShownOrders[selectorIndex] \ {f} : B[MemberOf[g]] = body[MemberOf[g]]
  BY <1>1, OrderBody, Zenon
<1>5. S = [Shown EXCEPT ![f] = v] /\ f \in DOMAIN Shown
  BY <1>1, <1>2, <1>4, Zenon
<1> QED BY <1>2, <1>3, <1>5, Zenon DEF B, S

LEMMA OrderTold ==
  ASSUME NEW w, OrderReady(w)
  PROVE  /\ DOMAIN truth = ShownOrders[selectorIndex]
         /\ field \notin Makers \cup Takers => \A v : Tell(v) => truth' = truth
         /\ selectorIndex = "CANCEL" => {"MAKER", "TAKER"} \subseteq DOMAIN truth
         /\ selectorIndex = "MATCH_ORDERS" =>
              {"LEFT_MAKER", "LEFT_TAKER", "RIGHT_MAKER", "RIGHT_TAKER"} \subseteq DOMAIN truth
<1>1. DOMAIN truth = ShownOrders[selectorIndex]
  BY OrderShown, Zenon DEF OrderReady
<1>2. ShownOrders[selectorIndex] \subseteq Makers \cup Takers
  BY SMT DEF OrderReady, OrderMethods, ShownOrders, Makers, Takers
<1>3. field \notin Makers \cup Takers => \A v : Tell(v) => truth' = truth
  BY <1>1, <1>2, Zenon DEF Tell
<1>4. /\ selectorIndex = "CANCEL" => {"MAKER", "TAKER"} \subseteq DOMAIN truth
      /\ selectorIndex = "MATCH_ORDERS" =>
           {"LEFT_MAKER", "LEFT_TAKER", "RIGHT_MAKER", "RIGHT_TAKER"} \subseteq DOMAIN truth
  BY <1>1, SMT DEF ShownOrders
<1> QED BY <1>1, <1>3, <1>4

LEMMA OrderNats ==
  ASSUME NEW w, OrderReady(w)
  PROVE  /\ len \in Nat /\ qty \in Nat /\ sent \in Nat /\ done \in Nat
         /\ WordsOf(len) \in Nat /\ w \in Nat
  BY WordsOfNat, Zenon DEF OrderReady, TypeOK

(* What is left of the words of a string when one more is taken.           *)
LEMMA WordCounts ==
  ASSUME NEW n \in Nat, NEW k \in Nat, k < n
  PROVE  /\ decrement_counter(n - k) = n - (k + 1)
         /\ n - (k + 1) = 0 <=> ~(k + 1 < n)
  BY SMT DEF decrement_counter

-----------------------------------------------------------------------------
(* The static words. *)

AssetStatics == AssetFields \ AssetData

LEMMA OrderStatic ==
  ASSUME NEW w, OrderReady(w), AtOrderField, field \notin AssetData \cup OrderTails
  PROVE  /\ InField /\ NextField /\ Tell(w) /\ ~MustRefuse(w) /\ field \in DOMAIN OrderStart
         /\ next_param = OrderStart[field]
         /\ w \in IF field \in AddressFields THEN Addresses
                  ELSE IF field = "APPROVED" THEN {0, 1} ELSE Values
<1>1. /\ InField /\ part = FirstPart(field) /\ next_param = OrderStart[field]
      /\ field \in DOMAIN OrderStart
  BY OrderField, Zenon DEF AtOrderField, OrderReady
<1>2. part = "static"
  BY <1>1, OrderFirstParts, Zenon
<1>3. StaticWord(w)
  BY <1>2, WordOfPart, Zenon DEF OrderReady
<1>4. ~MustRefuse(w)
  BY <1>2, SMT DEF MustRefuse
<1> QED BY <1>1, <1>3, <1>4, Zenon DEF StaticWord

(* A word of which nothing is kept. *)
LEMMA QuietStatic ==
  ASSUME NEW w, OrderReady(w), AtOrderField,
         field \notin AssetData \cup OrderTails \cup Makers \cup Takers,
         result' = "OK", next_param' = NextAfter(selectorIndex, field), OnlySide,
         next_param' \in {"MAKE_ASSET", "TAKE_ASSET"} => sub_param' = SubAfter[field]
  PROVE  OrderStepOK(w)
<1>1. InField /\ NextField /\ Tell(w) /\ ~MustRefuse(w)
  BY OrderStatic, Zenon
<1>2. Shown' = truth'
  BY <1>1, SideOnly, OrderTold, Zenon
<1>3. OrderPlace' /\ OnItsSide'
  BY <1>1, SideOnly, OrderMovesOn, Zenon
<1>4. result' # "ERROR"
  BY SMT
<1> QED BY <1>1, <1>2, <1>3, <1>4, Zenon DEF OrderStepOK

LEMMA HeadStep ==
  ASSUME NEW w, OrderReady(w), AtOrderField, field \in MatchHead \cup {"BODY_OFFSET"}
  PROVE  OrderStepOK(w)
<1>1. field \notin AssetData \cup OrderTails \cup Makers \cup Takers
  BY SMT DEF MatchHead, AssetData, OrderTails, Makers, Takers
<1>2. /\ next_param' = NextAfter(selectorIndex, field)
      /\ next_param' \notin {"MAKE_ASSET", "TAKE_ASSET"}
      /\ result' = "OK"
      /\ field = "RIGHT_SIGNATURE_OFFSET" => body' = [body EXCEPT !["order_side"] = LEFT_ORDER]
      /\ field # "RIGHT_SIGNATURE_OFFSET" => body' = body
  BY ReadyHead, Zenon DEF AtOrderField, Accept
<1>3. OnlySide
  <2>1. field = "RIGHT_SIGNATURE_OFFSET" => SideAfter(body.order_side, field) = LEFT_ORDER
    BY Zenon DEF SideAfter
  <2>2. field # "RIGHT_SIGNATURE_OFFSET" => SideAfter(body.order_side, field) = body.order_side
    BY SMT DEF SideAfter, MatchHead
  <2> QED BY <1>2, <2>1, <2>2, Zenon DEF OnlySide
<1> QED BY <1>1, <1>2, <1>3, QuietStatic, Zenon

(* After these fields the same order goes on. *)
LEMMA SameSide ==
  ASSUME field \notin {"RIGHT_SIGNATURE_OFFSET", "LEFT_SIGNATURE", "RIGHT_SIGNATURE"},
         body' = body
  PROVE  OnlySide
<1>1. SideAfter(body.order_side, field) = body.order_side
  BY SMT DEF SideAfter
<1> QED BY <1>1, Zenon DEF OnlySide

LEMMA SkippedStep ==
  ASSUME NEW w, OrderReady(w), AtOrderField, field \in DOMAIN order_skips
  PROVE  OrderStepOK(w)
<1>1. /\ field \notin AssetData \cup OrderTails \cup Makers \cup Takers
      /\ field \notin MatchHead
      /\ field \notin {"RIGHT_SIGNATURE_OFFSET", "LEFT_SIGNATURE", "RIGHT_SIGNATURE"}
      /\ field # "DATA"
      /\ OrderStart[field] = field /\ OrderStart[field] # "BODY_OFFSET"
      /\ order_skips[field] = OrderAfter[field]
      /\ order_skips[field] \notin {"MAKE_ASSET", "TAKE_ASSET"}
  BY SMT DEF order_skips, AssetData, OrderTails, Makers, Takers, MatchHead, OrderStart,
     OrderAfter
<1>2. InField /\ next_param = field
  BY <1>1, OrderStatic, Zenon
<1>3. Skip(order_skips)
  BY <1>1, <1>2, ReadyOrder, Zenon DEF OrderCase
<1>4. next_param' = order_skips[field] /\ result' = "OK" /\ body' = body
  BY <1>2, <1>3, Zenon DEF Skip, Accept
<1>5. next_param' = NextAfter(selectorIndex, field)
  BY <1>1, <1>4, Zenon DEF NextAfter
<1>6. OnlySide
  BY <1>1, <1>4, SameSide, Zenon
<1> QED BY <1>1, <1>4, <1>5, <1>6, QuietStatic, Zenon

LEMMA DataOffsetStep ==
  ASSUME NEW w, OrderReady(w), AtOrderField, field = "DATA_OFFSET"
  PROVE  OrderStepOK(w)
<1>1. /\ field \notin AssetData \cup OrderTails \cup Makers \cup Takers
      /\ field \notin MatchHead
      /\ field \notin {"RIGHT_SIGNATURE_OFFSET", "LEFT_SIGNATURE", "RIGHT_SIGNATURE"}
      /\ OrderStart[field] = "DATA_OFFSET" /\ OrderStart[field] # "BODY_OFFSET"
      /\ NextAfter(selectorIndex, field) = "MAKE_ASSET"
      /\ SubAfter[field] = "ASSET_TYPE_OFFSET"
  BY SMT DEF AssetData, OrderTails, Makers, Takers, MatchHead, OrderStart, OrderAfter,
     NextAfter, SubAfter
<1>2. InField /\ next_param = "DATA_OFFSET" /\ next_param # "BODY_OFFSET"
  BY <1>1, OrderStatic, Zenon
<1>3. /\ next_param' = "MAKE_ASSET" /\ sub_param' = "ASSET_TYPE_OFFSET"
      /\ result' = "OK" /\ body' = body
  BY <1>1, <1>2, ReadyOrder, Zenon DEF OrderCase
<1>4. OnlySide
  BY <1>1, <1>3, SameSide, Zenon
<1> QED BY <1>1, <1>3, <1>4, QuietStatic, Zenon

(* The maker or the taker of an order is kept where it belongs. *)
LEMMA MakerStep ==
  ASSUME NEW w, OrderReady(w), AtOrderField, field \in Makers \cup Takers
  PROVE  OrderStepOK(w)
<1>1. /\ field \notin AssetData \cup OrderTails \cup MatchHead
      /\ field \notin {"RIGHT_SIGNATURE_OFFSET", "LEFT_SIGNATURE", "RIGHT_SIGNATURE"}
      /\ field \in AddressFields /\ field # "DATA"
      /\ OrderStart[field] = IF field \in Makers THEN "MAKER" ELSE "TAKER"
      /\ OrderStart[field] # "BODY_OFFSET"
      /\ OrderAfter[field] =
           IF field \in Makers THEN "MAKE_ASSET_OFFSET" ELSE "TAKE_ASSET_OFFSET"
      /\ OrderAfter[field] \notin {"MAKE_ASSET", "TAKE_ASSET"}
  BY SMT DEF AssetData, OrderTails, Makers, Takers, MatchHead, OrderStart, OrderAfter,
     AddressFields
<1>2. /\ InField /\ NextField /\ Tell(w) /\ ~MustRefuse(w)
      /\ next_param = OrderStart[field] /\ w \in Addresses
  BY <1>1, OrderStatic, Zenon
<1>3. copy_address(w) = w
  BY <1>2, AddressesFit
<1>4. PICK maker, taker, next_order, with_signature :
        /\ OrderArgs(maker, taker, next_order, with_signature)
        /\ OrderCase(w, maker, taker, next_order, with_signature)
  BY <1>1, <1>2, ReadyOrder, Zenon
<1>5. /\ field \in ShownOrders[selectorIndex]
      /\ MemberOf[field] = IF field \in Makers THEN maker ELSE taker
  <2>1. CASE selectorIndex = "CANCEL"
    <3>1. field \in {"MAKER", "TAKER"}
      <4>1. field \in OfAnyOrder \cup {"BODY_OFFSET", "MAKER", "TAKER"}
        BY <1>2, <2>1, OrderField, Zenon DEF OrderReady
      <4> QED BY <4>1, SMT DEF OfAnyOrder, Makers, Takers
    <3>2. maker = "maker" /\ taker = "taker"
      BY <1>4, <2>1, SMT DEF OrderArgs
    <3> QED BY <2>1, <3>1, <3>2, SMT DEF ShownOrders, MemberOf, Makers
  <2>2. CASE selectorIndex = "MATCH_ORDERS"
    <3>1. /\ field \notin OnlyInCancel
          /\ field \in OnlyLeft => body.order_side = LEFT_ORDER
          /\ field \in OnlyRight => body.order_side = RIGHT_ORDER
      BY <1>2, <2>2, OrderField, ReadyMethod, Zenon DEF OrderReady
    <3>2. \/ field \in {"LEFT_MAKER", "LEFT_TAKER"} /\ body.order_side = LEFT_ORDER
          \/ field \in {"RIGHT_MAKER", "RIGHT_TAKER"} /\ body.order_side = RIGHT_ORDER
      BY <3>1, SMT DEF Makers, Takers, OnlyInCancel, OnlyLeft, OnlyRight
    <3>3. /\ body.order_side = LEFT_ORDER => maker = "left_maker" /\ taker = "left_taker"
          /\ body.order_side = RIGHT_ORDER => maker = "right_maker" /\ taker = "right_taker"
      <4>1. selectorIndex # "CANCEL"
        BY <2>2, SMT
      <4> QED BY <1>4, <4>1, SidesDiffer, Zenon DEF OrderArgs
    <3>4. \/ /\ field \in {"LEFT_MAKER", "LEFT_TAKER"}
             /\ maker = "left_maker" /\ taker = "left_taker"
          \/ /\ field \in {"RIGHT_MAKER", "RIGHT_TAKER"}
             /\ maker = "right_maker" /\ taker = "right_taker"
      BY <3>2, <3>3, Zenon
    <3> QED BY <2>2, <3>4, SMT DEF ShownOrders, MemberOf, Makers
  <2> QED BY <2>1, <2>2, ReadyMethod
<1>6. /\ body' = [body EXCEPT ![MemberOf[field]] = w]
      /\ next_param' = OrderAfter[field] /\ result' = "OK"
  <2>1. CASE field \in Makers
    <3>1. TakeAddress("MAKER", maker, "MAKE_ASSET_OFFSET", w)
      BY <1>1, <1>2, <1>4, <2>1, Zenon DEF OrderCase
    <3> QED BY <1>1, <1>3, <1>5, <2>1, <3>1, Zenon DEF TakeAddress, Accept
  <2>2. CASE field \notin Makers
    <3>1. TakeAddress("TAKER", taker, "TAKE_ASSET_OFFSET", w)
      BY <1>1, <1>2, <1>4, <2>2, Zenon DEF OrderCase
    <3> QED BY <1>1, <1>3, <1>5, <2>2, <3>1, Zenon DEF TakeAddress, Accept
  <2> QED BY <2>1, <2>2
<1>7. /\ Shown' = [truth EXCEPT ![field] = w] /\ field \in DOMAIN truth
      /\ body'.order_side = body.order_side
  BY <1>5, <1>6, OneShown
<1>8. Shown' = truth'
  BY <1>2, <1>7, Zenon DEF Tell
<1>9. next_param' = NextAfter(selectorIndex, field)
  BY <1>1, <1>6, Zenon DEF NextAfter
<1>10. body'.order_side = SideAfter(body.order_side, field)
  <2>1. SideAfter(body.order_side, field) = body.order_side
    BY <1>1, SMT DEF SideAfter
  <2> QED BY <1>7, <2>1, Zenon
<1>11. OrderPlace' /\ OnItsSide'
  BY <1>1, <1>2, <1>6, <1>9, <1>10, OrderMovesOn, Zenon
<1>12. result' # "ERROR"
  BY <1>6, SMT
<1> QED BY <1>2, <1>8, <1>11, <1>12, Zenon DEF OrderStepOK

-----------------------------------------------------------------------------
(* The words of an asset. *)

AfterAsset == IF field \in MakeAsset THEN "TAKE_ASSET" ELSE "DATA_LENGTH"

LEMMA AssetFacts ==
  ASSUME field \in AssetFields
  PROVE  /\ field \notin Makers \cup Takers \cup MatchHead \cup OrderTails
         /\ field \notin {"RIGHT_SIGNATURE_OFFSET", "LEFT_SIGNATURE", "RIGHT_SIGNATURE"}
         /\ OrderStart[field] = IF field \in MakeAsset THEN "MAKE_ASSET" ELSE "TAKE_ASSET"
         /\ OrderStart[field] # "BODY_OFFSET"
         /\ field # "DATA"
         /\ OrderAfter[field] = IF field \in AssetData THEN AfterAsset ELSE OrderStart[field]
         /\ field \in AssetData =>
              SubStart[field] = "ASSET_DATA_LENGTH"
                /\ (field \in MakeAsset => SubAfter[field] = "ASSET_TYPE_OFFSET")
         /\ field \notin AssetData =>
              SubStart[field] \in DOMAIN asset_head /\ asset_head[SubStart[field]] = SubAfter[field]
         /\ AfterAsset \in {"MAKE_ASSET", "TAKE_ASSET"} => field \in MakeAsset
<1>1. /\ field \notin Makers \cup Takers \cup MatchHead \cup OrderTails
      /\ field \notin {"RIGHT_SIGNATURE_OFFSET", "LEFT_SIGNATURE", "RIGHT_SIGNATURE"}
      /\ OrderStart[field] = IF field \in MakeAsset THEN "MAKE_ASSET" ELSE "TAKE_ASSET"
      /\ OrderStart[field] # "BODY_OFFSET"
      /\ field # "DATA"
  BY SMT DEF AssetFields, MakeAsset, TakeAsset, Makers, Takers, MatchHead, OrderTails, OrderStart
<1>2. OrderAfter[field] = IF field \in AssetData THEN AfterAsset ELSE OrderStart[field]
  BY SMT DEF AssetFields, MakeAsset, TakeAsset, OrderStart, OrderAfter, AssetData, AfterAsset
<1>3. field \in AssetData =>
        SubStart[field] = "ASSET_DATA_LENGTH"
          /\ (field \in MakeAsset => SubAfter[field] = "ASSET_TYPE_OFFSET")
  BY SMT DEF AssetData, MakeAsset, SubStart, SubAfter
<1>4. field \notin AssetData =>
        SubStart[field] \in DOMAIN asset_head /\ asset_head[SubStart[field]] = SubAfter[field]
  BY SMT DEF AssetFields, MakeAsset, TakeAsset, AssetData, SubStart, SubAfter, asset_head
<1>5. AfterAsset \in {"MAKE_ASSET", "TAKE_ASSET"} => field \in MakeAsset
  BY SMT DEF AfterAsset
<1> QED BY <1>1, <1>2, <1>3, <1>4, <1>5

LEMMA ReadyAsset ==
  ASSUME NEW w, OrderReady(w), InField, field \in AssetFields, next_param = OrderStart[field]
  PROVE  /\ body' = body
         /\ \E without_data, with_data :
              /\ asset_word(w, AfterAsset, without_data, with_data)
              /\ field \in MakeAsset => /\ without_data = "ASSET_TYPE_OFFSET"
                                        /\ with_data = "ASSET_TYPE_OFFSET"
<1>1. PICK maker, taker, next_order, with_signature :
        OrderCase(w, maker, taker, next_order, with_signature)
  BY AssetFacts, ReadyOrder, Zenon
<1>2. CASE field \in MakeAsset
  <2>1. MakeAssetWord(w)
    BY <1>1, <1>2, AssetFacts, Zenon DEF OrderCase
  <2>2. body' = body /\ asset_word(w, "TAKE_ASSET", "ASSET_TYPE_OFFSET", "ASSET_TYPE_OFFSET")
    BY <2>1, Zenon DEF MakeAssetWord, parse_asset
  <2> QED BY <1>2, <2>2, Zenon DEF AfterAsset
<1>3. CASE field \notin MakeAsset
  <2>1. TakeAssetWord(w)
    BY <1>1, <1>3, AssetFacts, Zenon DEF OrderCase
  <2>2. body' = body /\ asset_word(w, "DATA_LENGTH", sub_param, "UNEXPECTED_PARAMETER")
    BY <2>1, Zenon DEF TakeAssetWord, parse_asset
  <2> QED BY <1>3, <2>2, Zenon DEF AfterAsset
<1> QED BY <1>2, <1>3

LEMMA AssetStaticStep ==
  ASSUME NEW w, OrderReady(w), AtOrderField, field \in AssetStatics
  PROVE  OrderStepOK(w)
<1>1. field \in AssetFields /\ field \notin AssetData
  BY Zenon DEF AssetStatics
<1>2. /\ field \notin AssetData \cup OrderTails \cup Makers \cup Takers
      /\ field \notin {"RIGHT_SIGNATURE_OFFSET", "LEFT_SIGNATURE", "RIGHT_SIGNATURE"}
      /\ field # "DATA" /\ OrderAfter[field] = OrderStart[field]
      /\ sub_param = SubStart[field] /\ sub_param \in DOMAIN asset_head
      /\ asset_head[sub_param] = SubAfter[field]
  BY <1>1, AssetFacts, Zenon DEF AtOrderField
<1>3. InField /\ next_param = OrderStart[field]
  BY <1>2, OrderStatic, Zenon
<1>4. PICK without_data, with_data : asset_word(w, AfterAsset, without_data, with_data)
  BY <1>1, <1>3, ReadyAsset, Zenon
<1>5. sub_param # "ASSET_DATA_LENGTH" /\ sub_param # "ASSET_DATA"
  BY <1>2, SMT DEF asset_head
<1>6. sub_param' = SubAfter[field] /\ next_param' = next_param /\ result' = "OK"
  BY <1>2, <1>4, <1>5, Zenon DEF asset_word
<1>7. next_param' = NextAfter(selectorIndex, field)
  BY <1>2, <1>3, <1>6, Zenon DEF NextAfter
<1>8. OnlySide
  BY <1>1, <1>2, <1>3, ReadyAsset, SameSide, Zenon
<1> QED BY <1>2, <1>6, <1>7, <1>8, QuietStatic, Zenon

(* The length of a byte string: the plugin refuses it, goes on past an     *)
(* empty one, or waits for the words.                                      *)
LEMMA OrderLengthWord ==
  ASSUME NEW w, OrderReady(w), AtOrderField, field \in AssetData \cup OrderTails
  PROVE  /\ InField /\ next_param = OrderStart[field] /\ field \in DOMAIN OrderStart
         /\ MustRefuse(w) <=> ~FitsU16(w)
         /\ truth' = truth
         /\ \/ w = 0 /\ field \in MayBeEmpty /\ NextField /\ get_counter(w) = 0
            \/ /\ w > 0 /\ part' = "chunk" /\ InField' /\ field' = field /\ pos' = pos
               /\ qty' = 0 /\ sent' < WordsOf(len') /\ get_counter(w) # 0
               /\ get_counter(w) = WordsOf(len') - sent'
<1>1. /\ InField /\ part = FirstPart(field) /\ next_param = OrderStart[field]
      /\ field \in DOMAIN OrderStart /\ qty = 0 /\ sent = 0 /\ w \in Nat
  BY OrderField, Zenon DEF AtOrderField, OrderReady
<1>2. part = "length"
  BY <1>1, OrderFirstParts, Zenon
<1>3. LengthWord(w)
  BY <1>2, WordOfPart, Zenon DEF OrderReady
<1>4. MustRefuse(w) <=> ~FitsU16(w)
  BY <1>1, <1>2, CountIsRefused, Zenon
<1>5. CASE w = 0 /\ field \in MayBeEmpty /\ EndOfString
  <2>1. ~InSignatures
    BY <1>1, SMT DEF InSignatures
  <2>2. NextField
    BY <1>5, <2>1, Zenon DEF EndOfString
  <2>3. get_counter(w) = 0
    BY <1>5, SMT DEF get_counter, PARAMETER_LENGTH
  <2> QED BY <1>1, <1>3, <1>4, <1>5, <2>2, <2>3, Zenon DEF LengthWord
<1>6. CASE w > 0 /\ part' = "chunk" /\ len' = w /\ UNCHANGED <<pos, qty, sent, done>>
  <2>1. InField' /\ field' = field
    <3>1. part' # "end" /\ selectorIndex' = selectorIndex /\ pos' = pos
      BY <1>6, SMT DEF OrderReady
    <3> QED BY <1>1, <3>1, StaysInField, Zenon
  <2>2. /\ get_counter(w) = WordsOf(w) /\ 0 < WordsOf(w) /\ WordsOf(w) - 0 = WordsOf(w)
        /\ get_counter(w) # 0
    <3>1. get_counter(w) = WordsOf(w) /\ WordsOf(w) \in Nat /\ WordsOf(w) > 0
      BY <1>1, <1>6, GetCounterRoundsUp, WordsOfNat, Zenon DEF WordsOf
    <3> QED BY <3>1, SMT
  <2>3. /\ w > 0 /\ part' = "chunk" /\ qty' = 0 /\ sent' < WordsOf(len') /\ pos' = pos
        /\ get_counter(w) = WordsOf(len') - sent'
    BY <1>1, <1>6, <2>2, Zenon
  <2> QED BY <1>1, <1>3, <1>4, <2>1, <2>2, <2>3, Zenon DEF LengthWord
<1> QED BY <1>3, <1>5, <1>6, Zenon DEF LengthWord

LEMMA AssetLengthStep ==
  ASSUME NEW w, OrderReady(w), AtOrderField, field \in AssetFields, field \in AssetData
  PROVE  OrderStepOK(w)
<1>1. /\ InField /\ next_param = OrderStart[field]
      /\ MustRefuse(w) <=> ~FitsU16(w)
      /\ truth' = truth
      /\ \/ NextField /\ get_counter(w) = 0
         \/ /\ part' = "chunk" /\ InField' /\ field' = field /\ pos' = pos
            /\ qty' = 0 /\ sent' < WordsOf(len') /\ get_counter(w) # 0
            /\ get_counter(w) = WordsOf(len') - sent'
  BY OrderLengthWord, Zenon
<1>2. /\ sub_param = "ASSET_DATA_LENGTH" /\ field # "DATA"
      /\ field \notin {"RIGHT_SIGNATURE_OFFSET", "LEFT_SIGNATURE", "RIGHT_SIGNATURE"}
      /\ OrderAfter[field] = AfterAsset
      /\ AfterAsset \in {"MAKE_ASSET", "TAKE_ASSET"} =>
           field \in MakeAsset /\ SubAfter[field] = "ASSET_TYPE_OFFSET"
  BY AssetFacts, Zenon DEF AtOrderField
<1>11. InField /\ next_param = OrderStart[field]
  BY <1>1, Zenon
<1>3. body' = body
  BY <1>11, ReadyAsset, Zenon
<1>4. PICK without_data, with_data :
        /\ asset_word(w, AfterAsset, without_data, with_data)
        /\ field \in MakeAsset => without_data = "ASSET_TYPE_OFFSET"
  BY <1>11, ReadyAsset, Zenon
<1>5. sub_param \notin DOMAIN asset_head /\ sub_param # "ASSET_DATA"
  BY <1>2, SMT DEF asset_head
<1>6. /\ parse_counter(w)
      /\ next_param' = IF counter' = 0 THEN AfterAsset ELSE next_param
      /\ sub_param' = IF counter' = 0 THEN without_data ELSE "ASSET_DATA"
  BY <1>2, <1>4, <1>5, Zenon DEF asset_word
<1>7. OnlySide
  BY <1>2, <1>3, SameSide, Zenon
<1>8. Shown' = truth'
  BY <1>1, <1>7, SideOnly, Zenon
<1>9. CASE ~FitsU16(w)
  <2>1. result' = "ERROR"
    BY <1>6, <1>9, Zenon DEF parse_counter
  <2> QED BY <1>1, <1>9, <2>1, SMT DEF OrderStepOK
<1>10. CASE FitsU16(w)
  <2>1. counter' = get_counter(w) /\ result' = "OK"
    BY <1>6, <1>10, Zenon DEF parse_counter
  <2>2. result' # "ERROR"
    BY <2>1, SMT
  <2>3. CASE NextField /\ get_counter(w) = 0
    <3>1. next_param' = AfterAsset /\ sub_param' = without_data
      BY <1>6, <2>1, <2>3, Zenon
    <3>2. next_param' = NextAfter(selectorIndex, field)
      BY <1>2, <3>1, Zenon DEF NextAfter
    <3>3. next_param' \in {"MAKE_ASSET", "TAKE_ASSET"} => sub_param' = SubAfter[field]
      BY <1>2, <1>4, <3>1, Zenon
    <3>5. selectorIndex = "MATCH_ORDERS" =>
            body'.order_side = SideAfter(body.order_side, field)
      BY <1>7, SideOnly, Zenon
    <3>4. OrderPlace' /\ OnItsSide'
      BY <1>11, <2>3, <3>2, <3>3, <3>5, OrderMovesOn, Zenon
    <3>6. ~MustRefuse(w)
      BY <1>1, <1>10, Zenon
    <3> QED BY <1>8, <2>2, <3>4, <3>6, Zenon DEF OrderStepOK
  <2>4. CASE /\ part' = "chunk" /\ InField' /\ field' = field /\ pos' = pos
             /\ qty' = 0 /\ sent' < WordsOf(len') /\ get_counter(w) # 0
             /\ get_counter(w) = WordsOf(len') - sent'
    <3>1. counter' # 0 /\ field' = field
      BY <2>1, <2>4, Zenon
    <3>2. next_param' = OrderStart[field'] /\ sub_param' = "ASSET_DATA"
      BY <1>6, <1>11, <3>1, Zenon
    <3>3. /\ InField' /\ part' = "chunk" /\ field' \in AssetData /\ qty' = 0
          /\ sent' < WordsOf(len') /\ counter' = WordsOf(len') - sent'
      BY <2>1, <2>4, Zenon
    <3>4. InAssetData'
      BY <3>2, <3>3, Zenon DEF InAssetData, WordsOf
    <3>5. OnItsSide'
      BY <1>3, <2>4, Zenon DEF OnItsSide, OrderReady
    <3>6. ~MustRefuse(w)
      BY <1>1, <1>10, Zenon
    <3> QED BY <1>8, <2>2, <3>4, <3>5, <3>6, Zenon DEF OrderStepOK, OrderPlace
  <2> QED BY <1>1, <2>3, <2>4, Zenon
<1> QED BY <1>9, <1>10

(* A word of a byte string: one fewer is waited for, or none. *)
LEMMA OrderChunkWord ==
  ASSUME NEW w, OrderReady(w), InField, part = "chunk", field \in AssetData \cup OrderTails,
         qty = 0, sent < WordsOf(len), counter = WordsOf(len) - sent
  PROVE  /\ ~MustRefuse(w) /\ truth' = truth
         /\ \/ decrement_counter(counter) = 0 /\ NextField
            \/ /\ decrement_counter(counter) # 0 /\ part' = "chunk" /\ InField'
               /\ field' = field /\ pos' = pos /\ qty' = 0 /\ sent' < WordsOf(len')
               /\ decrement_counter(counter) = WordsOf(len') - sent'
<1>1. ChunkWord(w)
  BY WordOfPart, Zenon DEF OrderReady
<1>2. ~MustRefuse(w)
  BY SMT DEF MustRefuse
<1>3. truth' = truth
  <2>1. field \notin Makers \cup Takers
    BY SMT DEF AssetData, OrderTails, Makers, Takers
  <2>2. sent = 0 => Tell(text(IF len > 32 THEN 32 ELSE len, w))
    BY <1>1, Zenon DEF ChunkWord
  <2>3. sent # 0 => truth' = truth
    BY <1>1, Zenon DEF ChunkWord
  <2> QED BY <2>1, <2>2, <2>3, OrderTold, Zenon
<1>4. /\ decrement_counter(WordsOf(len) - sent) = WordsOf(len) - (sent + 1)
      /\ WordsOf(len) - (sent + 1) = 0 <=> ~(sent + 1 < WordsOf(len))
  <2>1. sent \in Nat /\ WordsOf(len) \in Nat
    BY OrderNats, Zenon
  <2> QED BY <2>1, WordCounts
<1>5. decrement_counter(counter) = WordsOf(len) - (sent + 1)
  BY <1>4
<1>6. CASE sent + 1 < WordsOf(len)
  <2>1. sent' = sent + 1 /\ UNCHANGED <<pos, part, len, qty, done>>
    BY <1>1, <1>6, Zenon DEF ChunkWord
  <2>2. InField' /\ field' = field
    BY <2>1, StaysInField, Zenon DEF InField, OrderReady
  <2>3. decrement_counter(counter) # 0
    BY <1>4, <1>5, <1>6, Zenon
  <2>4. part' = "chunk" /\ qty' = 0 /\ sent' < WordsOf(len') /\ pos' = pos
    BY <1>6, <2>1, Zenon
  <2>5. decrement_counter(counter) = WordsOf(len') - sent'
    BY <1>5, <2>1, Zenon
  <2> QED BY <1>2, <1>3, <2>2, <2>3, <2>4, <2>5
<1>7. CASE ~(sent + 1 < WordsOf(len))
  <2>1. EndOfString /\ ~InSignatures
    BY <1>1, <1>7, SMT DEF ChunkWord, InSignatures
  <2>2. NextField
    BY <2>1, Zenon DEF EndOfString
  <2>3. decrement_counter(counter) = 0
    BY <1>4, <1>5, <1>7, Zenon
  <2> QED BY <1>2, <1>3, <2>2, <2>3
<1> QED BY <1>6, <1>7

LEMMA AssetChunkStep ==
  ASSUME NEW w, OrderReady(w), InAssetData
  PROVE  OrderStepOK(w)
<1>1. /\ InField /\ part = "chunk" /\ field \in AssetData /\ qty = 0 /\ sent < WordsOf(len)
      /\ next_param = OrderStart[field] /\ sub_param = "ASSET_DATA"
      /\ counter = WordsOf(len) - sent
  BY Zenon DEF InAssetData
<1>2. field \in AssetFields
  BY <1>1, SMT DEF AssetFields, MakeAsset, TakeAsset, AssetData
<1>3. /\ ~MustRefuse(w) /\ truth' = truth
      /\ \/ decrement_counter(counter) = 0 /\ NextField
         \/ /\ decrement_counter(counter) # 0 /\ part' = "chunk" /\ InField'
            /\ field' = field /\ pos' = pos /\ qty' = 0 /\ sent' < WordsOf(len')
            /\ decrement_counter(counter) = WordsOf(len') - sent'
  <2>1. field \in AssetData \cup OrderTails
    BY <1>1, Zenon
  <2> QED BY <1>1, <2>1, OrderChunkWord
<1>4. /\ field # "DATA"
      /\ field \notin {"RIGHT_SIGNATURE_OFFSET", "LEFT_SIGNATURE", "RIGHT_SIGNATURE"}
      /\ OrderAfter[field] = AfterAsset
      /\ AfterAsset \in {"MAKE_ASSET", "TAKE_ASSET"} =>
           field \in MakeAsset /\ SubAfter[field] = "ASSET_TYPE_OFFSET"
  BY <1>1, <1>2, AssetFacts, Zenon
<1>5. /\ body' = body
      /\ \E without_data, with_data :
           /\ asset_word(w, AfterAsset, without_data, with_data)
           /\ field \in MakeAsset => with_data = "ASSET_TYPE_OFFSET"
  <2>1. InField /\ next_param = OrderStart[field]
    BY <1>1
  <2> QED BY <1>2, <2>1, ReadyAsset, Zenon
<1>6. PICK without_data, with_data :
        /\ asset_word(w, AfterAsset, without_data, with_data)
        /\ field \in MakeAsset => with_data = "ASSET_TYPE_OFFSET"
  BY <1>5
<1>7. sub_param \notin DOMAIN asset_head /\ sub_param # "ASSET_DATA_LENGTH"
  BY <1>1, SMT DEF asset_head
<1>8. /\ counter' = decrement_counter(counter) /\ result' = "OK" /\ result' # "ERROR"
      /\ next_param' = IF counter' = 0 THEN AfterAsset ELSE next_param
      /\ sub_param' = IF counter' = 0 THEN with_data ELSE "ASSET_DATA"
  <2>1. /\ counter' = decrement_counter(counter) /\ result' = "OK"
        /\ next_param' = IF counter' = 0 THEN AfterAsset ELSE next_param
        /\ sub_param' = IF counter' = 0 THEN with_data ELSE "ASSET_DATA"
    <3>1. sub_param = "ASSET_DATA"
      BY <1>1
    <3> QED BY <1>6, <1>7, <3>1, Zenon DEF asset_word
  <2>2. result' # "ERROR"
    BY <2>1, SMT
  <2> QED BY <2>1, <2>2
<1>9. OnlySide
  BY <1>4, <1>5, SameSide, Zenon
<1>10. Shown' = truth'
  BY <1>3, <1>9, SideOnly, Zenon
<1>11. CASE decrement_counter(counter) = 0 /\ NextField
  <2>1. next_param' = AfterAsset /\ sub_param' = with_data
    BY <1>8, <1>11, Zenon
  <2>2. next_param' = NextAfter(selectorIndex, field)
    BY <1>4, <2>1, Zenon DEF NextAfter
  <2>3. next_param' \in {"MAKE_ASSET", "TAKE_ASSET"} => sub_param' = SubAfter[field]
    BY <1>4, <1>6, <2>1, Zenon
  <2>4. selectorIndex = "MATCH_ORDERS" => body'.order_side = SideAfter(body.order_side, field)
    BY <1>9, SideOnly, Zenon
  <2>5. InField
    BY <1>1
  <2>6. OrderPlace' /\ OnItsSide'
    BY <1>11, <2>2, <2>3, <2>4, <2>5, OrderMovesOn, Zenon
  <2>7. ~MustRefuse(w)
    BY <1>3
  <2> QED BY <1>8, <1>10, <2>6, <2>7, Zenon DEF OrderStepOK
<1>12. CASE /\ decrement_counter(counter) # 0 /\ part' = "chunk" /\ InField'
            /\ field' = field /\ pos' = pos /\ qty' = 0 /\ sent' < WordsOf(len')
            /\ decrement_counter(counter) = WordsOf(len') - sent'
  <2>1. counter' = WordsOf(len') - sent'
    BY <1>8, <1>12, Zenon
  <2>2. next_param' = next_param /\ sub_param' = "ASSET_DATA"
    BY <1>8, <1>12, Zenon
  <2>3. next_param' = OrderStart[field'] /\ field' \in AssetData
    BY <1>1, <1>12, <2>2, Zenon
  <2>4. InAssetData'
    BY <1>12, <2>1, <2>2, <2>3, Zenon DEF InAssetData, WordsOf
  <2>5. OnItsSide'
    BY <1>5, <1>12, Zenon DEF OnItsSide, OrderReady
  <2>6. ~MustRefuse(w)
    BY <1>3
  <2> QED BY <1>8, <1>10, <2>4, <2>5, <2>6, Zenon DEF OrderStepOK, OrderPlace
<1> QED BY <1>3, <1>11, <1>12

-----------------------------------------------------------------------------
(* The data and the signature of an order, neither of them empty. *)

LEMMA TailFacts ==
  ASSUME field \in OrderTails
  PROVE  /\ field \notin MatchHead \cup AssetFields
         /\ OrderStart[field] = IF field = "DATA" THEN "DATA_LENGTH" ELSE "SIGNATURE_LENGTH"
         /\ OrderStart[field] # "BODY_OFFSET"
         /\ field # "DATA" => field \in {"LEFT_SIGNATURE", "RIGHT_SIGNATURE"}
  BY SMT DEF OrderTails, MatchHead, AssetFields, MakeAsset, TakeAsset, OrderStart

LEMMA TailLengthStep ==
  ASSUME NEW w, OrderReady(w), AtOrderField, field \in OrderTails
  PROVE  OrderStepOK(w)
<1>1. /\ InField /\ next_param = OrderStart[field] /\ truth' = truth
      /\ MustRefuse(w) <=> ~FitsU16(w)
      /\ part' = "chunk" /\ InField' /\ field' = field /\ pos' = pos
      /\ qty' = 0 /\ sent' < WordsOf(len') /\ get_counter(w) = WordsOf(len') - sent'
  <2>1. field \notin MayBeEmpty
    BY Zenon DEF OrderReady, NoEmptyOrderParts, OrderTails
  <2> QED BY <2>1, OrderLengthWord, Zenon
<1>2. /\ parse_counter(w) /\ body' = body
      /\ next_param' = IF field = "DATA" THEN "DATA" ELSE "SIGNATURE"
  <2>1. InField /\ next_param = OrderStart[field]
    BY <1>1
  <2>2. PICK maker, taker, next_order, with_signature :
          OrderCase(w, maker, taker, next_order, with_signature)
    BY <2>1, TailFacts, ReadyOrder, Zenon
  <2>3. CASE field = "DATA"
    <3>1. order_length("DATA_LENGTH", "DATA", w)
      BY <2>1, <2>2, <2>3, TailFacts, Zenon DEF OrderCase
    <3> QED BY <2>3, <3>1, Zenon DEF order_length
  <2>4. CASE field # "DATA"
    <3>1. order_length("SIGNATURE_LENGTH", "SIGNATURE", w)
      BY <2>1, <2>2, <2>4, TailFacts, Zenon DEF OrderCase
    <3> QED BY <2>4, <3>1, Zenon DEF order_length
  <2> QED BY <2>3, <2>4
<1>3. Shown' = truth'
  <2>1. Shown' = Shown
    <3>1. selectorIndex' = selectorIndex /\ selectorIndex \in OrderMethods
      BY Zenon DEF OrderReady
    <3> QED BY <1>2, <3>1, OrderShown, Zenon
  <2> QED BY <1>1, <2>1, Zenon DEF OrderReady
<1>4. CASE ~FitsU16(w)
  <2>1. result' = "ERROR"
    BY <1>2, <1>4, Zenon DEF parse_counter
  <2>2. result' # "OK" /\ MustRefuse(w)
    BY <1>1, <1>4, <2>1, SMT
  <2> QED BY <2>1, <2>2, Zenon DEF OrderStepOK
<1>5. CASE FitsU16(w)
  <2>1. counter' = get_counter(w) /\ result' = "OK"
    BY <1>2, <1>5, Zenon DEF parse_counter
  <2>2. result' # "ERROR" /\ ~MustRefuse(w)
    BY <1>1, <1>5, <2>1, SMT
  <2>3. counter' = WordsOf(len') - sent'
    BY <1>1, <2>1, Zenon
  <2>4. /\ InField' /\ part' = "chunk" /\ field' \in OrderTails /\ qty' = 0
        /\ sent' < WordsOf(len')
        /\ next_param' = IF field' = "DATA" THEN "DATA" ELSE "SIGNATURE"
    BY <1>1, <1>2, Zenon
  <2>5. InOrderTail'
    BY <2>3, <2>4, Zenon DEF InOrderTail, WordsOf
  <2>6. OnItsSide'
    BY <1>1, <1>2, Zenon DEF OnItsSide, OrderReady
  <2> QED BY <1>3, <2>2, <2>5, <2>6, Zenon DEF OrderStepOK, OrderPlace
<1> QED BY <1>4, <1>5

LEMMA DataChunkMeans ==
  ASSUME NEW with_signature, NEW next_order, DataChunk(with_signature, next_order)
  PROVE  /\ counter' = decrement_counter(counter) /\ result' = "OK"
         /\ counter' # 0 => next_param' = next_param /\ body' = body
         /\ counter' = 0 /\ ~with_signature => order_done(next_order)
         /\ counter' = 0 /\ with_signature => next_param' = "SIGNATURE_LENGTH" /\ body' = body
  BY Zenon DEF DataChunk, order_chunk

LEMMA SignatureChunkMeans ==
  ASSUME NEW next_order, SignatureChunk(next_order)
  PROVE  /\ counter' = decrement_counter(counter) /\ result' = "OK"
         /\ counter' # 0 => next_param' = next_param /\ body' = body
         /\ counter' = 0 => order_done(next_order)
  BY Zenon DEF SignatureChunk, order_chunk

LEMMA TailChunk ==
  ASSUME NEW w, OrderReady(w), InOrderTail
  PROVE  /\ counter' = decrement_counter(counter) /\ result' = "OK"
         /\ counter' # 0 => next_param' = next_param /\ body' = body
         /\ counter' = 0 => OnlySide /\ next_param' = NextAfter(selectorIndex, field)
         /\ NextAfter(selectorIndex, field) \notin {"MAKE_ASSET", "TAKE_ASSET"}
<1>1. InField /\ field \in OrderTails
  BY Zenon DEF InOrderTail
<1>2. next_param # "BODY_OFFSET" /\ field \notin MatchHead
  <2>1. next_param # "BODY_OFFSET"
    BY SMT DEF InOrderTail
  <2> QED BY <1>1, <2>1, TailFacts, Zenon
<1>3. PICK maker, taker, next_order, with_signature :
        /\ OrderArgs(maker, taker, next_order, with_signature)
        /\ OrderCase(w, maker, taker, next_order, with_signature)
  BY <1>1, <1>2, ReadyOrder, Zenon
<1>4. NextAfter(selectorIndex, field) \notin {"MAKE_ASSET", "TAKE_ASSET"}
  BY <1>1, SMT DEF OrderTails, NextAfter, OrderAfter
<1>5. CASE field = "DATA"
  <2>1. DataChunk(with_signature, next_order)
    BY <1>3, <1>5, Zenon DEF OrderCase, InOrderTail
  <2>2. /\ counter' = decrement_counter(counter) /\ result' = "OK"
        /\ counter' # 0 => next_param' = next_param /\ body' = body
        /\ counter' = 0 /\ ~with_signature => order_done(next_order)
        /\ counter' = 0 /\ with_signature => next_param' = "SIGNATURE_LENGTH" /\ body' = body
    BY <2>1, DataChunkMeans
  <2>3. counter' = 0 => OnlySide /\ next_param' = NextAfter(selectorIndex, field)
    <3>1. CASE selectorIndex = "CANCEL"
      <4>1. selectorIndex # "MATCH_ORDERS"
        BY <3>1, SMT
      <4>2. ~with_signature /\ next_order = ERROR_ORDER
        BY <1>3, <4>1, Zenon DEF OrderArgs
      <4>3. counter' = 0 => /\ body' = [body EXCEPT !["order_side"] = next_order]
                            /\ next_param' = "UNEXPECTED_PARAMETER"
        BY <2>2, <4>2, Zenon DEF order_done
      <4>4. NextAfter(selectorIndex, field) = "UNEXPECTED_PARAMETER"
        BY <1>5, <3>1, Zenon DEF NextAfter
      <4> QED BY <4>1, <4>3, <4>4, Zenon DEF OnlySide
    <3>2. CASE selectorIndex = "MATCH_ORDERS"
      <4>1. selectorIndex # "CANCEL"
        BY <3>2, SMT
      <4>2. with_signature
        BY <1>3, <4>1, Zenon DEF OrderArgs
      <4>3. counter' = 0 => next_param' = "SIGNATURE_LENGTH" /\ body' = body
        BY <2>2, <4>2, Zenon
      <4>4. NextAfter(selectorIndex, field) = "SIGNATURE_LENGTH"
        BY <1>5, <4>1, SMT DEF NextAfter, OrderAfter
      <4>5. field \notin {"RIGHT_SIGNATURE_OFFSET", "LEFT_SIGNATURE", "RIGHT_SIGNATURE"}
        BY <1>5, SMT
      <4> QED BY <4>3, <4>4, <4>5, SameSide, Zenon
    <3> QED BY <3>1, <3>2, ReadyMethod
  <2> QED BY <1>4, <2>2, <2>3
<1>6. CASE field # "DATA"
  <2>1. SignatureChunk(next_order)
    BY <1>3, <1>6, Zenon DEF OrderCase, InOrderTail
  <2>2. /\ counter' = decrement_counter(counter) /\ result' = "OK"
        /\ counter' # 0 => next_param' = next_param /\ body' = body
        /\ counter' = 0 => order_done(next_order)
    BY <2>1, SignatureChunkMeans
  <2>3. field \in {"LEFT_SIGNATURE", "RIGHT_SIGNATURE"}
    BY <1>1, <1>6, TailFacts, Zenon
  <2>4. selectorIndex = "MATCH_ORDERS" /\ selectorIndex # "CANCEL"
    <3>1. field \notin OfAnyOrder \cup {"BODY_OFFSET", "MAKER", "TAKER"}
      BY <2>3, SMT DEF OfAnyOrder
    <3>2. selectorIndex # "CANCEL"
      BY <1>1, <3>1, OrderField, Zenon DEF OrderReady
    <3> QED BY <3>2, ReadyMethod
  <2>5. /\ field \in OnlyLeft => body.order_side = LEFT_ORDER
        /\ field \in OnlyRight => body.order_side = RIGHT_ORDER
    BY <1>1, <2>4, OrderField, ReadyMethod, Zenon DEF OrderReady
  <2>6. CASE field = "LEFT_SIGNATURE"
    <3>1. body.order_side = LEFT_ORDER
      BY <2>5, <2>6, Zenon DEF OnlyLeft
    <3>2. next_order = RIGHT_ORDER
      BY <1>3, <2>4, <3>1, SidesDiffer, Zenon DEF OrderArgs
    <3>3. SideAfter(body.order_side, field) = RIGHT_ORDER /\ OrderAfter[field] = "MAKER"
      BY <2>6, SMT DEF SideAfter, OrderAfter
    <3>4. counter' = 0 => /\ body' = [body EXCEPT !["order_side"] = RIGHT_ORDER]
                          /\ next_param' = "MAKER"
      BY <2>2, <3>2, SidesDiffer, Zenon DEF order_done
    <3>5. NextAfter(selectorIndex, field) = "MAKER"
      BY <2>4, <3>3, Zenon DEF NextAfter
    <3> QED BY <1>4, <2>2, <3>3, <3>4, <3>5, Zenon DEF OnlySide
  <2>7. CASE field = "RIGHT_SIGNATURE"
    <3>1. body.order_side = RIGHT_ORDER
      BY <2>5, <2>7, Zenon DEF OnlyRight
    <3>2. next_order = ERROR_ORDER
      BY <1>3, <2>4, <3>1, SidesDiffer, Zenon DEF OrderArgs
    <3>3. SideAfter(body.order_side, field) = ERROR_ORDER
          /\ OrderAfter[field] = "UNEXPECTED_PARAMETER"
      BY <2>7, SMT DEF SideAfter, OrderAfter
    <3>4. counter' = 0 => /\ body' = [body EXCEPT !["order_side"] = ERROR_ORDER]
                          /\ next_param' = "UNEXPECTED_PARAMETER"
      BY <2>2, <3>2, Zenon DEF order_done
    <3>5. NextAfter(selectorIndex, field) = "UNEXPECTED_PARAMETER"
      BY <2>4, <3>3, Zenon DEF NextAfter
    <3> QED BY <1>4, <2>2, <3>3, <3>4, <3>5, Zenon DEF OnlySide
  <2> QED BY <2>3, <2>6, <2>7
<1> QED BY <1>5, <1>6

LEMMA TailChunkStep ==
  ASSUME NEW w, OrderReady(w), InOrderTail
  PROVE  OrderStepOK(w)
<1>1. /\ InField /\ part = "chunk" /\ field \in OrderTails /\ qty = 0 /\ sent < WordsOf(len)
      /\ next_param = (IF field = "DATA" THEN "DATA" ELSE "SIGNATURE")
      /\ counter = WordsOf(len) - sent
  BY Zenon DEF InOrderTail
<1>2. /\ ~MustRefuse(w) /\ truth' = truth
      /\ \/ decrement_counter(counter) = 0 /\ NextField
         \/ /\ decrement_counter(counter) # 0 /\ part' = "chunk" /\ InField'
            /\ field' = field /\ pos' = pos /\ qty' = 0 /\ sent' < WordsOf(len')
            /\ decrement_counter(counter) = WordsOf(len') - sent'
  <2>1. field \in AssetData \cup OrderTails
    BY <1>1, Zenon
  <2> QED BY <1>1, <2>1, OrderChunkWord
<1>3. /\ counter' = decrement_counter(counter) /\ result' = "OK"
      /\ counter' # 0 => next_param' = next_param /\ body' = body
      /\ counter' = 0 => OnlySide /\ next_param' = NextAfter(selectorIndex, field)
      /\ NextAfter(selectorIndex, field) \notin {"MAKE_ASSET", "TAKE_ASSET"}
  BY TailChunk
<1>4. result' # "ERROR"
  BY <1>3, SMT
<1>5. CASE decrement_counter(counter) = 0 /\ NextField
  <2>1. OnlySide /\ next_param' = NextAfter(selectorIndex, field)
    BY <1>3, <1>5, Zenon
  <2>2. /\ Shown' = truth
        /\ selectorIndex = "MATCH_ORDERS" =>
             body'.order_side = SideAfter(body.order_side, field)
    BY <2>1, SideOnly, Zenon
  <2>3. next_param' \notin {"MAKE_ASSET", "TAKE_ASSET"} /\ InField
    BY <1>1, <1>3, <2>1, Zenon
  <2>4. OrderPlace' /\ OnItsSide'
    BY <1>5, <2>1, <2>2, <2>3, OrderMovesOn, Zenon
  <2>5. Shown' = truth' /\ ~MustRefuse(w)
    BY <1>2, <2>2, Zenon
  <2> QED BY <1>4, <2>4, <2>5, Zenon DEF OrderStepOK
<1>6. CASE /\ decrement_counter(counter) # 0 /\ part' = "chunk" /\ InField'
           /\ field' = field /\ pos' = pos /\ qty' = 0 /\ sent' < WordsOf(len')
           /\ decrement_counter(counter) = WordsOf(len') - sent'
  <2>1. next_param' = next_param /\ body' = body
    BY <1>3, <1>6, Zenon
  <2>2. /\ field' \in OrderTails
        /\ next_param' = (IF field' = "DATA" THEN "DATA" ELSE "SIGNATURE")
    BY <1>1, <1>6, <2>1, Zenon
  <2>3. counter' = WordsOf(len') - sent'
    BY <1>3, <1>6, Zenon
  <2>4. InOrderTail'
    BY <1>6, <2>2, <2>3, Zenon DEF InOrderTail, WordsOf
  <2>5. OnItsSide'
    BY <1>6, <2>1, Zenon DEF OnItsSide, OrderReady
  <2>6. Shown' = truth' /\ ~MustRefuse(w)
    <3>1. Shown' = Shown
      <4>1. selectorIndex' = selectorIndex /\ selectorIndex \in OrderMethods
        BY Zenon DEF OrderReady
      <4> QED BY <2>1, <4>1, OrderShown, Zenon
    <3> QED BY <1>2, <3>1, Zenon DEF OrderReady
  <2> QED BY <1>4, <2>4, <2>5, <2>6, Zenon DEF OrderStepOK, OrderPlace
<1> QED BY <1>2, <1>5, <1>6

(* A word beyond the end is refused. *)
LEMMA OrdersEndStep ==
  ASSUME NEW w, OrderReady(w), AtOrdersEnd
  PROVE  OrderStepOK(w)
<1>1. next_param = "UNEXPECTED_PARAMETER" /\ next_param # "BODY_OFFSET" /\ part = "end"
      /\ pos = Len(Layout[selectorIndex]) + 1
  BY SMT DEF AtOrdersEnd
<1>2. CASE selectorIndex = "CANCEL"
  <2>1. ~Skip([BODY_OFFSET |-> "MAKER"])
    BY <1>1, SMT DEF Skip
  <2>2. parse_order(w, "maker", "taker", ERROR_ORDER, FALSE)
    BY <1>2, <2>1, ReadyMethod, Zenon DEF handle_cancel
  <2>3. OrderCase(w, "maker", "taker", ERROR_ORDER, FALSE)
    BY <2>2, OrderDispatch
  <2>4. Refuse
    BY <1>1, <2>3, Zenon DEF OrderCase
  <2> QED BY <1>1, <2>4, SMT DEF Refuse, MustRefuse, OrderStepOK
<1>3. CASE selectorIndex = "MATCH_ORDERS"
  <2>1. body.order_side = ERROR_ORDER
    <3>1. Len(Layout["MATCH_ORDERS"]) = 46
      BY MatchLayout
    <3>2. pos = 46 + 1
      BY <1>1, <1>3, <3>1
    <3>3. SideAt(pos) = ERROR_ORDER
      BY <3>2, SMT DEF SideAt
    <3> QED BY <1>3, <3>3, ReadyMethod, Zenon
  <2>2. Refuse
    BY <1>3, <2>1, ReadyMethod, SidesDiffer, Zenon DEF handle_match_orders
  <2> QED BY <1>1, <2>2, SMT DEF Refuse, MustRefuse, OrderStepOK
<1> QED BY <1>2, <1>3, ReadyMethod

-----------------------------------------------------------------------------
(* One step, by place. *)

LEMMA OrderWordStep ==
  ASSUME NEW w, OrderReady(w), OrderPlace
  PROVE  OrderStepOK(w)
<1>1. CASE AtOrderField
  <2>1. field \in DOMAIN OrderStart
    BY <1>1, OrderField, Zenon DEF AtOrderField, OrderReady
  <2>2. \/ field \in MatchHead \cup {"BODY_OFFSET"} \/ field \in DOMAIN order_skips
        \/ field = "DATA_OFFSET" \/ field \in Makers \cup Takers \/ field \in AssetStatics
        \/ (field \in AssetFields /\ field \in AssetData) \/ field \in OrderTails
    BY <2>1, SMT DEF OrderStart, MatchHead, order_skips, Makers, Takers, AssetStatics,
       AssetFields, MakeAsset, TakeAsset, AssetData, OrderTails
  <2> QED BY <1>1, <2>2, HeadStep, SkippedStep, DataOffsetStep, MakerStep, AssetStaticStep,
          AssetLengthStep, TailLengthStep, Zenon
<1> QED BY <1>1, AssetChunkStep, TailChunkStep, OrdersEndStep, Zenon DEF OrderPlace

LEMMA OrderStep ==
  ASSUME TypeOK, OrderInv, NoEmptyOrderParts, Next PROVE OrderInv'
<1> SUFFICES ASSUME selectorIndex' \in OrderMethods
             PROVE  /\ result' = "OK" => OrderPlace' /\ OnItsSide' /\ Shown' = truth'
                    /\ RefusedExactly'
  BY Zenon DEF OrderInv
<1>1. PICK w \in WordsToSend :
        EncodeWord(w) /\ handle_provide_parameter(w) /\ refusable' = MustRefuse(w)
  BY Zenon DEF Next, Feed
<1>2. result = "OK" /\ w \in Nat
  BY <1>1, WordsAreNaturals, Zenon DEF Next, Feed
<1>3. selectorIndex' = selectorIndex
  BY <1>1, <1>2, ProvideParameterType, Zenon DEF TypeOK
<1>4. OrderReady(w) /\ OrderPlace
  BY <1>1, <1>2, <1>3, Zenon DEF OrderReady, OrderInv
<1> QED BY <1>1, <1>4, OrderWordStep, Zenon DEF OrderStepOK, RefusedExactly

LEMMA OrderInit == Init => OrderInv
<1> SUFFICES ASSUME Init, selectorIndex \in OrderMethods
             PROVE  OrderPlace /\ OnItsSide /\ Shown = truth /\ RefusedExactly
  BY Zenon DEF OrderInv
<1>1. /\ pos = 1 /\ part = "static" /\ qty = 0 /\ sent = 0 /\ done = 0
      /\ next_param = first_param[selectorIndex] /\ body = zero_body[selectorIndex]
      /\ truth = NothingKnown[selectorIndex] /\ result = "OK" /\ refusable = FALSE
  BY Zenon DEF Init, StartCalldata
<1>2. /\ selectorIndex = "CANCEL" => field = "BODY_OFFSET"
      /\ selectorIndex = "MATCH_ORDERS" => field = "LEFT_ORDER_OFFSET"
  BY <1>1, OrderFields, Zenon DEF field
<1>3. selectorIndex = "CANCEL" \/ selectorIndex = "MATCH_ORDERS"
  BY Zenon DEF OrderMethods
<1>4. AtOrderField
  <2>1. 1 \in 1..Len(Layout[selectorIndex]) /\ part # "end"
    <3>1. Len(Layout[selectorIndex]) \in Nat /\ Len(Layout[selectorIndex]) > 0
      BY OrderFields, Zenon DEF OrderChained
    <3> QED BY <1>1, <3>1, SMT
  <2>2. \A f \in {"BODY_OFFSET", "LEFT_ORDER_OFFSET"} :
          f \in DOMAIN OrderStart /\ f \notin AssetData \cup OrderTails /\ f \notin AssetFields
    BY SMT DEF OrderStart, AssetData, OrderTails, AssetFields, MakeAsset, TakeAsset
  <2>3. field \in {"BODY_OFFSET", "LEFT_ORDER_OFFSET"}
    BY <1>2, <1>3, Zenon
  <2>4. part = FirstPart(field)
    BY <1>1, <2>2, <2>3, OrderFirstParts, Zenon
  <2>5. next_param = OrderStart[field]
    <3>1. /\ first_param["CANCEL"] = OrderStart["BODY_OFFSET"]
          /\ first_param["MATCH_ORDERS"] = OrderStart["LEFT_ORDER_OFFSET"]
      BY SMT DEF first_param, OrderStart
    <3> QED BY <1>1, <1>2, <1>3, <3>1, Zenon
  <2> QED BY <1>1, <2>1, <2>2, <2>3, <2>4, <2>5, Zenon DEF AtOrderField, InField
<1>5. OnItsSide
  <2>1. zero_body["MATCH_ORDERS"].order_side = NO_ORDER /\ SideAt(1) = NO_ORDER
    BY SMT DEF zero_body, zero_match, SideAt
  <2> QED BY <1>1, <2>1, Zenon DEF OnItsSide
<1>6. Shown = truth
  <2>1. CASE selectorIndex = "CANCEL"
    <3>1. Shown = [MAKER |-> body.maker, TAKER |-> body.taker]
      BY <2>1, SMT DEF Shown
    <3>2. body.maker = 0 /\ body.taker = 0 /\ truth = [MAKER |-> 0, TAKER |-> 0]
      BY <1>1, <2>1, SMT DEF zero_body, zero_cancel, NothingKnown
    <3> QED BY <3>1, <3>2, Zenon
  <2>2. CASE selectorIndex = "MATCH_ORDERS"
    <3>1. Shown = [LEFT_MAKER |-> body.left_maker, LEFT_TAKER |-> body.left_taker,
                   RIGHT_MAKER |-> body.right_maker, RIGHT_TAKER |-> body.right_taker]
      BY <2>2, SMT DEF Shown
    <3>2. /\ body.left_maker = 0 /\ body.left_taker = 0
          /\ body.right_maker = 0 /\ body.right_taker = 0
          /\ truth = [LEFT_MAKER |-> 0, LEFT_TAKER |-> 0, RIGHT_MAKER |-> 0, RIGHT_TAKER |-> 0]
      BY <1>1, <2>2, SMT DEF zero_body, zero_match, NothingKnown
    <3> QED BY <3>1, <3>2, Zenon
  <2> QED BY <1>3, <2>1, <2>2
<1>7. RefusedExactly
  <2>1. result # "ERROR"
    BY <1>1, SMT
  <2> QED BY <1>1, <2>1, Zenon DEF RefusedExactly
<1> QED BY <1>4, <1>5, <1>6, <1>7, Zenon DEF OrderPlace

LEMMA OrderUnchanged == OrderInv /\ UNCHANGED vars => OrderInv'
<1> SUFFICES ASSUME OrderInv, UNCHANGED vars PROVE OrderInv'
  OBVIOUS
<1>1. /\ UNCHANGED <<selectorIndex, next_param, sub_param, counter, body, result>>
      /\ UNCHANGED <<pos, part, len, qty, sent, done, truth, refusable>>
  BY Zenon DEF vars, contextVars, context, calldataVars
<1>2. field' = field
  BY <1>1, Zenon DEF field
<1>3. selectorIndex \in OrderMethods => Shown' = Shown
  BY <1>1, OrderShown, Zenon
<1>4. InField => InField'
  BY <1>1, Zenon DEF InField
<1>5. /\ AtOrderField => AtOrderField'
      /\ AtOrdersEnd => AtOrdersEnd'
      /\ OnItsSide => OnItsSide'
  BY <1>1, <1>2, <1>4, Zenon DEF AtOrderField, AtOrdersEnd, OnItsSide
<1>6. (InAssetData => InAssetData') /\ (InOrderTail => InOrderTail')
  BY <1>1, <1>2, <1>4, Zenon DEF InAssetData, InOrderTail, WordsOf
<1>7. OrderPlace => OrderPlace'
  BY <1>5, <1>6, Zenon DEF OrderPlace
<1>8. RefusedExactly => RefusedExactly'
  BY <1>1, Zenon DEF RefusedExactly
<1> QED BY <1>1, <1>3, <1>5, <1>7, <1>8, Zenon DEF OrderInv

-----------------------------------------------------------------------------
(* What the invariant says of the two methods, in the terms of the runs.   *)

LEMMA OrderCalledForStart ==
  \A f \in DOMAIN OrderStart : CalledForAs(FirstPart(f), f) = OrderStart[f]
<1> SUFFICES ASSUME NEW f \in DOMAIN OrderStart
             PROVE  CalledForAs(FirstPart(f), f) = OrderStart[f]
  OBVIOUS
<1>1. CASE f \in AssetFields
  <2>1. FirstPart(f) \in {"static", "length"}
    BY OrderFirstParts, SMT
  <2>2. /\ \A p \in {"static", "length"}, g \in MakeAsset : CalledForAs(p, g) = "MAKE_ASSET"
        /\ \A p \in {"static", "length"}, g \in TakeAsset : CalledForAs(p, g) = "TAKE_ASSET"
    BY SMT DEF CalledForAs, MakeAsset, TakeAsset
  <2>3. /\ \A g \in MakeAsset : OrderStart[g] = "MAKE_ASSET"
        /\ \A g \in TakeAsset : OrderStart[g] = "TAKE_ASSET"
    BY SMT DEF MakeAsset, TakeAsset, OrderStart
  <2> QED BY <1>1, <2>1, <2>2, <2>3, SMT DEF AssetFields
<1>2. CASE f \in OrderTails
  BY <1>2, SMT DEF OrderTails, FirstPart, CalledForAs, OrderStart, ByteStrings, MakeAsset,
     TakeAsset, LengthParam
<1>3. CASE f \notin AssetFields \cup OrderTails
  BY <1>3, SMT DEF OrderTails, AssetFields, FirstPart, CalledForAs, OrderStart, ByteStrings,
     Lists, MakeAsset, TakeAsset, Renamed
<1> QED BY <1>1, <1>2, <1>3

LEMMA OrderCalledForWithin ==
  /\ \A f \in AssetData : CalledForAs("chunk", f) = OrderStart[f]
  /\ \A f \in OrderTails :
       CalledForAs("chunk", f) = IF f = "DATA" THEN "DATA" ELSE "SIGNATURE"
  /\ \A f : CalledForAs("end", f) = "UNEXPECTED_PARAMETER"
<1>1. \A f \in AssetData : CalledForAs("chunk", f) = OrderStart[f]
  BY SMT DEF CalledForAs, AssetData, OrderStart, MakeAsset, TakeAsset
<1>2. \A f \in OrderTails :
        CalledForAs("chunk", f) = IF f = "DATA" THEN "DATA" ELSE "SIGNATURE"
  BY SMT DEF CalledForAs, OrderTails, MakeAsset, TakeAsset, ChunkParam
<1>3. \A f : CalledForAs("end", f) = "UNEXPECTED_PARAMETER"
  BY SMT DEF CalledForAs
<1> QED BY <1>1, <1>2, <1>3

LEMMA OrderInStep ==
  ASSUME selectorIndex \in OrderMethods, OrderPlace PROVE next_param = CalledFor
<1>1. CASE AtOrderField
  <2>1. field \in DOMAIN OrderStart
    BY <1>1, OrderField, Zenon DEF AtOrderField
  <2> QED BY <1>1, <2>1, OrderCalledForStart, Zenon DEF AtOrderField, CalledFor
<1>2. CASE InAssetData
  BY <1>2, OrderCalledForWithin, Zenon DEF InAssetData, CalledFor
<1>3. CASE InOrderTail
  BY <1>3, OrderCalledForWithin, Zenon DEF InOrderTail, CalledFor
<1>4. CASE AtOrdersEnd
  BY <1>4, OrderCalledForWithin, Zenon DEF AtOrdersEnd, CalledFor
<1> QED BY <1>1, <1>2, <1>3, <1>4, Zenon DEF OrderPlace

LEMMA AssetsOnly ==
  \A f \in DOMAIN OrderStart :
    OrderStart[f] \in {"MAKE_ASSET", "TAKE_ASSET"} => f \in AssetFields
  BY SMT DEF OrderStart, AssetFields, MakeAsset, TakeAsset

LEMMA OrderSubPart ==
  ASSUME selectorIndex \in OrderMethods, OrderPlace,
         next_param \in {"MAKE_ASSET", "TAKE_ASSET"}
  PROVE  sub_param = SubPartCalledFor
<1>1. CASE AtOrderField
  <2>1. field \in DOMAIN OrderStart
    BY <1>1, OrderField, Zenon DEF AtOrderField
  <2>2. field \in AssetFields
    BY <1>1, <2>1, AssetsOnly, Zenon DEF AtOrderField
  <2>3. sub_param = SubStart[field] /\ part = FirstPart(field)
    BY <1>1, <2>2, Zenon DEF AtOrderField
  <2>4. CASE field \in AssetData
    <3>1. part = "length"
      BY <2>1, <2>3, <2>4, OrderFirstParts, Zenon
    <3>2. SubStart[field] = "ASSET_DATA_LENGTH"
      BY <2>4, SMT DEF AssetData, SubStart
    <3> QED BY <2>3, <3>1, <3>2, SMT DEF SubPartCalledFor
  <2>5. CASE field \notin AssetData
    <3>1. part = "static"
      <4>1. field \notin AssetData \cup OrderTails
        BY <2>2, <2>5, SMT DEF OrderTails, AssetFields, MakeAsset, TakeAsset
      <4> QED BY <2>1, <2>3, <4>1, OrderFirstParts, Zenon
    <3>2. SubStart[field] = AssetPart[field]
      BY <2>2, <2>5, SMT DEF AssetData, AssetFields, MakeAsset, TakeAsset, SubStart, AssetPart
    <3> QED BY <2>3, <3>1, <3>2, SMT DEF SubPartCalledFor
  <2> QED BY <2>4, <2>5
<1>2. CASE InAssetData
  BY <1>2, SMT DEF InAssetData, SubPartCalledFor
<1>3. CASE InOrderTail \/ AtOrdersEnd
  <2>1. next_param \in {"DATA", "SIGNATURE", "UNEXPECTED_PARAMETER"}
    BY <1>3, Zenon DEF InOrderTail, AtOrdersEnd
  <2> QED BY <2>1, SMT
<1> QED BY <1>1, <1>2, <1>3, Zenon DEF OrderPlace

LEMMA OrderSide ==
  ASSUME TypeOK, OnItsSide, selectorIndex = "MATCH_ORDERS"
  PROVE  body.order_side = SideCalledFor
<1>1. Len(Order("MAKER", "TAKER")) = 20
  BY OrderEntries
<1>2. pos \in Nat
  BY Zenon DEF TypeOK
<1>3. SideCalledFor = IF pos <= 4 THEN NO_ORDER
                      ELSE IF pos <= 4 + (20 + 1) THEN LEFT_ORDER
                      ELSE IF pos <= 4 + 2 * (20 + 1) THEN RIGHT_ORDER ELSE ERROR_ORDER
  BY <1>1, Zenon DEF SideCalledFor
<1>4. 4 + (20 + 1) = 25 /\ 4 + 2 * (20 + 1) = 46
  BY SMT
<1>5. SideCalledFor = SideAt(pos)
  BY <1>3, <1>4, Zenon DEF SideAt
<1> QED BY <1>5, Zenon DEF OnItsSide

LEMMA OrderCountdown ==
  ASSUME selectorIndex \in OrderMethods, OrderPlace PROVE CountdownExact
<1>1. CASE AtOrderField
  <2>1. part \notin {"chunk", "first", "second", "offset"} /\ ~(qty > 0)
    <3>1. field \in DOMAIN OrderStart /\ part = FirstPart(field) /\ qty = 0
      BY <1>1, OrderField, Zenon DEF AtOrderField
    <3>2. part \in {"length", "static"}
      BY <3>1, OrderFirstParts, Zenon
    <3> QED BY <3>1, <3>2, SMT
  <2> QED BY <2>1, SMT DEF CountdownExact
<1>2. CASE InAssetData \/ InOrderTail
  <2>1. /\ part = "chunk" /\ field \in AssetData \cup OrderTails /\ qty = 0
        /\ counter = WordsLeft
    BY <1>2, Zenon DEF InAssetData, InOrderTail, WordsLeft
  <2>2. field \notin {"NAME", "SYMBOL", "MINT_URI", "TRANSFER_URI", "SIGNATURES"}
    BY <2>1, SMT DEF AssetData, OrderTails
  <2> QED BY <2>1, <2>2, SMT DEF CountdownExact
<1>3. CASE AtOrdersEnd
  BY <1>3, SMT DEF AtOrdersEnd, CountdownExact
<1> QED BY <1>1, <1>2, <1>3, Zenon DEF OrderPlace

LEMMA OrderInvMeans ==
  ASSUME TypeOK, OrderInv, selectorIndex \in OrderMethods
  PROVE  InStep /\ CountdownExact /\ ShownMatchesCalldata /\ RefusedExactly
<1>1. InStep
  BY OrderInStep, OrderSubPart, OrderSide, Zenon DEF OrderInv, InStep
<1>2. result # "OK" => CountdownExact
  BY Zenon DEF CountdownExact
<1>3. CountdownExact
  BY <1>2, OrderCountdown, Zenon DEF OrderInv
<1> QED BY <1>1, <1>3, Zenon DEF OrderInv, ShownMatchesCalldata

(* A cancel or a match whose orders carry data, and whose signatures are   *)
(* not empty, is taken for what it is, whatever the data of its four (two) *)
(* assets, empty or not: the parser that is run through twice, with a      *)
(* parser of an asset run through twice inside it, is in the right order,  *)
(* the right asset and the right part of it at every word, each maker and  *)
(* taker is kept as that of its own order, and nothing is refused but a    *)
(* length that is too large and a word beyond the end.                     *)
THEOREM OrderMethodsSafe ==
  NoEmptyOrderParts =>
    (Spec => [](selectorIndex \in OrderMethods =>
                  InStep /\ CountdownExact /\ ShownMatchesCalldata /\ RefusedExactly))
<1> SUFFICES ASSUME NoEmptyOrderParts
             PROVE  Spec => [](selectorIndex \in OrderMethods =>
                      InStep /\ CountdownExact /\ ShownMatchesCalldata /\ RefusedExactly)
  OBVIOUS
<1>1. Init => OrderInv
  BY OrderInit
<1>2. TypeOK /\ OrderInv /\ [Next]_vars => OrderInv'
  BY OrderStep, OrderUnchanged, Zenon
<1>3. TypeOK /\ OrderInv =>
        (selectorIndex \in OrderMethods =>
           InStep /\ CountdownExact /\ ShownMatchesCalldata /\ RefusedExactly)
  BY OrderInvMeans, Zenon
<1>4. Spec => []TypeOK
  BY TypeCorrect
<1> QED BY <1>1, <1>2, <1>3, <1>4, PTL DEF Spec
=============================================================================
