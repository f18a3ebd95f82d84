------------------------- MODULE ParameterFeedTypes -------------------------
(***************************************************************************)
(* Proof that TypeOK is an invariant of ParameterFeed, for every method    *)
(* and all values of the constants: whatever the calldata, empty strings   *)
(* included, a counter that is decremented below zero wraps within its     *)
(* uint16_t, a text stays within its buffer and next_param within the enum.*)
(* At the end, what the proofs about the methods need of the encoder.      *)
(***************************************************************************)
EXTENDS ParameterFeed, ContextTypes

LEMMA WordsAreNaturals == WordsToSend \subseteq Nat
<1>1. 0..(AddressModulus - 1) \subseteq Nat
  BY AddressAssumption, SMT
<1>2. {0, 1} \subseteq Nat
  BY SMT
<1> QED BY <1>1, <1>2, CalldataAssumption, Zenon DEF WordsToSend

CalldataTypeOK ==
  /\ pos \in Nat /\ len \in Nat /\ qty \in Nat /\ sent \in Nat /\ done \in Nat
  /\ part \in {"static", "length", "chunk", "quantity", "first", "second", "offset", "end"}

(* The encoder stays within its types. *)
LEMMA EncodeWordType ==
  ASSUME CalldataTypeOK, NEW w \in Nat, EncodeWord(w) PROVE CalldataTypeOK'
<1>1. NextField => CalldataTypeOK'
  BY SMT DEF CalldataTypeOK, NextField, FirstPart
<1>2. EndOfString => CalldataTypeOK'
  BY <1>1, SMT DEF CalldataTypeOK, EndOfString
<1>3. EndOfElement => CalldataTypeOK'
  BY <1>1, SMT DEF CalldataTypeOK, EndOfElement
<1>4. CASE StaticWord(w)  BY <1>1, <1>4, Zenon DEF StaticWord
<1>5. CASE LengthWord(w)  BY <1>2, <1>5, Zenon DEF LengthWord, CalldataTypeOK
<1>6. CASE ChunkWord(w)  BY <1>2, <1>6, SMT DEF ChunkWord, CalldataTypeOK
<1>7. CASE QuantityWord(w)  BY <1>1, <1>7, Zenon DEF QuantityWord, CalldataTypeOK
<1>8. CASE OffsetWord(w)  BY <1>3, <1>8, Zenon DEF OffsetWord
<1>9. CASE FirstWord(w)  BY <1>3, <1>9, Zenon DEF FirstWord, CalldataTypeOK
<1>10. CASE SecondWord(w)  BY <1>3, <1>10, Zenon DEF SecondWord
<1>11. CASE SurplusWord(w)
  BY <1>11, Zenon DEF SurplusWord, calldataVars, CalldataTypeOK
<1> QED BY <1>4, <1>5, <1>6, <1>7, <1>8, <1>9, <1>10, <1>11, Zenon DEF EncodeWord

(* So is a transaction that has just begun. *)
LEMMA InitType == Init => TypeOK
<1> SUFFICES ASSUME Init PROVE TypeOK
  OBVIOUS
<1>1. selectorIndex \in SelectorNames
  BY SelectorsAssumption, Zenon DEF Init
<1>2. ContextTypeOK
  BY <1>1, FreshContext, Zenon DEF ContextTypeOK, Init
<1>3. /\ pos \in Nat /\ len \in Nat /\ qty \in Nat /\ sent \in Nat /\ done \in Nat
      /\ part = "static"
  BY SMT DEF Init, StartCalldata
<1> QED BY <1>2, <1>3, Zenon DEF TypeOK, Init

LEMMA NextType == TypeOK /\ [Next]_vars => TypeOK'
<1> SUFFICES ASSUME TypeOK, [Next]_vars PROVE TypeOK'
  OBVIOUS
<1>1. CASE Next
  <2>1. PICK w \in WordsToSend :
          EncodeWord(w) /\ handle_provide_parameter(w) /\ refusable' = MustRefuse(w)
    BY <1>1, Zenon DEF Next, Feed
  <2>2. w \in Nat
    BY WordsAreNaturals, Zenon
  <2>3. ContextTypeOK' /\ selectorIndex' = selectorIndex /\ result' \in {"OK", "ERROR"}
    BY <2>1, <2>2, ProvideParameterType, Zenon DEF TypeOK
  <2>4. CalldataTypeOK'
    BY <2>1, <2>2, EncodeWordType, Zenon DEF TypeOK, CalldataTypeOK
  <2>5. refusable' \in BOOLEAN
    BY <2>1, Zenon DEF MustRefuse
  <2> QED BY <2>3, <2>4, <2>5, Zenon DEF TypeOK, CalldataTypeOK
<1>2. CASE UNCHANGED vars
  <2>1. ContextTypeOK'
    BY <1>2, Zenon DEF vars, contextVars, context, TypeOK, ContextTypeOK
  <2>2. UNCHANGED <<selectorIndex, result, pos, part, len, qty, sent, done, refusable>>
    BY <1>2, Zenon DEF vars, contextVars, context, calldataVars
  <2> QED BY <2>1, <2>2, Zenon DEF TypeOK
<1> QED BY <1>1, <1>2, Zenon

(* No transaction takes the context out of its C types: a counter holds a  *)
(* uint16_t whatever lengths the calldata claims (where C wraps, it wraps) *)
(* and the switch on next_param never meets a value that is not of the     *)
(* enum.                                                                   *)
THEOREM TypeCorrect == Spec => []TypeOK
<1> QED BY InitType, NextType, PTL DEF Spec

-----------------------------------------------------------------------------
(* Facts about the encoder that the proofs about each method rest on.      *)

LEMMA WordOfPart ==
  ASSUME NEW w, EncodeWord(w)
  PROVE  /\ part = "static" => StaticWord(w)
         /\ part = "length" => LengthWord(w)
         /\ part = "chunk" => ChunkWord(w)
         /\ part = "quantity" => QuantityWord(w)
         /\ part = "offset" => OffsetWord(w)
         /\ part = "first" => FirstWord(w)
         /\ part = "second" => SecondWord(w)
         /\ part = "end" => SurplusWord(w)
  BY SMT DEF EncodeWord, StaticWord, LengthWord, ChunkWord, QuantityWord, OffsetWord,
     FirstWord, SecondWord, SurplusWord

LEMMA AddressesFit == \A a \in Addresses : copy_address(a) = a
<1>1. AddressModulus \in Nat /\ AddressModulus > 0
  BY AddressAssumption, Bounds, SMT
<1>2. \A a \in 0..(AddressModulus - 1) : copy_address(a) = a
  BY <1>1, SMT DEF copy_address
<1> QED BY <1>2, CalldataAssumption, Zenon

(* Where the encoder is after the last word of a field. *)
LEMMA NextFieldMoves ==
  ASSUME NEW L, L = Layout[selectorIndex], selectorIndex' = selectorIndex,
         Len(L) \in Nat, pos \in 1..Len(L), NextField
  PROVE  /\ len' = 0 /\ qty' = 0 /\ sent' = 0 /\ done' = 0
         /\ pos = Len(L) => part' = "end"
         /\ pos # Len(L) =>
              pos' \in 1..Len(L) /\ field' = L[pos + 1] /\ part' = FirstPart(L[pos + 1])
<1>1. /\ pos' = pos + 1 /\ len' = 0 /\ qty' = 0 /\ sent' = 0 /\ done' = 0
      /\ part' = IF pos = Len(L) THEN "end" ELSE FirstPart(L[pos + 1])
  BY Zenon DEF NextField
<1>2. field' = L[pos + 1]
  BY <1>1, Zenon DEF field
<1>3. pos # Len(L) => pos' \in 1..Len(L)
  BY <1>1, SMT
<1> QED BY <1>1, <1>2, <1>3, Zenon

LEMMA WordsOfNat == \A n \in Nat : WordsOf(n) \in Nat /\ (n > 0 => WordsOf(n) > 0)
  BY SMT DEF WordsOf

(* An assignment to a member of the body leaves the others alone. *)
LEMMA Assigned ==
  ASSUME NEW b, NEW x \in DOMAIN b, NEW v, NEW c, c = [b EXCEPT ![x] = v]
  PROVE  c[x] = v /\ DOMAIN c = DOMAIN b /\ \A y \in DOMAIN b \ {x} : c[y] = b[y]
  BY Zenon

LEMMA TwoAssigned ==
  ASSUME NEW b, NEW x \in DOMAIN b, NEW y \in DOMAIN b, x # y, NEW u, NEW v, NEW c,
         c = [b EXCEPT ![x] = u, ![y] = v]
  PROVE  /\ c[x] = u /\ c[y] = v /\ DOMAIN c = DOMAIN b
         /\ \A z \in DOMAIN b \ {x, y} : c[z] = b[z]
<1> DEFINE d == [b EXCEPT ![x] = u]
<1>1. d[x] = u /\ DOMAIN d = DOMAIN b /\ \A z \in DOMAIN b \ {x} : d[z] = b[z]
  BY Assigned, Zenon
<1>2. c = [d EXCEPT ![y] = v]
  BY Zenon
<1> HIDE DEF d
<1>3. c[y] = v /\ DOMAIN c = DOMAIN d /\ \A z \in DOMAIN d \ {y} : c[z] = d[z]
  BY <1>1, <1>2, Assigned, Zenon
<1> QED BY <1>1, <1>3, Zenon

(* The encoder is within field number pos. *)
InField == pos \in 1..Len(Layout[selectorIndex]) /\ part # "end"

LEMMA StaysInField ==
  ASSUME InField, selectorIndex' = selectorIndex, pos' = pos, part' # "end"
  PROVE  InField' /\ field' = field
  BY Zenon DEF InField, field

(* A count that a uint16_t holds counts down. *)
LEMMA CountsDown == \A n \in Nat : n > 0 => Minus1(n) = n - 1
  BY SMT DEF Minus1

(* What is left of a count of a elements, b of which are taken, when one   *)
(* more is.                                                                *)
LEMMA OneFewer ==
  ASSUME NEW a \in Nat, NEW b \in Nat, b < a
  PROVE  /\ Minus1(a - b) = a - (b + 1)
         /\ a - (b + 1) = 0 <=> ~(b + 1 < a)
         /\ a - b = 1 <=> b + 1 = a
         /\ b + 1 = a <=> ~(b + 1 < a)
         /\ b + 1 \in Nat
<1>1. a - b \in Nat /\ a - b > 0
  BY SMT
<1>2. Minus1(a - b) = (a - b) - 1
  BY <1>1, CountsDown, Zenon
<1> QED BY <1>2, SMT

LEMMA CountIsRefused ==
  ASSUME NEW w \in Nat, part \in {"length", "quantity"} PROVE MustRefuse(w) <=> ~FitsU16(w)
<1>1. U16 \in Nat
  BY Bounds
<1>2. w >= U16 <=> ~(w < U16)
  BY <1>1, SMT
<1> QED BY <1>2, SMT DEF MustRefuse, FitsU16
=============================================================================
