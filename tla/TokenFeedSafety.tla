-------------------------- MODULE TokenFeedSafety --------------------------
(***************************************************************************)
(* Proof that the parser of create_token, of the ERC-721 initializer and   *)
(* of setApprovalForAll keeps in step with any calldata: the inductive     *)
(* invariant of InStep, CountdownExact, ShownMatchesCalldata and           *)
(* RefusedExactly for these methods.                                       *)
(***************************************************************************)
EXTENDS ParameterFeedTypes

TokenMethods == {"CREATE_TOKEN", "ERC721_RARIBLE_INIT", "SET_APPROVED_FOR_ALL"}

(* The fields of these methods, and the parameter each starts with. *)
StartParam ==
  [NAME_OFFSET |-> "NAME_OFFSET", SYMBOL_OFFSET |-> "SYMBOL_OFFSET",
   BASE_URI_OFFSET |-> "BASE_URI_OFFSET", CONTRACT_URI_OFFSET |-> "CONTRACT_URI_OFFSET",
   OPERATORS_OFFSET |-> "OPERATORS_OFFSET", SALT |-> "SALT",
   TRANSFER_PROXY |-> "TRANSFER_PROXY_ADDRESS",
   LAZY_TRANSFER_PROXY |-> "LAZY_TRANSFER_PROXY_ADDRESS",
   NAME |-> "NAME_LENGTH", SYMBOL |-> "SYMBOL_LENGTH", BASE_URI |-> "BASE_URI_LENGTH",
   CONTRACT_URI |-> "CONTRACT_URI_LENGTH", OPERATORS |-> "OPERATORS_QTY",
   OPERATOR |-> "TO", APPROVED |-> "IS_APPROVED"]
Strings == {"NAME", "SYMBOL", "BASE_URI", "CONTRACT_URI"}
Statics == DOMAIN StartParam \ (Strings \cup {"OPERATORS"})

LEMMA CreateLayout ==
  /\ Len(Layout["CREATE_TOKEN"]) = 11
  /\ Layout["CREATE_TOKEN"][1] = "NAME_OFFSET"
  /\ Layout["CREATE_TOKEN"][2] = "SYMBOL_OFFSET"
  /\ Layout["CREATE_TOKEN"][3] = "BASE_URI_OFFSET"
  /\ Layout["CREATE_TOKEN"][4] = "CONTRACT_URI_OFFSET"
  /\ Layout["CREATE_TOKEN"][5] = "OPERATORS_OFFSET"
  /\ Layout["CREATE_TOKEN"][6] = "SALT"
  /\ Layout["CREATE_TOKEN"][7] = "NAME"
  /\ Layout["CREATE_TOKEN"][8] = "SYMBOL"
  /\ Layout["CREATE_TOKEN"][9] = "BASE_URI"
  /\ Layout["CREATE_TOKEN"][10] = "CONTRACT_URI"
  /\ Layout["CREATE_TOKEN"][11] = "OPERATORS"
  BY SMT DEF Layout

LEMMA InitLayout ==
  /\ Len(Layout["ERC721_RARIBLE_INIT"]) = 10
  /\ Layout["ERC721_RARIBLE_INIT"][1] = "NAME_OFFSET"
  /\ Layout["ERC721_RARIBLE_INIT"][2] = "SYMBOL_OFFSET"
  /\ Layout["ERC721_RARIBLE_INIT"][3] = "BASE_URI_OFFSET"
  /\ Layout["ERC721_RARIBLE_INIT"][4] = "CONTRACT_URI_OFFSET"
  /\ Layout["ERC721_RARIBLE_INIT"][5] = "TRANSFER_PROXY"
  /\ Layout["ERC721_RARIBLE_INIT"][6] = "LAZY_TRANSFER_PROXY"
  /\ Layout["ERC721_RARIBLE_INIT"][7] = "NAME"
  /\ Layout["ERC721_RARIBLE_INIT"][8] = "SYMBOL"
  /\ Layout["ERC721_RARIBLE_INIT"][9] = "BASE_URI"
  /\ Layout["ERC721_RARIBLE_INIT"][10] = "CONTRACT_URI"
  BY SMT DEF Layout

LEMMA ApprovalLayout ==
  /\ Len(Layout["SET_APPROVED_FOR_ALL"]) = 2
  /\ Layout["SET_APPROVED_FOR_ALL"][1] = "OPERATOR"
  /\ Layout["SET_APPROVED_FOR_ALL"][2] = "APPROVED"
  BY SMT DEF Layout

LEMMA TokenFields ==
  \A sel \in TokenMethods :
    /\ Len(Layout[sel]) \in Nat /\ Len(Layout[sel]) > 0
    /\ \A p \in 1..Len(Layout[sel]) : Layout[sel][p] \in DOMAIN StartParam
<1>1. /\ Len(Layout["CREATE_TOKEN"]) = 11
      /\ \A p \in 1..11 : Layout["CREATE_TOKEN"][p] \in DOMAIN StartParam
  BY CreateLayout, SMT DEF StartParam
<1>2. /\ Len(Layout["ERC721_RARIBLE_INIT"]) = 10
      /\ \A p \in 1..10 : Layout["ERC721_RARIBLE_INIT"][p] \in DOMAIN StartParam
  BY InitLayout, SMT DEF StartParam
<1>3. /\ Len(Layout["SET_APPROVED_FOR_ALL"]) = 2
      /\ \A p \in 1..2 : Layout["SET_APPROVED_FOR_ALL"][p] \in DOMAIN StartParam
  BY ApprovalLayout, SMT DEF StartParam
<1> DEFINE L == Layout
<1>4. /\ Len(L["CREATE_TOKEN"]) = 11
      /\ \A p \in 1..Len(L["CREATE_TOKEN"]) : L["CREATE_TOKEN"][p] \in DOMAIN StartParam
  BY <1>1, Zenon
<1>5. /\ Len(L["ERC721_RARIBLE_INIT"]) = 10
      /\ \A p \in 1..Len(L["ERC721_RARIBLE_INIT"]) :
           L["ERC721_RARIBLE_INIT"][p] \in DOMAIN StartParam
  BY <1>2, Zenon
<1>6. /\ Len(L["SET_APPROVED_FOR_ALL"]) = 2
      /\ \A p \in 1..Len(L["SET_APPROVED_FOR_ALL"]) :
           L["SET_APPROVED_FOR_ALL"][p] \in DOMAIN StartParam
  BY <1>3, Zenon
<1> HIDE DEF L
<1>7. \A sel \in TokenMethods :
        /\ Len(L[sel]) = 11 \/ Len(L[sel]) = 10 \/ Len(L[sel]) = 2
        /\ \A p \in 1..Len(L[sel]) : L[sel][p] \in DOMAIN StartParam
  BY <1>4, <1>5, <1>6, Zenon DEF TokenMethods
<1>8. \A sel \in TokenMethods : Len(L[sel]) \in Nat /\ Len(L[sel]) > 0
  <2>1. \A n : n = 11 \/ n = 10 \/ n = 2 => n \in Nat /\ n > 0
    BY SMT
  <2> QED BY <1>7, <2>1, Zenon
<1> QED BY <1>7, <1>8, Zenon DEF L

LEMMA FieldKinds ==
  \A f \in DOMAIN StartParam :
    /\ f \in ByteStrings <=> f \in Strings
    /\ f \in Lists <=> f = "OPERATORS"
    /\ f # "SIGNATURES" /\ f # "ROYALTIES"
  BY SMT DEF StartParam, ByteStrings, Lists, Strings

LEMMA FirstParts ==
  \A f \in DOMAIN StartParam :
    FirstPart(f) = IF f \in Strings THEN "length"
                   ELSE IF f = "OPERATORS" THEN "quantity" ELSE "static"
  BY FieldKinds, SMT DEF FirstPart

(* The parameter called for at the start of a field, and within it. *)
LEMMA CalledForStart ==
  \A f \in DOMAIN StartParam : CalledForAs(FirstPart(f), f) = StartParam[f]
<1> SUFFICES ASSUME NEW f \in DOMAIN StartParam
             PROVE CalledForAs(FirstPart(f), f) = StartParam[f]
  OBVIOUS
<1>1. CASE f \in Strings
  BY <1>1, SMT DEF Strings, FirstPart, CalledForAs, StartParam, ByteStrings, MakeAsset,
     TakeAsset, LengthParam
<1>2. CASE f = "OPERATORS"
  BY <1>2, SMT DEF FirstPart, CalledForAs, StartParam, ByteStrings, Lists, MakeAsset,
     TakeAsset, QuantityParam
<1>3. CASE f \in Statics
  BY <1>3, SMT DEF Statics, Strings, FirstPart, CalledForAs, StartParam, ByteStrings, Lists,
     MakeAsset, TakeAsset, Renamed
<1> QED BY <1>1, <1>2, <1>3 DEF Statics

LEMMA CalledForWithin ==
  /\ \A f \in Strings : CalledForAs("chunk", f) = f
  /\ CalledForAs("first", "OPERATORS") = "OPERATORS_ADDRESS"
  /\ \A f : CalledForAs("end", f) = "UNEXPECTED_PARAMETER"
  BY SMT DEF CalledForAs, Strings, MakeAsset, TakeAsset, ChunkParam, FirstParam

(* The parameter called for when field number p starts. *)
StartAt(sel, p) ==
  IF p = Len(Layout[sel]) + 1 THEN "UNEXPECTED_PARAMETER" ELSE StartParam[Layout[sel][p]]

(* What follows each string. *)
AfterString(end) ==
  [NAME |-> "SYMBOL_LENGTH", SYMBOL |-> "BASE_URI_LENGTH",
   BASE_URI |-> "CONTRACT_URI_LENGTH", CONTRACT_URI |-> end]

LEMMA CreateFields ==
  \A p \in 1..11 : \A f : f = Layout["CREATE_TOKEN"][p] =>
    /\ f \in DOMAIN create_token_head \/ f \in Strings \/ f = "OPERATORS"
    /\ f \in DOMAIN create_token_head =>
         StartAt("CREATE_TOKEN", p + 1) = create_token_head[f] /\ StartParam[f] = f
    /\ f \in Strings => StartAt("CREATE_TOKEN", p + 1) = AfterString("OPERATORS_QTY")[f]
    /\ f = "OPERATORS" => StartAt("CREATE_TOKEN", p + 1) = "UNEXPECTED_PARAMETER"
<1> DEFINE L == Layout["CREATE_TOKEN"]
<1>1. /\ Len(L) = 11 /\ L[1] = "NAME_OFFSET" /\ L[2] = "SYMBOL_OFFSET"
      /\ L[3] = "BASE_URI_OFFSET" /\ L[4] = "CONTRACT_URI_OFFSET"
      /\ L[5] = "OPERATORS_OFFSET" /\ L[6] = "SALT" /\ L[7] = "NAME" /\ L[8] = "SYMBOL"
      /\ L[9] = "BASE_URI" /\ L[10] = "CONTRACT_URI" /\ L[11] = "OPERATORS"
  BY CreateLayout
<1>2. \A p : StartAt("CREATE_TOKEN", p) =
               IF p = Len(L) + 1 THEN "UNEXPECTED_PARAMETER" ELSE StartParam[L[p]]
  BY DEF StartAt
<1> HIDE DEF L
<1>3. \A p \in 1..11 : \A f : f = L[p] =>
        /\ f \in DOMAIN create_token_head \/ f \in Strings \/ f = "OPERATORS"
        /\ f \in DOMAIN create_token_head =>
             StartAt("CREATE_TOKEN", p + 1) = create_token_head[f] /\ StartParam[f] = f
        /\ f \in Strings => StartAt("CREATE_TOKEN", p + 1) = AfterString("OPERATORS_QTY")[f]
        /\ f = "OPERATORS" => StartAt("CREATE_TOKEN", p + 1) = "UNEXPECTED_PARAMETER"
  BY <1>1, <1>2, SMTT(30) DEF create_token_head, StartParam, Strings, AfterString
<1> QED BY <1>3 DEF L

LEMMA InitFields ==
  \A p \in 1..10 : \A f : f = Layout["ERC721_RARIBLE_INIT"][p] =>
    /\ \/ f \in DOMAIN rarible_init_head \/ f \in Strings
       \/ f = "TRANSFER_PROXY" \/ f = "LAZY_TRANSFER_PROXY"
    /\ f \in DOMAIN rarible_init_head =>
         /\ StartAt("ERC721_RARIBLE_INIT", p + 1) = rarible_init_head[f]
         /\ StartParam[f] = f
    /\ f \in Strings =>
         StartAt("ERC721_RARIBLE_INIT", p + 1) = AfterString("UNEXPECTED_PARAMETER")[f]
    /\ f = "TRANSFER_PROXY" =>
         StartAt("ERC721_RARIBLE_INIT", p + 1) = "LAZY_TRANSFER_PROXY_ADDRESS"
    /\ f = "LAZY_TRANSFER_PROXY" => StartAt("ERC721_RARIBLE_INIT", p + 1) = "NAME_LENGTH"
<1> DEFINE L == Layout["ERC721_RARIBLE_INIT"]
<1>1. /\ Len(L) = 10 /\ L[1] = "NAME_OFFSET" /\ L[2] = "SYMBOL_OFFSET"
      /\ L[3] = "BASE_URI_OFFSET" /\ L[4] = "CONTRACT_URI_OFFSET"
      /\ L[5] = "TRANSFER_PROXY" /\ L[6] = "LAZY_TRANSFER_PROXY" /\ L[7] = "NAME"
      /\ L[8] = "SYMBOL" /\ L[9] = "BASE_URI" /\ L[10] = "CONTRACT_URI"
  BY InitLayout
<1>2. \A p : StartAt("ERC721_RARIBLE_INIT", p) =
               IF p = Len(L) + 1 THEN "UNEXPECTED_PARAMETER" ELSE StartParam[L[p]]
  BY DEF StartAt
<1> HIDE DEF L
<1>3. \A p \in 1..10 : \A f : f = L[p] =>
        /\ \/ f \in DOMAIN rarible_init_head \/ f \in Strings
           \/ f = "TRANSFER_PROXY" \/ f = "LAZY_TRANSFER_PROXY"
        /\ f \in DOMAIN rarible_init_head =>
             /\ StartAt("ERC721_RARIBLE_INIT", p + 1) = rarible_init_head[f]
             /\ StartParam[f] = f
        /\ f \in Strings =>
             StartAt("ERC721_RARIBLE_INIT", p + 1) = AfterString("UNEXPECTED_PARAMETER")[f]
        /\ f = "TRANSFER_PROXY" =>
             StartAt("ERC721_RARIBLE_INIT", p + 1) = "LAZY_TRANSFER_PROXY_ADDRESS"
        /\ f = "LAZY_TRANSFER_PROXY" =>
             StartAt("ERC721_RARIBLE_INIT", p + 1) = "NAME_LENGTH"
  BY <1>1, <1>2, SMTT(30) DEF rarible_init_head, StartParam, Strings, AfterString
<1> QED BY <1>3 DEF L

LEMMA ApprovalFields ==
  \A p \in 1..2 : \A f : f = Layout["SET_APPROVED_FOR_ALL"][p] =>
    /\ f \in {"OPERATOR", "APPROVED"}
    /\ f = "OPERATOR" => StartAt("SET_APPROVED_FOR_ALL", p + 1) = "IS_APPROVED"
    /\ f = "APPROVED" => StartAt("SET_APPROVED_FOR_ALL", p + 1) = "UNEXPECTED_PARAMETER"
<1> DEFINE L == Layout["SET_APPROVED_FOR_ALL"]
<1>1. Len(L) = 2 /\ L[1] = "OPERATOR" /\ L[2] = "APPROVED"
  BY ApprovalLayout
<1>2. \A p : StartAt("SET_APPROVED_FOR_ALL", p) =
               IF p = Len(L) + 1 THEN "UNEXPECTED_PARAMETER" ELSE StartParam[L[p]]
  BY DEF StartAt
<1> HIDE DEF L
<1>3. \A p \in 1..2 : \A f : f = L[p] =>
        /\ f \in {"OPERATOR", "APPROVED"}
        /\ f = "OPERATOR" => StartAt("SET_APPROVED_FOR_ALL", p + 1) = "IS_APPROVED"
        /\ f = "APPROVED" => StartAt("SET_APPROVED_FOR_ALL", p + 1) = "UNEXPECTED_PARAMETER"
  BY <1>1, <1>2, SMT DEF StartParam
<1> QED BY <1>3 DEF L
-----------------------------------------------------------------------------
(* The inductive invariant. *)

(* Where the encoder can be. *)
EncoderOK ==
  /\ pos \in 1..(Len(Layout[selectorIndex]) + 1)
  /\ part = "end" <=> pos = Len(Layout[selectorIndex]) + 1
  /\ part # "end" =>
       \/ part = FirstPart(field)
       \/ part = "chunk" /\ field \in Strings /\ len > 0 /\ sent < WordsOf(len)
       \/ part = "first" /\ field = "OPERATORS" /\ sent < qty
  /\ part # "first" => qty = 0
  /\ part \notin {"chunk", "first"} => sent = 0

(* What the parser's memory says of it. *)
ParserOK ==
  /\ next_param = CalledFor
  /\ part = "chunk" => counter = WordsOf(len) - sent
  /\ part = "chunk" /\ field = "NAME" => max_counter = WordsOf(len) /\ body.name_len = len
  /\ part = "chunk" /\ field = "SYMBOL" => max_counter = WordsOf(len) /\ body.symbol_len = len
  /\ part = "first" => counter = qty - sent
  /\ Shown = truth

TokenInv ==
  selectorIndex \in TokenMethods =>
    EncoderOK /\ (result = "OK" => ParserOK) /\ RefusedExactly

(* What a step has to establish. *)
StepOK(w) ==
  EncoderOK' /\ (result' = "OK" => ParserOK') /\ (result' = "ERROR" <=> MustRefuse(w))

-----------------------------------------------------------------------------
(* The encoder moves on to the next field. *)
LEMMA MovesOn ==
  ASSUME selectorIndex \in TokenMethods, selectorIndex' = selectorIndex,
         pos \in 1..Len(Layout[selectorIndex]), NextField
  PROVE  /\ EncoderOK' /\ part' \notin {"chunk", "first"}
         /\ CalledFor' = StartAt(selectorIndex, pos + 1)
<1> DEFINE L == Layout[selectorIndex]
<1>1. Len(L) \in Nat /\ Len(L) > 0 /\ \A p \in 1..Len(L) : L[p] \in DOMAIN StartParam
  BY TokenFields, Zenon
<1>2. /\ pos \in 1..Len(L) /\ pos' = pos + 1 /\ sent' = 0 /\ qty' = 0
      /\ part' = IF pos = Len(L) THEN "end" ELSE FirstPart(L[pos + 1])
      /\ field' = L[pos'] /\ CalledFor' = CalledForAs(part', L[pos'])
  BY Zenon DEF NextField, field, CalledFor
<1>3. EncoderOK' <=>
        /\ pos' \in 1..(Len(L) + 1)
        /\ part' = "end" <=> pos' = Len(L) + 1
        /\ part' # "end" =>
             \/ part' = FirstPart(field')
             \/ part' = "chunk" /\ field' \in Strings /\ len' > 0 /\ sent' < WordsOf(len')
             \/ part' = "first" /\ field' = "OPERATORS" /\ sent' < qty'
        /\ part' # "first" => qty' = 0
        /\ part' \notin {"chunk", "first"} => sent' = 0
  BY Zenon DEF EncoderOK, field, WordsOf
<1>4. StartAt(selectorIndex, pos + 1) =
        IF pos + 1 = Len(L) + 1 THEN "UNEXPECTED_PARAMETER" ELSE StartParam[L[pos + 1]]
  BY DEF StartAt
<1> HIDE DEF L
<1>5. CASE pos = Len(L)
  <2>1. part' = "end" /\ pos' = Len(L) + 1 /\ pos' \in 1..(Len(L) + 1)
    BY <1>1, <1>2, <1>5, SMT
  <2>2. CalledFor' = "UNEXPECTED_PARAMETER"
    BY <1>2, <2>1, CalledForWithin, Zenon
  <2>3. StartAt(selectorIndex, pos + 1) = "UNEXPECTED_PARAMETER"
    BY <1>4, <1>5, Zenon
  <2> QED BY <1>2, <1>3, <2>1, <2>2, <2>3, Zenon
<1>6. CASE pos # Len(L)
  <2>1. /\ pos' \in 1..Len(L) /\ pos' # Len(L) + 1 /\ pos' \in 1..(Len(L) + 1)
        /\ pos + 1 # Len(L) + 1
    BY <1>1, <1>2, <1>6, SMT
  <2>2. L[pos'] \in DOMAIN StartParam /\ part' = FirstPart(L[pos'])
    BY <1>1, <1>2, <1>6, <2>1, Zenon
  <2>3. part' \in {"length", "quantity", "static"}
    BY <2>2, FirstParts, Zenon
  <2>4. CalledFor' = StartParam[L[pos']]
    BY <1>2, <2>2, CalledForStart, Zenon
  <2>5. StartAt(selectorIndex, pos + 1) = StartParam[L[pos']]
    BY <1>2, <1>4, <2>1, Zenon
  <2>6. part' \notin {"chunk", "first", "end"}
    BY <2>3, Zenon
  <2> QED BY <1>2, <1>3, <2>1, <2>2, <2>4, <2>5, <2>6, Zenon
<1> QED BY <1>5, <1>6

(* Then the parser keeps in step when it moves on too. *)
LEMMA MovesOnInStep ==
  ASSUME selectorIndex \in TokenMethods, selectorIndex' = selectorIndex,
         pos \in 1..Len(Layout[selectorIndex]), NextField,
         next_param' = StartAt(selectorIndex, pos + 1), Shown' = truth'
  PROVE  EncoderOK' /\ ParserOK'
<1>1. EncoderOK' /\ part' \notin {"chunk", "first"} /\ next_param' = CalledFor'
  BY MovesOn, Zenon
<1> QED BY <1>1, Zenon DEF ParserOK

-----------------------------------------------------------------------------
(* A word is about to be taken, by a parser in step. *)
Ready(w) ==
  /\ w \in Nat /\ TypeOK
  /\ selectorIndex \in TokenMethods /\ selectorIndex' = selectorIndex
  /\ EncoderOK /\ ParserOK

(* What the part being sent says of the field and of next_param. *)
LEMMA WhereReady ==
  ASSUME NEW w, Ready(w), part # "end"
  PROVE  /\ pos \in 1..Len(Layout[selectorIndex])
         /\ field \in DOMAIN StartParam
         /\ part \in {"static", "length", "chunk", "quantity", "first"}
         /\ part = "static" => field \in Statics /\ next_param = StartParam[field]
         /\ part = "length" => field \in Strings /\ next_param = StartParam[field]
         /\ part = "quantity" => field = "OPERATORS" /\ next_param = "OPERATORS_QTY"
         /\ part = "chunk" => field \in Strings /\ next_param = field
         /\ part = "first" => field = "OPERATORS" /\ next_param = "OPERATORS_ADDRESS"
         /\ next_param = CalledForAs(part, field)
<1>1. pos \in 1..Len(Layout[selectorIndex])
  BY TokenFields, SMT DEF Ready, EncoderOK
<1>2. field \in DOMAIN StartParam
  BY <1>1, TokenFields, Zenon DEF Ready, field
<1>3. next_param = CalledForAs(part, field)
  BY Zenon DEF Ready, ParserOK, CalledFor
<1>4. CASE part = FirstPart(field)
  <2>1. part = IF field \in Strings THEN "length"
               ELSE IF field = "OPERATORS" THEN "quantity" ELSE "static"
    BY <1>2, <1>4, FirstParts, Zenon
  <2>2. next_param = StartParam[field]
    BY <1>2, <1>3, <1>4, CalledForStart, Zenon
  <2>3. StartParam["OPERATORS"] = "OPERATORS_QTY"
    BY SMT DEF StartParam
  <2> QED BY <1>1, <1>2, <1>3, <2>1, <2>2, <2>3, SMT DEF Statics
<1>5. CASE part = "chunk" /\ field \in Strings
  BY <1>1, <1>2, <1>3, <1>5, CalledForWithin, SMT
<1>6. CASE part = "first" /\ field = "OPERATORS"
  BY <1>1, <1>2, <1>3, <1>6, CalledForWithin, SMT
<1> QED BY <1>4, <1>5, <1>6, Zenon DEF Ready, EncoderOK

(* A length is followed by the next field or by the first chunk. *)
LEMMA LengthEncoded ==
  ASSUME NEW w, Ready(w), part = "length", EncodeWord(w)
  PROVE  /\ truth' = truth
         /\ \/ w = 0 /\ NextField
            \/ /\ w > 0 /\ EncoderOK' /\ part' = "chunk" /\ len' = w /\ sent' = 0
               /\ field' = field /\ CalledFor' = field
<1>1. LengthWord(w)
  BY SMT DEF EncodeWord, StaticWord, ChunkWord, QuantityWord, OffsetWord, FirstWord,
     SecondWord, SurplusWord
<1>2. field \in Strings /\ qty = 0 /\ sent = 0 /\ pos \in 1..Len(Layout[selectorIndex])
  BY WhereReady, Zenon DEF Ready, EncoderOK
<1>3. CASE w = 0 /\ EndOfString
  BY <1>1, <1>2, <1>3, SMT DEF EndOfString, InSignatures, LengthWord
<1>4. CASE w > 0 /\ part' = "chunk" /\ len' = w /\ UNCHANGED <<pos, qty, sent, done>>
  <2>1. field' = field
    BY <1>4, Zenon DEF field, Ready
  <2>2. CalledFor' = field
    BY <1>2, <1>4, <2>1, CalledForWithin, Zenon DEF CalledFor
  <2>3. 0 < WordsOf(w)
    BY <1>4, SMT DEF WordsOf, Ready
  <2>4. EncoderOK'
    <3>1. pos' = pos /\ qty' = 0 /\ sent' = 0 /\ part' # "end" /\ part' # "first"
      BY <1>2, <1>4, Zenon
    <3>2. part # "end"
      OBVIOUS
    <3> QED BY <1>2, <1>4, <2>1, <2>3, <3>1, <3>2, Zenon DEF Ready, EncoderOK, WordsOf
  <2> QED BY <1>1, <1>2, <1>4, <2>1, <2>2, <2>4, Zenon DEF LengthWord
<1> QED BY <1>1, <1>3, <1>4, Zenon DEF LengthWord

(* A chunk is followed by the next one or, when it was the last, by the    *)
(* next field.                                                             *)
LEMMA ChunkEncoded ==
  ASSUME NEW w, Ready(w), part = "chunk", EncodeWord(w)
  PROVE  /\ len \in Nat /\ sent \in Nat /\ sent < WordsOf(len) /\ WordsOf(len) \in Nat
         /\ truth' = IF sent = 0 /\ field \in DOMAIN truth
                     THEN [truth EXCEPT ![field] = copy_text(len, w)] ELSE truth
         /\ \/ sent + 1 = WordsOf(len) /\ NextField
            \/ /\ sent + 1 < WordsOf(len) /\ EncoderOK' /\ part' = "chunk" /\ len' = len
               /\ sent' = sent + 1 /\ field' = field /\ CalledFor' = field
<1>1. ChunkWord(w)
  BY SMT DEF EncodeWord, StaticWord, LengthWord, QuantityWord, OffsetWord, FirstWord,
     SecondWord, SurplusWord
<1>2. field \in Strings /\ qty = 0 /\ len > 0 /\ sent < WordsOf(len)
  <2>1. field \in Strings /\ field \in DOMAIN StartParam
    BY WhereReady, Zenon
  <2>2. FirstPart(field) # "chunk"
    BY <2>1, FirstParts, Zenon
  <2> QED BY <2>1, <2>2, Zenon DEF Ready, EncoderOK
<1>3. len \in Nat /\ sent \in Nat /\ WordsOf(len) \in Nat
  <2>1. len \in Nat /\ sent \in Nat
    BY Zenon DEF Ready, TypeOK
  <2> QED BY <2>1, SMT DEF WordsOf
<1>4. text(IF len > 32 THEN 32 ELSE len, w) = copy_text(len, w)
  BY <1>3, SMT DEF copy_text, PARAMETER_LENGTH, text
<1>5. truth' = IF sent = 0 /\ field \in DOMAIN truth
               THEN [truth EXCEPT ![field] = copy_text(len, w)] ELSE truth
  BY <1>1, <1>4, Zenon DEF ChunkWord, Tell
<1>6. CASE sent + 1 < WordsOf(len)
  <2>1. sent' = sent + 1 /\ UNCHANGED <<pos, part, len, qty, done>>
    BY <1>1, <1>6, Zenon DEF ChunkWord
  <2>2. field' = field
    BY <2>1, Zenon DEF field, Ready
  <2>3. CalledFor' = field
    BY <1>2, <2>1, <2>2, CalledForWithin, Zenon DEF CalledFor
  <2>4. EncoderOK'
    <3>1. pos' = pos /\ part' = "chunk" /\ len' = len /\ qty' = 0
      BY <1>2, <2>1, Zenon
    <3>2. sent' < WordsOf(len')
      BY <1>6, <2>1, Zenon
    <3>3. part' # "end" /\ part' # "first"
      BY <3>1, Zenon
    <3> QED BY <1>2, <2>2, <3>1, <3>2, <3>3, Zenon DEF Ready, EncoderOK, WordsOf
  <2> QED BY <1>2, <1>3, <1>5, <1>6, <2>1, <2>2, <2>3, <2>4, Zenon
<1>7. CASE ~(sent + 1 < WordsOf(len))
  <2>1. NextField
    BY <1>1, <1>2, <1>7, SMT DEF ChunkWord, EndOfString, InSignatures
  <2>2. sent + 1 = WordsOf(len)
    BY <1>2, <1>3, <1>7, SMT
  <2> QED BY <1>2, <1>3, <1>5, <2>1, <2>2, Zenon
<1> QED BY <1>6, <1>7

-----------------------------------------------------------------------------
(* What is shown of a method that has texts. *)
TextMethods == {"CREATE_TOKEN", "ERC721_RARIBLE_INIT"}

LEMMA ShownOf ==
  /\ selectorIndex = "CREATE_TOKEN" =>
       Shown = [NAME |-> body.name_text, SYMBOL |-> body.symbol_text,
                OPERATORS |-> Found(body.operator_found, body.operator)]
  /\ selectorIndex = "ERC721_RARIBLE_INIT" =>
       Shown = [NAME |-> body.name_text, SYMBOL |-> body.symbol_text,
                TRANSFER_PROXY |-> body.transfer_proxy,
                LAZY_TRANSFER_PROXY |-> body.lazy_transfer_proxy]
  /\ selectorIndex = "SET_APPROVED_FOR_ALL" =>
       Shown = [OPERATOR |-> body.to, APPROVED |-> body.isApproved]
  BY SMT DEF Shown

LEMMA ShownOfNext ==
  /\ selectorIndex' = "CREATE_TOKEN" =>
       Shown' = [NAME |-> body'.name_text, SYMBOL |-> body'.symbol_text,
                 OPERATORS |-> Found(body'.operator_found, body'.operator)]
  /\ selectorIndex' = "ERC721_RARIBLE_INIT" =>
       Shown' = [NAME |-> body'.name_text, SYMBOL |-> body'.symbol_text,
                 TRANSFER_PROXY |-> body'.transfer_proxy,
                 LAZY_TRANSFER_PROXY |-> body'.lazy_transfer_proxy]
  /\ selectorIndex' = "SET_APPROVED_FOR_ALL" =>
       Shown' = [OPERATOR |-> body'.to, APPROVED |-> body'.isApproved]
  BY SMT DEF Shown, Found

LEMMA CreateUpdates ==
  ASSUME NEW b \in create_body, NEW v
  PROVE  /\ LET c == [b EXCEPT !["name_len"] = v]
            IN /\ c.name_len = v /\ c.name_text = b.name_text
               /\ c.symbol_text = b.symbol_text /\ c.operator_found = b.operator_found
               /\ c.operator = b.operator
         /\ LET c == [b EXCEPT !["symbol_len"] = v]
            IN /\ c.symbol_len = v /\ c.name_text = b.name_text
               /\ c.symbol_text = b.symbol_text /\ c.operator_found = b.operator_found
               /\ c.operator = b.operator
         /\ LET c == [b EXCEPT !["name_text"] = v]
            IN /\ c.name_len = b.name_len /\ c.name_text = v
               /\ c.symbol_text = b.symbol_text /\ c.operator_found = b.operator_found
               /\ c.operator = b.operator
         /\ LET c == [b EXCEPT !["symbol_text"] = v]
            IN /\ c.symbol_len = b.symbol_len /\ c.name_text = b.name_text
               /\ c.symbol_text = v /\ c.operator_found = b.operator_found
               /\ c.operator = b.operator
<1>1. DOMAIN b = {"operator_found", "operator", "name_len", "name_text", "symbol_len",
                  "symbol_text"}
  BY SMT DEF create_body
<1> QED BY <1>1, Zenon

LEMMA InitUpdates ==
  ASSUME NEW b \in init_body, NEW v
  PROVE  /\ LET c == [b EXCEPT !["name_len"] = v]
            IN /\ c.name_len = v /\ c.name_text = b.name_text
               /\ c.symbol_text = b.symbol_text /\ c.transfer_proxy = b.transfer_proxy
               /\ c.lazy_transfer_proxy = b.lazy_transfer_proxy
         /\ LET c == [b EXCEPT !["symbol_len"] = v]
            IN /\ c.symbol_len = v /\ c.name_text = b.name_text
               /\ c.symbol_text = b.symbol_text /\ c.transfer_proxy = b.transfer_proxy
               /\ c.lazy_transfer_proxy = b.lazy_transfer_proxy
         /\ LET c == [b EXCEPT !["name_text"] = v]
            IN /\ c.name_len = b.name_len /\ c.name_text = v
               /\ c.symbol_text = b.symbol_text /\ c.transfer_proxy = b.transfer_proxy
               /\ c.lazy_transfer_proxy = b.lazy_transfer_proxy
         /\ LET c == [b EXCEPT !["symbol_text"] = v]
            IN /\ c.symbol_len = b.symbol_len /\ c.name_text = b.name_text
               /\ c.symbol_text = v /\ c.transfer_proxy = b.transfer_proxy
               /\ c.lazy_transfer_proxy = b.lazy_transfer_proxy
<1>1. DOMAIN b = {"transfer_proxy", "lazy_transfer_proxy", "name_len", "name_text",
                  "symbol_len", "symbol_text"}
  BY SMT DEF init_body
<1> QED BY <1>1, Zenon

(* A length changes nothing of what is shown, a text the field of its      *)
(* name.                                                                   *)
LEMMA ShownAfter ==
  ASSUME NEW w, Ready(w), selectorIndex \in TextMethods
  PROVE  /\ body' = body => Shown' = Shown
         /\ body' = [body EXCEPT !["name_len"] = w] => Shown' = Shown /\ body'.name_len = w
         /\ body' = [body EXCEPT !["symbol_len"] = w] =>
              Shown' = Shown /\ body'.symbol_len = w
         /\ \A v : body' = [body EXCEPT !["name_text"] = v] =>
              Shown' = [Shown EXCEPT !["NAME"] = v] /\ body'.name_len = body.name_len
         /\ \A v : body' = [body EXCEPT !["symbol_text"] = v] =>
              Shown' = [Shown EXCEPT !["SYMBOL"] = v] /\ body'.symbol_len = body.symbol_len
         /\ {"NAME", "SYMBOL"} \subseteq DOMAIN Shown
         /\ "BASE_URI" \notin DOMAIN Shown /\ "CONTRACT_URI" \notin DOMAIN Shown
<1>1. CASE selectorIndex = "CREATE_TOKEN"
  <2>1. body \in create_body /\ selectorIndex' = "CREATE_TOKEN"
    BY <1>1, Zenon DEF Ready, TypeOK, ContextTypeOK
  <2> DEFINE B == body'
  <2>2. Shown' = [NAME |-> B.name_text, SYMBOL |-> B.symbol_text,
                  OPERATORS |-> Found(B.operator_found, B.operator)]
    BY <2>1, ShownOfNext, Zenon
  <2>3. Shown = [NAME |-> body.name_text, SYMBOL |-> body.symbol_text,
                 OPERATORS |-> Found(body.operator_found, body.operator)]
    BY <1>1, ShownOf, Zenon
  <2> HIDE DEF B
  <2>4. B = body => Shown' = Shown
    BY <2>2, <2>3, Zenon
  <2>5. ASSUME B = [body EXCEPT !["name_len"] = w] PROVE Shown' = Shown /\ B.name_len = w
    <3>1. /\ B.name_len = w /\ B.name_text = body.name_text
          /\ B.symbol_text = body.symbol_text /\ B.operator_found = body.operator_found
          /\ B.operator = body.operator
      BY <2>1, <2>5, CreateUpdates, Zenon
    <3> QED BY <2>2, <2>3, <3>1, Zenon
  <2>6. ASSUME B = [body EXCEPT !["symbol_len"] = w] PROVE Shown' = Shown /\ B.symbol_len = w
    <3>1. /\ B.symbol_len = w /\ B.name_text = body.name_text
          /\ B.symbol_text = body.symbol_text /\ B.operator_found = body.operator_found
          /\ B.operator = body.operator
      BY <2>1, <2>6, CreateUpdates, Zenon
    <3> QED BY <2>2, <2>3, <3>1, Zenon
  <2>7. ASSUME NEW v, B = [body EXCEPT !["name_text"] = v]
        PROVE  Shown' = [Shown EXCEPT !["NAME"] = v] /\ B.name_len = body.name_len
    <3>1. /\ B.name_len = body.name_len /\ B.name_text = v
          /\ B.symbol_text = body.symbol_text /\ B.operator_found = body.operator_found
          /\ B.operator = body.operator
      BY <2>1, <2>7, CreateUpdates, Zenon
    <3>2. Shown' = [NAME |-> v, SYMBOL |-> body.symbol_text,
                    OPERATORS |-> Found(body.operator_found, body.operator)]
      BY <2>2, <3>1, Zenon
    <3> QED BY <2>3, <3>1, <3>2, SMT
  <2>8. ASSUME NEW v, B = [body EXCEPT !["symbol_text"] = v]
        PROVE  Shown' = [Shown EXCEPT !["SYMBOL"] = v] /\ B.symbol_len = body.symbol_len
    <3>1. /\ B.symbol_len = body.symbol_len /\ B.name_text = body.name_text
          /\ B.symbol_text = v /\ B.operator_found = body.operator_found
          /\ B.operator = body.operator
      BY <2>1, <2>8, CreateUpdates, Zenon
    <3>2. Shown' = [NAME |-> body.name_text, SYMBOL |-> v,
                    OPERATORS |-> Found(body.operator_found, body.operator)]
      BY <2>2, <3>1, Zenon
    <3> QED BY <2>3, <3>1, <3>2, SMT
  <2>9. /\ {"NAME", "SYMBOL"} \subseteq DOMAIN Shown
        /\ "BASE_URI" \notin DOMAIN Shown /\ "CONTRACT_URI" \notin DOMAIN Shown
    BY <2>3, SMT
  <2> QED BY <2>4, <2>5, <2>6, <2>7, <2>8, <2>9, Zenon DEF B
<1>2. CASE selectorIndex = "ERC721_RARIBLE_INIT"
  <2>1. body \in init_body /\ selectorIndex' = "ERC721_RARIBLE_INIT"
    BY <1>2, Zenon DEF Ready, TypeOK, ContextTypeOK
  <2> DEFINE B == body'
  <2>2. Shown' = [NAME |-> B.name_text, SYMBOL |-> B.symbol_text,
                  TRANSFER_PROXY |-> B.transfer_proxy,
                  LAZY_TRANSFER_PROXY |-> B.lazy_transfer_proxy]
    BY <2>1, ShownOfNext, Zenon
  <2>3. Shown = [NAME |-> body.name_text, SYMBOL |-> body.symbol_text,
                 TRANSFER_PROXY |-> body.transfer_proxy,
                 LAZY_TRANSFER_PROXY |-> body.lazy_transfer_proxy]
    BY <1>2, ShownOf, Zenon
  <2> HIDE DEF B
  <2>4. B = body => Shown' = Shown
    BY <2>2, <2>3, Zenon
  <2>5. ASSUME B = [body EXCEPT !["name_len"] = w] PROVE Shown' = Shown /\ B.name_len = w
    <3>1. /\ B.name_len = w /\ B.name_text = body.name_text
          /\ B.symbol_text = body.symbol_text /\ B.transfer_proxy = body.transfer_proxy
          /\ B.lazy_transfer_proxy = body.lazy_transfer_proxy
      BY <2>1, <2>5, InitUpdates, Zenon
    <3> QED BY <2>2, <2>3, <3>1, Zenon
  <2>6. ASSUME B = [body EXCEPT !["symbol_len"] = w] PROVE Shown' = Shown /\ B.symbol_len = w
    <3>1. /\ B.symbol_len = w /\ B.name_text = body.name_text
          /\ B.symbol_text = body.symbol_text /\ B.transfer_proxy = body.transfer_proxy
          /\ B.lazy_transfer_proxy = body.lazy_transfer_proxy
      BY <2>1, <2>6, InitUpdates, Zenon
    <3> QED BY <2>2, <2>3, <3>1, Zenon
  <2>7. ASSUME NEW v, B = [body EXCEPT !["name_text"] = v]
        PROVE  Shown' = [Shown EXCEPT !["NAME"] = v] /\ B.name_len = body.name_len
    <3>1. /\ B.name_len = body.name_len /\ B.name_text = v
          /\ B.symbol_text = body.symbol_text /\ B.transfer_proxy = body.transfer_proxy
          /\ B.lazy_transfer_proxy = body.lazy_transfer_proxy
      BY <2>1, <2>7, InitUpdates, Zenon
    <3>2. Shown' = [NAME |-> v, SYMBOL |-> body.symbol_text,
                    TRANSFER_PROXY |-> body.transfer_proxy,
                    LAZY_TRANSFER_PROXY |-> body.lazy_transfer_proxy]
      BY <2>2, <3>1, Zenon
    <3> QED BY <2>3, <3>1, <3>2, SMT
  <2>8. ASSUME NEW v, B = [body EXCEPT !["symbol_text"] = v]
        PROVE  Shown' = [Shown EXCEPT !["SYMBOL"] = v] /\ B.symbol_len = body.symbol_len
    <3>1. /\ B.symbol_len = body.symbol_len /\ B.name_text = body.name_text
          /\ B.symbol_text = v /\ B.transfer_proxy = body.transfer_proxy
          /\ B.lazy_transfer_proxy = body.lazy_transfer_proxy
      BY <2>1, <2>8, InitUpdates, Zenon
    <3>2. Shown' = [NAME |-> body.name_text, SYMBOL |-> v,
                    TRANSFER_PROXY |-> body.transfer_proxy,
                    LAZY_TRANSFER_PROXY |-> body.lazy_transfer_proxy]
      BY <2>2, <3>1, Zenon
    <3> QED BY <2>3, <3>1, <3>2, SMT
  <2>9. /\ {"NAME", "SYMBOL"} \subseteq DOMAIN Shown
        /\ "BASE_URI" \notin DOMAIN Shown /\ "CONTRACT_URI" \notin DOMAIN Shown
    BY <2>3, SMT
  <2> QED BY <2>4, <2>5, <2>6, <2>7, <2>8, <2>9, Zenon DEF B
<1> QED BY <1>1, <1>2 DEF TextMethods

-----------------------------------------------------------------------------
(* The cases of names_and_uris keep in step. *)

LEMMA RefusedLength ==
  ASSUME NEW w, Ready(w), part \in {"length", "quantity"}
  PROVE  MustRefuse(w) <=> ~FitsU16(w)
<1>1. w \in Nat
  BY DEF Ready
<1> QED BY <1>1, Bounds, SMT DEF MustRefuse, FitsU16

LEMMA RefusedNever ==
  ASSUME NEW w, Ready(w), part \in {"static", "chunk", "first"}
  PROVE  ~MustRefuse(w)
  BY Zenon DEF MustRefuse

(* The first chunk is called for: the counters hold the words of the text. *)
LEMMA FirstChunkInStep ==
  ASSUME NEW w, Ready(w), part = "length", EncodeWord(w), w > 0,
         next_param' = field, counter' = get_counter(w), Shown' = Shown,
         field \in {"NAME", "SYMBOL"} => max_counter' = get_counter(w),
         field = "NAME" => body'.name_len = w, field = "SYMBOL" => body'.symbol_len = w
  PROVE  EncoderOK' /\ ParserOK'
<1>1. /\ truth' = truth /\ EncoderOK' /\ part' = "chunk" /\ len' = w /\ sent' = 0
      /\ field' = field /\ CalledFor' = field
  <2>1. w # 0  BY SMT DEF Ready
  <2> QED BY <2>1, LengthEncoded, Zenon
<1>2. get_counter(w) = WordsOf(w)
  BY GetCounterRoundsUp, Zenon DEF WordsOf, Ready
<1>3. Shown = truth
  BY DEF Ready, ParserOK
<1>4. WordsOf(w) = WordsOf(w) - 0
  <2>1. WordsOf(w) \in Nat  BY SMT DEF WordsOf, Ready
  <2> QED BY <2>1, SMT
<1>5. counter' = WordsOf(len') - sent'
  BY <1>1, <1>2, <1>4, Zenon
<1>6. part' = "chunk" /\ field' = "NAME" => max_counter' = WordsOf(len') /\ body'.name_len = len'
  BY <1>1, <1>2, Zenon
<1>7. part' = "chunk" /\ field' = "SYMBOL" =>
        max_counter' = WordsOf(len') /\ body'.symbol_len = len'
  BY <1>1, <1>2, Zenon
<1>8. next_param' = CalledFor' /\ Shown' = truth' /\ part' # "first"
  BY <1>1, <1>3, Zenon
<1> QED BY <1>1, <1>5, <1>6, <1>7, <1>8, Zenon DEF ParserOK, WordsOf

LEMMA TextLengthStep ==
  ASSUME NEW w, Ready(w), selectorIndex \in TextMethods, EncodeWord(w), part = "length",
         NEW f \in {"NAME", "SYMBOL"}, field = f, NEW at,
         NEW l \in {"name_len", "symbol_len"}, l = IF f = "NAME" THEN "name_len" ELSE "symbol_len",
         text_length(at, l, f, StartAt(selectorIndex, pos + 1), w)
  PROVE  StepOK(w)
<1>1. MustRefuse(w) <=> ~FitsU16(w)
  BY RefusedLength, Zenon
<1>2. CASE ~FitsU16(w) /\ Refuse
  <2>1. w # 0
    BY <1>2, Bounds, SMT DEF FitsU16
  <2>2. EncoderOK'
    BY <2>1, LengthEncoded, Zenon
  <2>3. result' = "ERROR"
    BY <1>2, Zenon DEF Refuse
  <2> QED BY <1>1, <1>2, <2>2, <2>3, Zenon DEF StepOK
<1>3. CASE /\ FitsU16(w) /\ w > 0
           /\ body' = [body EXCEPT ![l] = w]
           /\ counter' = get_counter(w) /\ max_counter' = get_counter(w)
           /\ next_param' = f
           /\ result' = "OK" /\ UNCHANGED <<selectorIndex, sub_param>>
  <2>1. Shown' = Shown /\ (f = "NAME" => body'.name_len = w)
        /\ (f = "SYMBOL" => body'.symbol_len = w)
    BY <1>3, ShownAfter, Zenon
  <2>2. EncoderOK' /\ ParserOK'
    BY <1>3, <2>1, FirstChunkInStep, Zenon
  <2> QED BY <1>1, <1>3, <2>2, Zenon DEF StepOK
<1>4. CASE /\ w = 0
           /\ body' = [body EXCEPT ![l] = 0]
           /\ next_param' = StartAt(selectorIndex, pos + 1)
           /\ Accept
  <2>1. NextField /\ truth' = truth
    <3>1. ~(w > 0)  BY <1>4, SMT
    <3> QED BY <3>1, LengthEncoded, Zenon
  <2>2. Shown' = truth'
    <3>1. Shown' = Shown
      BY <1>4, ShownAfter, Zenon
    <3> QED BY <2>1, <3>1, Zenon DEF Ready, ParserOK
  <2>3. EncoderOK' /\ ParserOK'
    BY <1>4, <2>1, <2>2, MovesOnInStep, WhereReady, Zenon DEF Ready
  <2>4. FitsU16(w)
    BY <1>4, Bounds, SMT DEF FitsU16
  <2> QED BY <1>1, <1>4, <2>3, <2>4, Zenon DEF StepOK, Accept
<1> QED BY <1>2, <1>3, <1>4, Zenon DEF text_length

LEMMA UriLengthStep ==
  ASSUME NEW w, Ready(w), selectorIndex \in TextMethods, EncodeWord(w), part = "length",
         NEW f \in {"BASE_URI", "CONTRACT_URI"}, field = f, NEW at,
         uri_length(at, f, StartAt(selectorIndex, pos + 1), w)
  PROVE  StepOK(w)
<1>1. MustRefuse(w) <=> ~FitsU16(w)
  BY RefusedLength, Zenon
<1>2. Shown' = Shown
  BY ShownAfter, Zenon DEF uri_length
<1>3. CASE ~FitsU16(w)
  <2>1. w # 0
    BY <1>3, Bounds, SMT DEF FitsU16
  <2>2. EncoderOK'
    BY <2>1, LengthEncoded, Zenon
  <2>3. result' = "ERROR"
    BY <1>3, Zenon DEF uri_length, parse_counter
  <2> QED BY <1>1, <1>3, <2>2, <2>3, Zenon DEF StepOK
<1>4. CASE FitsU16(w)
  <2>1. counter' = get_counter(w) /\ result' = "OK"
    BY <1>4, Zenon DEF uri_length, parse_counter
  <2>2. get_counter(w) = 0 <=> w = 0
    BY <1>4, FitsType, GetCounterType, Zenon DEF Ready
  <2>3. CASE w = 0
    <3>1. NextField /\ truth' = truth
      <4>1. ~(w > 0)  BY <2>3, SMT
      <4> QED BY <4>1, LengthEncoded, Zenon
    <3>2. Shown' = truth' /\ next_param' = StartAt(selectorIndex, pos + 1)
      BY <1>2, <2>1, <2>2, <2>3, <3>1, Zenon DEF Ready, ParserOK, uri_length
    <3>3. EncoderOK' /\ ParserOK'
      BY <3>1, <3>2, MovesOnInStep, WhereReady, Zenon DEF Ready
    <3> QED BY <1>1, <1>4, <2>1, <3>3, Zenon DEF StepOK
  <2>4. CASE w # 0
    <3>1. w > 0
      BY <2>4, SMT DEF Ready
    <3>2. next_param' = f
      BY <2>1, <2>2, <2>4, Zenon DEF uri_length
    <3>3. EncoderOK' /\ ParserOK'
      BY <1>2, <2>1, <3>1, <3>2, FirstChunkInStep, Zenon
    <3> QED BY <1>1, <1>4, <2>1, <3>3, Zenon DEF StepOK
  <2> QED BY <2>3, <2>4
<1> QED BY <1>3, <1>4

(* A chunk is counted down, and the last one moves both sides on. *)
LEMMA ChunkInStep ==
  ASSUME NEW w, Ready(w), part = "chunk", EncodeWord(w), result' = "OK",
         counter' = decrement_counter(counter), Shown' = truth',
         next_param' = IF counter' = 0 THEN StartAt(selectorIndex, pos + 1) ELSE field,
         field \in {"NAME", "SYMBOL"} => max_counter' = max_counter,
         field = "NAME" => body'.name_len = body.name_len,
         field = "SYMBOL" => body'.symbol_len = body.symbol_len
  PROVE  StepOK(w)
<1>1. /\ len \in Nat /\ sent \in Nat /\ sent < WordsOf(len) /\ WordsOf(len) \in Nat
      /\ counter = WordsOf(len) - sent
  BY ChunkEncoded, Zenon DEF Ready, ParserOK
<1>2. counter' = WordsOf(len) - (sent + 1) /\ (counter' = 0 <=> sent + 1 = WordsOf(len))
  BY <1>1, SMT DEF decrement_counter
<1>3. ~MustRefuse(w)
  BY RefusedNever, Zenon
<1>4. CASE sent + 1 = WordsOf(len) /\ NextField
  <2>1. next_param' = StartAt(selectorIndex, pos + 1)
    BY <1>2, <1>4, Zenon
  <2>2. EncoderOK' /\ ParserOK'
    BY <1>4, <2>1, MovesOnInStep, WhereReady, Zenon DEF Ready
  <2> QED BY <1>3, <2>2, Zenon DEF StepOK
<1>5. CASE /\ sent + 1 < WordsOf(len) /\ EncoderOK' /\ part' = "chunk" /\ len' = len
           /\ sent' = sent + 1 /\ field' = field /\ CalledFor' = field
  <2>1. next_param' = CalledFor'
    <3>1. sent + 1 # WordsOf(len)  BY <1>1, <1>5, SMT
    <3> QED BY <1>2, <1>5, <3>1, Zenon
  <2>2. counter' = WordsOf(len') - sent'
    BY <1>2, <1>5, Zenon
  <2>3. /\ field = "NAME" => max_counter = WordsOf(len) /\ body.name_len = len
        /\ field = "SYMBOL" => max_counter = WordsOf(len) /\ body.symbol_len = len
    BY Zenon DEF Ready, ParserOK
  <2>4. /\ field' = "NAME" => max_counter' = WordsOf(len') /\ body'.name_len = len'
        /\ field' = "SYMBOL" => max_counter' = WordsOf(len') /\ body'.symbol_len = len'
    BY <1>5, <2>3, Zenon
  <2>5. part' # "first"
    BY <1>5, Zenon
  <2>6. ParserOK'
    BY <2>1, <2>2, <2>4, <2>5, Zenon DEF ParserOK, WordsOf
  <2> QED BY <1>3, <1>5, <2>6, Zenon DEF StepOK
<1> QED BY <1>4, <1>5, ChunkEncoded, Zenon

LEMMA TextChunkStep ==
  ASSUME NEW w, Ready(w), selectorIndex \in TextMethods, EncodeWord(w), part = "chunk",
         NEW f \in {"NAME", "SYMBOL"}, field = f,
         NEW l, l = IF f = "NAME" THEN "name_len" ELSE "symbol_len",
         NEW b, b = IF f = "NAME" THEN "name_text" ELSE "symbol_text",
         text_chunk(f, l, b, StartAt(selectorIndex, pos + 1), w)
  PROVE  StepOK(w)
<1>1. /\ len \in Nat /\ sent \in Nat /\ WordsOf(len) \in Nat
      /\ counter = WordsOf(len) - sent /\ max_counter = WordsOf(len)
      /\ body[l] = len
  BY ChunkEncoded, Zenon DEF Ready, ParserOK
<1>2. counter = max_counter <=> sent = 0
  BY <1>1, SMT
<1>3. body' = IF sent = 0 THEN [body EXCEPT ![b] = copy_text(len, w)] ELSE body
  BY <1>1, <1>2, Zenon DEF text_chunk
<1>4. /\ Shown = truth /\ f \in DOMAIN truth
      /\ truth' = IF sent = 0 THEN [truth EXCEPT ![f] = copy_text(len, w)] ELSE truth
  <2>1. Shown = truth
    BY DEF Ready, ParserOK
  <2>2. f \in DOMAIN truth
    BY <2>1, ShownAfter, Zenon
  <2> QED BY <2>1, <2>2, ChunkEncoded, Zenon
<1>5. /\ Shown' = truth'
      /\ field = "NAME" => body'.name_len = body.name_len
      /\ field = "SYMBOL" => body'.symbol_len = body.symbol_len
  <2>1. CASE sent = 0 /\ f = "NAME"
    BY <1>3, <1>4, <2>1, ShownAfter, Zenon
  <2>2. CASE sent = 0 /\ f = "SYMBOL"
    BY <1>3, <1>4, <2>2, ShownAfter, Zenon
  <2>3. CASE sent # 0
    BY <1>3, <1>4, <2>3, ShownAfter, Zenon
  <2> QED BY <2>1, <2>2, <2>3
<1>6. /\ result' = "OK" /\ counter' = decrement_counter(counter) /\ max_counter' = max_counter
      /\ next_param' = IF counter' = 0 THEN StartAt(selectorIndex, pos + 1) ELSE field
  BY Zenon DEF text_chunk
<1> QED BY <1>5, <1>6, ChunkInStep, Zenon

LEMMA UriChunkStep ==
  ASSUME NEW w, Ready(w), selectorIndex \in TextMethods, EncodeWord(w), part = "chunk",
         NEW f \in {"BASE_URI", "CONTRACT_URI"}, field = f,
         uri_chunk(f, StartAt(selectorIndex, pos + 1))
  PROVE  StepOK(w)
<1>1. Shown = truth /\ field \notin DOMAIN truth
  <2>1. Shown = truth
    BY DEF Ready, ParserOK
  <2> QED BY <2>1, ShownAfter, Zenon
<1>2. Shown' = truth'
  <2>1. Shown' = Shown
    BY ShownAfter, Zenon DEF uri_chunk
  <2>2. truth' = truth
    BY <1>1, ChunkEncoded, Zenon
  <2> QED BY <1>1, <2>1, <2>2, Zenon
<1>3. /\ result' = "OK" /\ counter' = decrement_counter(counter)
      /\ next_param' = IF counter' = 0 THEN StartAt(selectorIndex, pos + 1) ELSE field
  BY Zenon DEF uri_chunk
<1>4. field \notin {"NAME", "SYMBOL"}
  OBVIOUS
<1> QED BY <1>2, <1>3, <1>4, ChunkInStep, Zenon

(* Whatever the case of names_and_uris, when the next string is the one    *)
(* the method's layout has next.                                           *)
LEMMA NamesAndUrisStep ==
  ASSUME NEW w, Ready(w), selectorIndex \in TextMethods, EncodeWord(w),
         part \in {"length", "chunk"}, NEW end, names_and_uris(w, end),
         StartAt(selectorIndex, pos + 1) = AfterString(end)[field]
  PROVE  StepOK(w)
<1>1. /\ field \in Strings
      /\ part = "length" => next_param = StartParam[field]
      /\ part = "chunk" => next_param = field
  BY WhereReady, Zenon
<1>2. \A f \in Strings :
        /\ f # "NAME_LENGTH" /\ f # "SYMBOL_LENGTH" /\ f # "BASE_URI_LENGTH"
        /\ f # "CONTRACT_URI_LENGTH"
        /\ StartParam[f] = "NAME_LENGTH" <=> f = "NAME"
        /\ StartParam[f] = "SYMBOL_LENGTH" <=> f = "SYMBOL"
        /\ StartParam[f] = "BASE_URI_LENGTH" <=> f = "BASE_URI"
        /\ StartParam[f] = "CONTRACT_URI_LENGTH" <=> f = "CONTRACT_URI"
        /\ StartParam[f] \notin Strings
  BY SMT DEF Strings, StartParam
<1>3. /\ AfterString(end)["NAME"] = "SYMBOL_LENGTH"
      /\ AfterString(end)["SYMBOL"] = "BASE_URI_LENGTH"
      /\ AfterString(end)["BASE_URI"] = "CONTRACT_URI_LENGTH"
      /\ AfterString(end)["CONTRACT_URI"] = end
  BY SMT DEF AfterString
<1>4. {"NAME", "SYMBOL", "BASE_URI", "CONTRACT_URI"} = Strings
  BY DEF Strings
<1>5. CASE text_length("NAME_LENGTH", "name_len", "NAME", "SYMBOL_LENGTH", w)
  <2>1. next_param = "NAME_LENGTH"
    BY <1>5, Zenon DEF text_length
  <2>2. part = "length" /\ field = "NAME"
    BY <1>1, <1>2, <2>1, Zenon
  <2> QED BY <1>3, <1>5, <2>2, TextLengthStep, Zenon
<1>6. CASE text_chunk("NAME", "name_len", "name_text", "SYMBOL_LENGTH", w)
  <2>1. next_param = "NAME"
    BY <1>6, Zenon DEF text_chunk
  <2>2. part = "chunk" /\ field = "NAME"
    BY <1>1, <1>2, <1>4, <2>1, Zenon
  <2> QED BY <1>3, <1>6, <2>2, TextChunkStep, Zenon
<1>7. CASE text_length("SYMBOL_LENGTH", "symbol_len", "SYMBOL", "BASE_URI_LENGTH", w)
  <2>1. next_param = "SYMBOL_LENGTH"
    BY <1>7, Zenon DEF text_length
  <2>2. part = "length" /\ field = "SYMBOL"
    BY <1>1, <1>2, <2>1, Zenon
  <2> QED BY <1>3, <1>7, <2>2, TextLengthStep, Zenon
<1>8. CASE text_chunk("SYMBOL", "symbol_len", "symbol_text", "BASE_URI_LENGTH", w)
  <2>1. next_param = "SYMBOL"
    BY <1>8, Zenon DEF text_chunk
  <2>2. part = "chunk" /\ field = "SYMBOL"
    BY <1>1, <1>2, <1>4, <2>1, Zenon
  <2> QED BY <1>3, <1>8, <2>2, TextChunkStep, Zenon
<1>9. CASE uri_length("BASE_URI_LENGTH", "BASE_URI", "CONTRACT_URI_LENGTH", w)
  <2>1. next_param = "BASE_URI_LENGTH"
    BY <1>9, Zenon DEF uri_length
  <2>2. part = "length" /\ field = "BASE_URI"
    BY <1>1, <1>2, <2>1, Zenon
  <2> QED BY <1>3, <1>9, <2>2, UriLengthStep, Zenon
<1>10. CASE uri_chunk("BASE_URI", "CONTRACT_URI_LENGTH")
  <2>1. next_param = "BASE_URI"
    BY <1>10, Zenon DEF uri_chunk
  <2>2. part = "chunk" /\ field = "BASE_URI"
    BY <1>1, <1>2, <1>4, <2>1, Zenon
  <2> QED BY <1>3, <1>10, <2>2, UriChunkStep, Zenon
<1>11. CASE uri_length("CONTRACT_URI_LENGTH", "CONTRACT_URI", end, w)
  <2>1. next_param = "CONTRACT_URI_LENGTH"
    BY <1>11, Zenon DEF uri_length
  <2>2. part = "length" /\ field = "CONTRACT_URI"
    BY <1>1, <1>2, <2>1, Zenon
  <2> QED BY <1>3, <1>11, <2>2, UriLengthStep, Zenon
<1>12. CASE uri_chunk("CONTRACT_URI", end)
  <2>1. next_param = "CONTRACT_URI"
    BY <1>12, Zenon DEF uri_chunk
  <2>2. part = "chunk" /\ field = "CONTRACT_URI"
    BY <1>1, <1>2, <1>4, <2>1, Zenon
  <2> QED BY <1>3, <1>12, <2>2, UriChunkStep, Zenon
<1> QED BY <1>5, <1>6, <1>7, <1>8, <1>9, <1>10, <1>11, <1>12, Zenon DEF names_and_uris

-----------------------------------------------------------------------------
(* The other cases. *)

(* Beyond the end both sides agree: the word has to be refused, and is.    *)
LEMMA EndStep ==
  ASSUME NEW w, Ready(w), part = "end", EncodeWord(w),
         next_param = "UNEXPECTED_PARAMETER" => Refuse
  PROVE  StepOK(w)
<1>1. next_param = "UNEXPECTED_PARAMETER"
  BY CalledForWithin, Zenon DEF Ready, ParserOK, CalledFor
<1>2. result' = "ERROR" /\ MustRefuse(w)
  BY <1>1, Zenon DEF Refuse, MustRefuse
<1>3. UNCHANGED calldataVars
  BY SMT DEF EncodeWord, StaticWord, LengthWord, ChunkWord, QuantityWord, OffsetWord,
     FirstWord, SecondWord, SurplusWord
<1>4. EncoderOK'
  <2>1. /\ pos' = pos /\ part' = "end" /\ qty' = qty /\ sent' = sent
        /\ selectorIndex' = selectorIndex
    BY <1>3, Zenon DEF calldataVars, Ready
  <2> QED BY <2>1, Zenon DEF EncoderOK, Ready
<1> QED BY <1>2, <1>4, Zenon DEF StepOK

LEMMA StaticEncoded ==
  ASSUME NEW w, Ready(w), part = "static", EncodeWord(w)
  PROVE  /\ NextField /\ Tell(w)
         /\ field \in AddressFields => copy_address(w) = w
         /\ field = "APPROVED" => FitsU16(w)
<1>1. StaticWord(w)
  BY SMT DEF EncodeWord, LengthWord, ChunkWord, QuantityWord, OffsetWord, FirstWord,
     SecondWord, SurplusWord
<1>2. \A a \in Addresses : copy_address(a) = a
  <2>1. AddressModulus \in Nat /\ AddressModulus > 0
    BY AddressAssumption, Bounds, SMT
  <2>2. \A a \in 0..(AddressModulus - 1) : copy_address(a) = a
    BY <2>1, SMT DEF copy_address
  <2> QED BY <2>2, CalldataAssumption, Zenon
<1>3. 0 < U16 /\ 1 < U16
  BY Bounds, SMT
<1>4. "APPROVED" \notin AddressFields
  BY SMT DEF AddressFields
<1> QED BY <1>1, <1>2, <1>3, <1>4, Zenon DEF StaticWord, FitsU16

LEMMA StaticInStep ==
  ASSUME NEW w, Ready(w), part = "static", EncodeWord(w), result' = "OK",
         next_param' = StartAt(selectorIndex, pos + 1), Shown' = truth'
  PROVE  StepOK(w)
<1>1. EncoderOK' /\ ParserOK'
  BY StaticEncoded, WhereReady, MovesOnInStep, Zenon DEF Ready
<1> QED BY <1>1, RefusedNever, Zenon DEF StepOK

(* setApprovalForAll. *)
LEMMA ApprovalStep ==
  ASSUME NEW w, Ready(w), selectorIndex = "SET_APPROVED_FOR_ALL", EncodeWord(w),
         handle_set_approved_for_all(w)
  PROVE  StepOK(w)
<1>1. CASE part = "end"
  <2>1. next_param = "UNEXPECTED_PARAMETER" => Refuse
    BY SMT DEF handle_set_approved_for_all, TakeAddress, Unsupported
  <2> QED BY <1>1, <2>1, EndStep, Zenon
<1>2. CASE part # "end"
  <2>1. /\ field \in {"OPERATOR", "APPROVED"}
        /\ field = "OPERATOR" => StartAt(selectorIndex, pos + 1) = "IS_APPROVED"
        /\ field = "APPROVED" => StartAt(selectorIndex, pos + 1) = "UNEXPECTED_PARAMETER"
    <3>1. pos \in 1..2
      BY <1>2, WhereReady, ApprovalLayout, Zenon
    <3>2. field = Layout["SET_APPROVED_FOR_ALL"][pos]
      BY DEF field
    <3> QED BY <3>1, <3>2, ApprovalFields, Zenon
  <2>2. part = "static" /\ next_param = IF field = "OPERATOR" THEN "TO" ELSE "IS_APPROVED"
    <3>1. StartParam["OPERATOR"] = "TO" /\ StartParam["APPROVED"] = "IS_APPROVED"
      BY SMT DEF StartParam
    <3>2. field \notin Strings /\ field # "OPERATORS"
      BY <2>1, SMT DEF Strings
    <3> QED BY <1>2, <2>1, <3>1, <3>2, WhereReady, SMT
  <2>3. /\ Shown = truth
        /\ Shown = [OPERATOR |-> body.to, APPROVED |-> body.isApproved]
        /\ Shown' = [OPERATOR |-> body'.to, APPROVED |-> body'.isApproved]
    BY ShownOf, ShownOfNext, Zenon DEF Ready, ParserOK
  <2>4. DOMAIN body = {"to", "isApproved"}
    <3>1. body \in approval_body
      BY Zenon DEF Ready, TypeOK, ContextTypeOK
    <3> QED BY <3>1, SMT DEF approval_body
  <2>5. DOMAIN truth = {"OPERATOR", "APPROVED"}
    BY <2>3, SMT
  <2>6. CASE field = "OPERATOR"
    <3>1. TakeAddress("TO", "to", "IS_APPROVED", w)
      BY <2>2, <2>6, SMT DEF handle_set_approved_for_all, Unsupported
    <3>2. copy_address(w) = w
      <4>1. field \in AddressFields
        BY <2>6, SMT DEF AddressFields
      <4> QED BY <2>2, <4>1, StaticEncoded, Zenon
    <3>3. /\ body' = [body EXCEPT !["to"] = w] /\ next_param' = "IS_APPROVED"
          /\ result' = "OK"
      BY <3>1, <3>2, Zenon DEF TakeAddress, Accept
    <3>4. body'.to = w /\ body'.isApproved = body.isApproved
      BY <2>4, <3>3, Zenon
    <3>5. truth' = [truth EXCEPT !["OPERATOR"] = w]
      BY <2>1, <2>2, <2>5, <2>6, StaticEncoded, Zenon DEF Tell
    <3>6. Shown' = [OPERATOR |-> w, APPROVED |-> body.isApproved]
      BY <2>3, <3>4, Zenon
    <3>7. Shown' = [truth EXCEPT !["OPERATOR"] = w]
      BY <2>3, <3>6, SMT
    <3> QED BY <2>1, <2>2, <2>6, <3>3, <3>5, <3>7, StaticInStep, Zenon
  <2>7. CASE field = "APPROVED"
    <3>1. FitsU16(w)
      BY <2>2, <2>7, StaticEncoded, Zenon
    <3>2. /\ body' = [body EXCEPT !["isApproved"] = w]
          /\ next_param' = "UNEXPECTED_PARAMETER" /\ result' = "OK"
      BY <2>2, <2>7, <3>1, SMT DEF handle_set_approved_for_all, TakeAddress, Unsupported,
         Accept
    <3>3. body'.isApproved = w /\ body'.to = body.to
      BY <2>4, <3>2, Zenon
    <3>4. truth' = [truth EXCEPT !["APPROVED"] = w]
      BY <2>1, <2>2, <2>5, <2>7, StaticEncoded, Zenon DEF Tell
    <3>5. Shown' = [OPERATOR |-> body.to, APPROVED |-> w]
      BY <2>3, <3>3, Zenon
    <3>6. Shown' = [truth EXCEPT !["APPROVED"] = w]
      BY <2>3, <3>5, SMT
    <3> QED BY <2>1, <2>2, <2>7, <3>2, <3>4, <3>6, StaticInStep, Zenon
  <2> QED BY <2>1, <2>6, <2>7, Zenon
<1> QED BY <1>1, <1>2

-----------------------------------------------------------------------------
(* createToken. *)

LEMMA NamesAndUrisParams ==
  ASSUME NEW w, NEW end, names_and_uris(w, end) PROVE next_param \in name_and_uri_params
  BY SMT DEF names_and_uris, text_length, text_chunk, uri_length, uri_chunk,
     name_and_uri_params

LEMMA CreateDispatch ==
  ASSUME NEW w, handle_create_token(w)
  PROVE  /\ next_param \in DOMAIN create_token_head =>
              Accept /\ body' = body /\ next_param' = create_token_head[next_param]
         /\ next_param \in name_and_uri_params => names_and_uris(w, "OPERATORS_QTY")
         /\ next_param = "OPERATORS_QTY" => operators_qty(w)
         /\ next_param = "OPERATORS_ADDRESS" => operators_address(w)
         /\ next_param = "UNEXPECTED_PARAMETER" => Refuse
<1>1. /\ \A p \in DOMAIN create_token_head :
           p \notin name_and_uri_params
             /\ p \notin {"OPERATORS_QTY", "OPERATORS_ADDRESS", "UNEXPECTED_PARAMETER"}
      /\ \A p \in name_and_uri_params :
           p \notin {"OPERATORS_QTY", "OPERATORS_ADDRESS", "UNEXPECTED_PARAMETER"}
  BY SMT DEF create_token_head, name_and_uri_params
<1>2. CASE Skip(create_token_head)
  BY <1>1, <1>2, SMT DEF Skip
<1>3. CASE names_and_uris(w, "OPERATORS_QTY")
  BY <1>1, <1>3, NamesAndUrisParams, SMT
<1>4. CASE operators_qty(w)
  <2>1. next_param = "OPERATORS_QTY"
    BY <1>4, Zenon DEF operators_qty
  <2> QED BY <1>1, <1>4, <2>1, SMT
<1>5. CASE operators_address(w)
  <2>1. next_param = "OPERATORS_ADDRESS"
    BY <1>5, Zenon DEF operators_address
  <2> QED BY <1>1, <1>5, <2>1, SMT
<1>6. CASE Unsupported(DOMAIN create_token_head \cup name_and_uri_params
                         \cup {"OPERATORS_QTY", "OPERATORS_ADDRESS"})
  BY <1>6, Zenon DEF Unsupported
<1> QED BY <1>2, <1>3, <1>4, <1>5, <1>6, Zenon DEF handle_create_token

LEMMA OperatorsQtyStep ==
  ASSUME NEW w, Ready(w), selectorIndex = "CREATE_TOKEN", EncodeWord(w), part = "quantity",
         StartAt(selectorIndex, pos + 1) = "UNEXPECTED_PARAMETER", operators_qty(w)
  PROVE  StepOK(w)
<1>1. MustRefuse(w) <=> ~FitsU16(w)
  BY RefusedLength, Zenon
<1>2. QuantityWord(w)
  BY SMT DEF EncodeWord, StaticWord, LengthWord, ChunkWord, OffsetWord, FirstWord,
     SecondWord, SurplusWord
<1>3. field = "OPERATORS" /\ sent = 0 /\ pos \in 1..Len(Layout[selectorIndex])
  BY WhereReady, Zenon DEF Ready, EncoderOK
<1>4. Shown = truth /\ truth' = truth
  BY <1>2, Zenon DEF QuantityWord, Ready, ParserOK
<1>5. CASE w > 0 /\ part' = "first" /\ qty' = w /\ UNCHANGED <<pos, len, sent, done>>
  <2>1. /\ field' = field /\ CalledFor' = "OPERATORS_ADDRESS" /\ w # 0 /\ sent' < qty'
        /\ w - 0 = w
    <3>1. field' = field
      BY <1>5, Zenon DEF field, Ready
    <3>2. CalledFor' = "OPERATORS_ADDRESS"
      BY <1>3, <1>5, <3>1, CalledForWithin, Zenon DEF CalledFor
    <3>3. w # 0 /\ sent' < qty' /\ w - 0 = w
      BY <1>3, <1>5, SMT DEF Ready
    <3> QED BY <3>1, <3>2, <3>3
  <2>2. EncoderOK'
    <3>1. pos' = pos /\ part' # "end" /\ part' # "chunk" /\ part' = "first"
      BY <1>5, Zenon
    <3>2. part # "end"
      OBVIOUS
    <3> QED BY <1>3, <2>1, <3>1, <3>2, Zenon DEF Ready, EncoderOK
  <2>3. CASE ~FitsU16(w) /\ Refuse
    BY <1>1, <2>2, <2>3, Zenon DEF StepOK, Refuse
  <2>4. CASE /\ FitsU16(w)
             /\ counter' = w
             /\ next_param' = IF w = 0 THEN "UNEXPECTED_PARAMETER" ELSE "OPERATORS_ADDRESS"
             /\ result' = "OK" /\ UNCHANGED <<selectorIndex, sub_param, max_counter, body>>
    <3>1. Shown' = Shown
      BY <2>4, ShownAfter, Zenon DEF TextMethods
    <3>2. counter' = qty' - sent'
      BY <1>3, <1>5, <2>1, <2>4, Zenon
    <3>3. ParserOK'
      BY <1>4, <1>5, <2>1, <2>4, <3>1, <3>2, Zenon DEF ParserOK
    <3> QED BY <1>1, <2>2, <2>4, <3>3, Zenon DEF StepOK
  <2> QED BY <2>3, <2>4, Zenon DEF operators_qty
<1>6. CASE w = 0 /\ NextField
  <2>1. FitsU16(w)
    BY <1>6, Bounds, SMT DEF FitsU16
  <2>2. next_param' = "UNEXPECTED_PARAMETER" /\ result' = "OK" /\ body' = body
    BY <1>6, <2>1, Zenon DEF operators_qty
  <2>3. Shown' = truth'
    BY <1>4, <2>2, ShownAfter, Zenon DEF TextMethods
  <2>4. EncoderOK' /\ ParserOK'
    BY <1>3, <1>6, <2>2, <2>3, MovesOnInStep, Zenon DEF Ready
  <2> QED BY <1>1, <2>1, <2>2, <2>4, Zenon DEF StepOK
<1>7. \/ w = 0 /\ NextField
      \/ w > 0 /\ part' = "first" /\ qty' = w /\ UNCHANGED <<pos, len, sent, done>>
  <2>1. field # "SIGNATURES"
    BY <1>3, SMT
  <2> QED BY <1>2, <2>1, Zenon DEF QuantityWord
<1> QED BY <1>5, <1>6, <1>7

(* The last operator of the list is the one shown. *)
LEMMA OperatorsAddressStep ==
  ASSUME NEW w, Ready(w), selectorIndex = "CREATE_TOKEN", EncodeWord(w), part = "first",
         StartAt(selectorIndex, pos + 1) = "UNEXPECTED_PARAMETER", operators_address(w)
  PROVE  StepOK(w)
<1>1. FirstWord(w)
  BY SMT DEF EncodeWord, StaticWord, LengthWord, ChunkWord, QuantityWord, OffsetWord,
     SecondWord, SurplusWord
<1>2. /\ field = "OPERATORS" /\ sent < qty /\ pos \in 1..Len(Layout[selectorIndex])
      /\ sent \in Nat /\ qty \in Nat /\ counter = qty - sent
  <2>1. field = "OPERATORS" /\ pos \in 1..Len(Layout[selectorIndex])
    BY WhereReady, Zenon
  <2>2. FirstPart(field) # "first"
    BY <2>1, FirstParts, WhereReady, SMT
  <2>3. sent < qty
    BY <2>2, Zenon DEF Ready, EncoderOK
  <2> QED BY <2>1, <2>3, Zenon DEF Ready, TypeOK, ParserOK
<1>3. /\ counter' = qty - (sent + 1) /\ (counter' = 0 <=> sent + 1 = qty)
      /\ counter = 1 <=> sent + 1 = qty
  BY <1>2, SMT DEF operators_address, decrement_counter
<1>4. copy_address(w) = w
  <2>1. AddressModulus \in Nat /\ AddressModulus > 0
    BY AddressAssumption, Bounds, SMT
  <2>2. \A a \in 0..(AddressModulus - 1) : copy_address(a) = a
    BY <2>1, SMT DEF copy_address
  <2> QED BY <1>1, <2>2, CalldataAssumption, Zenon DEF FirstWord
<1>5. /\ Shown = truth
      /\ Shown = [NAME |-> body.name_text, SYMBOL |-> body.symbol_text,
                  OPERATORS |-> Found(body.operator_found, body.operator)]
      /\ Shown' = [NAME |-> body'.name_text, SYMBOL |-> body'.symbol_text,
                   OPERATORS |-> Found(body'.operator_found, body'.operator)]
  BY ShownOf, ShownOfNext, Zenon DEF Ready, ParserOK
<1>6. Shown' = truth'
  <2>1. CASE sent + 1 = qty
    <3>1. body' = [body EXCEPT !.operator_found = TRUE, !.operator = w]
      BY <1>3, <1>4, <2>1, Zenon DEF operators_address
    <3>2. DOMAIN body = {"operator_found", "operator", "name_len", "name_text",
                         "symbol_len", "symbol_text"}
      <4>1. body \in create_body
        BY Zenon DEF Ready, TypeOK, ContextTypeOK
      <4> QED BY <4>1, SMT DEF create_body
    <3>3. /\ body'.operator_found = TRUE /\ body'.operator = w
          /\ body'.name_text = body.name_text /\ body'.symbol_text = body.symbol_text
      <4> DEFINE b == [body EXCEPT !["operator_found"] = TRUE]
      <4>1. /\ b.operator_found = TRUE /\ b.name_text = body.name_text
            /\ b.symbol_text = body.symbol_text /\ DOMAIN b = DOMAIN body
        BY <3>2, Zenon
      <4>2. body' = [b EXCEPT !["operator"] = w]
        BY <3>1, Zenon
      <4> HIDE DEF b
      <4> QED BY <3>2, <4>1, <4>2, Zenon
    <3>4. Found(body'.operator_found, body'.operator) = <<w>>
      BY <3>3, Zenon DEF Found
    <3>5. Shown' = [NAME |-> body.name_text, SYMBOL |-> body.symbol_text,
                    OPERATORS |-> <<w>>]
      BY <1>5, <3>3, <3>4, Zenon
    <3>6. truth' = [truth EXCEPT !["OPERATORS"] = <<w>>]
      <4>1. "OPERATORS" \in DOMAIN truth
        BY <1>5, SMT
      <4>2. field # "ROYALTIES" /\ field # "LAST_CREATOR"
        BY <1>2, SMT
      <4> QED BY <1>1, <1>2, <2>1, <4>1, <4>2, Zenon DEF FirstWord, Tell
    <3>7. Shown' = [truth EXCEPT !["OPERATORS"] = <<w>>]
      BY <1>5, <3>5, SMT
    <3> QED BY <3>6, <3>7, Zenon
  <2>2. CASE sent + 1 # qty
    <3>1. body' = body
      BY <1>3, <2>2, Zenon DEF operators_address
    <3>2. Shown' = Shown
      BY <3>1, ShownAfter, Zenon DEF TextMethods
    <3>3. truth' = truth
      BY <1>1, <2>2, Zenon DEF FirstWord
    <3> QED BY <1>5, <3>2, <3>3, Zenon
  <2> QED BY <2>1, <2>2
<1>7. EndOfElement
  BY <1>1, <1>2, Zenon DEF FirstWord
<1>8. ~MustRefuse(w)
  BY RefusedNever, Zenon
<1>9. CASE sent + 1 = qty
  <2>1. NextField
    <3>1. ~(sent + 1 < qty)
      BY <1>2, <1>9, SMT
    <3>2. field # "SIGNATURES"
      BY <1>2, SMT
    <3> QED BY <1>7, <3>1, <3>2, Zenon DEF EndOfElement
  <2>2. next_param' = "UNEXPECTED_PARAMETER"
    BY <1>3, <1>9, Zenon DEF operators_address
  <2>3. EncoderOK' /\ ParserOK'
    BY <1>2, <1>6, <2>1, <2>2, MovesOnInStep, Zenon DEF Ready
  <2> QED BY <1>8, <2>3, Zenon DEF StepOK, operators_address
<1>10. CASE sent + 1 # qty
  <2>1. /\ sent' = sent + 1 /\ part' = "first" /\ sent' < qty'
        /\ pos' = pos /\ len' = len /\ qty' = qty
    <3>1. sent + 1 < qty
      BY <1>2, <1>10, SMT
    <3>2. field # "SIGNATURES"
      BY <1>2, SMT
    <3> QED BY <1>7, <3>1, <3>2, Zenon DEF EndOfElement
  <2>2. field' = field
    BY <2>1, Zenon DEF field, Ready
  <2>3. CalledFor' = "OPERATORS_ADDRESS"
    BY <1>2, <2>1, <2>2, CalledForWithin, Zenon DEF CalledFor
  <2>4. EncoderOK'
    <3>1. part' # "end" /\ part' # "chunk" /\ part # "end"
      BY <2>1, SMT
    <3> QED BY <1>2, <2>1, <2>2, <3>1, Zenon DEF Ready, EncoderOK
  <2>5. next_param' = "OPERATORS_ADDRESS" /\ counter' = qty' - sent'
    BY <1>3, <1>10, <2>1, Zenon DEF operators_address
  <2>6. ParserOK'
    <3>1. part' # "chunk"
      BY <2>1, Zenon
    <3> QED BY <1>6, <2>3, <2>5, <3>1, Zenon DEF ParserOK
  <2> QED BY <1>8, <2>4, <2>6, Zenon DEF StepOK, operators_address
<1> QED BY <1>9, <1>10

LEMMA StringParams ==
  \A f \in Strings : f \in name_and_uri_params /\ StartParam[f] \in name_and_uri_params
  BY SMT DEF Strings, StartParam, name_and_uri_params

LEMMA CreateStep ==
  ASSUME NEW w, Ready(w), selectorIndex = "CREATE_TOKEN", EncodeWord(w),
         handle_create_token(w)
  PROVE  StepOK(w)
<1>1. CASE part = "end"
  BY <1>1, CreateDispatch, EndStep, Zenon
<1>2. CASE part # "end"
  <2>1. /\ field \in DOMAIN create_token_head \/ field \in Strings \/ field = "OPERATORS"
        /\ field \in DOMAIN create_token_head =>
             /\ StartAt(selectorIndex, pos + 1) = create_token_head[field]
             /\ StartParam[field] = field
        /\ field \in Strings =>
             StartAt(selectorIndex, pos + 1) = AfterString("OPERATORS_QTY")[field]
        /\ field = "OPERATORS" =>
             StartAt(selectorIndex, pos + 1) = "UNEXPECTED_PARAMETER"
    <3>1. pos \in 1..11
      BY <1>2, WhereReady, CreateLayout, Zenon
    <3>2. field = Layout["CREATE_TOKEN"][pos]
      BY DEF field
    <3> QED BY <3>1, <3>2, CreateFields, Zenon
  <2>2. CASE part = "static"
    <3>1. field \in DOMAIN create_token_head /\ next_param = field
      <4>1. field \notin Strings /\ field # "OPERATORS"
        BY <1>2, <2>2, WhereReady, SMT DEF Statics
      <4> QED BY <1>2, <2>1, <2>2, <4>1, WhereReady, Zenon
    <3>2. /\ result' = "OK" /\ body' = body
          /\ next_param' = StartAt(selectorIndex, pos + 1)
      BY <2>1, <3>1, CreateDispatch, Zenon DEF Accept
    <3>3. Shown' = truth'
      <4>1. Shown' = Shown /\ Shown = truth
        BY <3>2, ShownAfter, Zenon DEF TextMethods, Ready, ParserOK
      <4>2. field \notin {"NAME", "SYMBOL", "OPERATORS"}
        BY <3>1, SMT DEF create_token_head
      <4>3. DOMAIN Shown = {"NAME", "SYMBOL", "OPERATORS"}
        <5> DEFINE o == Found(body.operator_found, body.operator)
        <5>1. Shown = [NAME |-> body.name_text, SYMBOL |-> body.symbol_text, OPERATORS |-> o]
          BY ShownOf, Zenon
        <5> HIDE DEF o
        <5> QED BY <5>1, SMT
      <4> QED BY <2>2, <4>1, <4>2, <4>3, StaticEncoded, Zenon DEF Tell
    <3> QED BY <2>2, <3>2, <3>3, StaticInStep, Zenon
  <2>3. CASE part \in {"length", "chunk"}
    <3>1. field \in Strings /\ next_param \in name_and_uri_params
      BY <1>2, <2>3, WhereReady, StringParams, Zenon
    <3>2. names_and_uris(w, "OPERATORS_QTY")
      BY <3>1, CreateDispatch, Zenon
    <3> QED BY <2>1, <2>3, <3>1, <3>2, NamesAndUrisStep, Zenon DEF TextMethods
  <2>4. CASE part = "quantity"
    BY <1>2, <2>1, <2>4, WhereReady, CreateDispatch, OperatorsQtyStep, Zenon
  <2>5. CASE part = "first"
    BY <1>2, <2>1, <2>5, WhereReady, CreateDispatch, OperatorsAddressStep, Zenon
  <2> QED BY <1>2, <2>2, <2>3, <2>4, <2>5, WhereReady, Zenon
<1> QED BY <1>1, <1>2

-----------------------------------------------------------------------------
(* __ERC721Rarible_init. *)

LEMMA InitDispatch ==
  ASSUME NEW w, handle_erc721_rarible_init(w)
  PROVE  /\ next_param \in DOMAIN rarible_init_head =>
              Accept /\ body' = body /\ next_param' = rarible_init_head[next_param]
         /\ next_param = "TRANSFER_PROXY_ADDRESS" =>
              TakeAddress("TRANSFER_PROXY_ADDRESS", "transfer_proxy",
                          "LAZY_TRANSFER_PROXY_ADDRESS", w)
         /\ next_param = "LAZY_TRANSFER_PROXY_ADDRESS" =>
              TakeAddress("LAZY_TRANSFER_PROXY_ADDRESS", "lazy_transfer_proxy",
                          "NAME_LENGTH", w)
         /\ next_param \in name_and_uri_params => names_and_uris(w, "UNEXPECTED_PARAMETER")
         /\ next_param = "UNEXPECTED_PARAMETER" => Refuse
<1>1. /\ \A p \in DOMAIN rarible_init_head :
           /\ p \notin name_and_uri_params
           /\ p \notin {"TRANSFER_PROXY_ADDRESS", "LAZY_TRANSFER_PROXY_ADDRESS",
                        "UNEXPECTED_PARAMETER"}
      /\ \A p \in name_and_uri_params :
           p \notin {"TRANSFER_PROXY_ADDRESS", "LAZY_TRANSFER_PROXY_ADDRESS",
                     "UNEXPECTED_PARAMETER"}
  BY SMT DEF rarible_init_head, name_and_uri_params
<1>2. CASE Skip(rarible_init_head)
  BY <1>1, <1>2, SMT DEF Skip
<1>3. CASE names_and_uris(w, "UNEXPECTED_PARAMETER")
  BY <1>1, <1>3, NamesAndUrisParams, SMT
<1>4. CASE TakeAddress("TRANSFER_PROXY_ADDRESS", "transfer_proxy",
                       "LAZY_TRANSFER_PROXY_ADDRESS", w)
  <2>1. next_param = "TRANSFER_PROXY_ADDRESS"
    BY <1>4, Zenon DEF TakeAddress
  <2> QED BY <1>1, <1>4, <2>1, SMT
<1>5. CASE TakeAddress("LAZY_TRANSFER_PROXY_ADDRESS", "lazy_transfer_proxy",
                       "NAME_LENGTH", w)
  <2>1. next_param = "LAZY_TRANSFER_PROXY_ADDRESS"
    BY <1>5, Zenon DEF TakeAddress
  <2> QED BY <1>1, <1>5, <2>1, SMT
<1>6. CASE Unsupported(DOMAIN rarible_init_head \cup name_and_uri_params
                         \cup {"TRANSFER_PROXY_ADDRESS", "LAZY_TRANSFER_PROXY_ADDRESS"})
  BY <1>6, Zenon DEF Unsupported
<1> QED BY <1>2, <1>3, <1>4, <1>5, <1>6, Zenon DEF handle_erc721_rarible_init

LEMMA ProxyUpdates ==
  ASSUME NEW b \in init_body, NEW v
  PROVE  /\ LET c == [b EXCEPT !["transfer_proxy"] = v]
            IN /\ c.transfer_proxy = v /\ c.name_text = b.name_text
               /\ c.symbol_text = b.symbol_text
               /\ c.lazy_transfer_proxy = b.lazy_transfer_proxy
         /\ LET c == [b EXCEPT !["lazy_transfer_proxy"] = v]
            IN /\ c.lazy_transfer_proxy = v /\ c.name_text = b.name_text
               /\ c.symbol_text = b.symbol_text /\ c.transfer_proxy = b.transfer_proxy
<1>1. DOMAIN b = {"transfer_proxy", "lazy_transfer_proxy", "name_len", "name_text",
                  "symbol_len", "symbol_text"}
  BY SMT DEF init_body
<1> QED BY <1>1, Zenon

LEMMA ShownProxies ==
  ASSUME NEW w, Ready(w), selectorIndex = "ERC721_RARIBLE_INIT"
  PROVE  /\ DOMAIN truth = {"NAME", "SYMBOL", "TRANSFER_PROXY", "LAZY_TRANSFER_PROXY"}
         /\ body' = [body EXCEPT !["transfer_proxy"] = w] =>
              Shown' = [truth EXCEPT !["TRANSFER_PROXY"] = w]
         /\ body' = [body EXCEPT !["lazy_transfer_proxy"] = w] =>
              Shown' = [truth EXCEPT !["LAZY_TRANSFER_PROXY"] = w]
<1>1. body \in init_body /\ selectorIndex' = "ERC721_RARIBLE_INIT"
  BY Zenon DEF Ready, TypeOK, ContextTypeOK
<1>2. Shown' = [NAME |-> body'.name_text, SYMBOL |-> body'.symbol_text,
                TRANSFER_PROXY |-> body'.transfer_proxy,
                LAZY_TRANSFER_PROXY |-> body'.lazy_transfer_proxy]
  BY <1>1, ShownOfNext, Zenon
<1>3. truth = [NAME |-> body.name_text, SYMBOL |-> body.symbol_text,
               TRANSFER_PROXY |-> body.transfer_proxy,
               LAZY_TRANSFER_PROXY |-> body.lazy_transfer_proxy]
  BY ShownOf, Zenon DEF Ready, ParserOK
<1>4. DOMAIN truth = {"NAME", "SYMBOL", "TRANSFER_PROXY", "LAZY_TRANSFER_PROXY"}
  BY <1>3, SMT
<1>5. ASSUME body' = [body EXCEPT !["transfer_proxy"] = w]
      PROVE  Shown' = [truth EXCEPT !["TRANSFER_PROXY"] = w]
  <2>1. /\ body'.transfer_proxy = w /\ body'.name_text = body.name_text
        /\ body'.symbol_text = body.symbol_text
        /\ body'.lazy_transfer_proxy = body.lazy_transfer_proxy
    BY <1>1, <1>5, ProxyUpdates, Zenon
  <2>2. Shown' = [NAME |-> body.name_text, SYMBOL |-> body.symbol_text,
                  TRANSFER_PROXY |-> w, LAZY_TRANSFER_PROXY |-> body.lazy_transfer_proxy]
    BY <1>2, <2>1, Zenon
  <2> QED BY <1>3, <2>2, SMT
<1>6. ASSUME body' = [body EXCEPT !["lazy_transfer_proxy"] = w]
      PROVE  Shown' = [truth EXCEPT !["LAZY_TRANSFER_PROXY"] = w]
  <2>1. /\ body'.lazy_transfer_proxy = w /\ body'.name_text = body.name_text
        /\ body'.symbol_text = body.symbol_text
        /\ body'.transfer_proxy = body.transfer_proxy
    BY <1>1, <1>6, ProxyUpdates, Zenon
  <2>2. Shown' = [NAME |-> body.name_text, SYMBOL |-> body.symbol_text,
                  TRANSFER_PROXY |-> body.transfer_proxy, LAZY_TRANSFER_PROXY |-> w]
    BY <1>2, <2>1, Zenon
  <2> QED BY <1>3, <2>2, SMT
<1> QED BY <1>4, <1>5, <1>6

LEMMA InitStep ==
  ASSUME NEW w, Ready(w), selectorIndex = "ERC721_RARIBLE_INIT", EncodeWord(w),
         handle_erc721_rarible_init(w)
  PROVE  StepOK(w)
<1>1. CASE part = "end"
  BY <1>1, InitDispatch, EndStep, Zenon
<1>2. CASE part # "end"
  <2>1. /\ \/ field \in DOMAIN rarible_init_head \/ field \in Strings
           \/ field = "TRANSFER_PROXY" \/ field = "LAZY_TRANSFER_PROXY"
        /\ field \in DOMAIN rarible_init_head =>
             /\ StartAt(selectorIndex, pos + 1) = rarible_init_head[field]
             /\ StartParam[field] = field
        /\ field \in Strings =>
             StartAt(selectorIndex, pos + 1) = AfterString("UNEXPECTED_PARAMETER")[field]
        /\ field = "TRANSFER_PROXY" =>
             StartAt(selectorIndex, pos + 1) = "LAZY_TRANSFER_PROXY_ADDRESS"
        /\ field = "LAZY_TRANSFER_PROXY" => StartAt(selectorIndex, pos + 1) = "NAME_LENGTH"
    <3>1. pos \in 1..10
      BY <1>2, WhereReady, InitLayout, Zenon
    <3>2. field = Layout["ERC721_RARIBLE_INIT"][pos]
      BY DEF field
    <3> QED BY <3>1, <3>2, InitFields, Zenon
  <2>2. CASE part = "static" /\ field \in DOMAIN rarible_init_head
    <3>1. next_param = field
      BY <1>2, <2>1, <2>2, WhereReady, Zenon
    <3>2. /\ result' = "OK" /\ body' = body
          /\ next_param' = StartAt(selectorIndex, pos + 1)
      BY <2>1, <2>2, <3>1, InitDispatch, Zenon DEF Accept
    <3>3. Shown' = truth'
      <4>1. Shown' = Shown /\ Shown = truth
        BY <3>2, ShownAfter, Zenon DEF TextMethods, Ready, ParserOK
      <4>2. field \notin {"NAME", "SYMBOL", "TRANSFER_PROXY", "LAZY_TRANSFER_PROXY"}
        BY <2>2, SMT DEF rarible_init_head
      <4> QED BY <2>2, <4>1, <4>2, ShownProxies, StaticEncoded, Zenon DEF Tell
    <3> QED BY <2>2, <3>2, <3>3, StaticInStep, Zenon
  <2>3. CASE part = "static" /\ field = "TRANSFER_PROXY"
    <3>1. next_param = "TRANSFER_PROXY_ADDRESS"
      <4>1. StartParam["TRANSFER_PROXY"] = "TRANSFER_PROXY_ADDRESS"
        BY SMT DEF StartParam
      <4> QED BY <1>2, <2>3, <4>1, WhereReady, Zenon
    <3>2. copy_address(w) = w
      <4>1. "TRANSFER_PROXY" \in AddressFields
        BY SMT DEF AddressFields
      <4> QED BY <2>3, <4>1, StaticEncoded, Zenon
    <3>3. /\ result' = "OK" /\ body' = [body EXCEPT !["transfer_proxy"] = w]
          /\ next_param' = StartAt(selectorIndex, pos + 1)
      BY <2>1, <2>3, <3>1, <3>2, InitDispatch, Zenon DEF TakeAddress, Accept
    <3>4. Shown' = truth'
      BY <2>3, <3>3, ShownProxies, StaticEncoded, Zenon DEF Tell
    <3> QED BY <2>3, <3>3, <3>4, StaticInStep, Zenon
  <2>4. CASE part = "static" /\ field = "LAZY_TRANSFER_PROXY"
    <3>1. next_param = "LAZY_TRANSFER_PROXY_ADDRESS"
      <4>1. StartParam["LAZY_TRANSFER_PROXY"] = "LAZY_TRANSFER_PROXY_ADDRESS"
        BY SMT DEF StartParam
      <4> QED BY <1>2, <2>4, <4>1, WhereReady, Zenon
    <3>2. copy_address(w) = w
      <4>1. "LAZY_TRANSFER_PROXY" \in AddressFields
        BY SMT DEF AddressFields
      <4> QED BY <2>4, <4>1, StaticEncoded, Zenon
    <3>3. /\ result' = "OK" /\ body' = [body EXCEPT !["lazy_transfer_proxy"] = w]
          /\ next_param' = StartAt(selectorIndex, pos + 1)
      BY <2>1, <2>4, <3>1, <3>2, InitDispatch, Zenon DEF TakeAddress, Accept
    <3>4. Shown' = truth'
      BY <2>4, <3>3, ShownProxies, StaticEncoded, Zenon DEF Tell
    <3> QED BY <2>4, <3>3, <3>4, StaticInStep, Zenon
  <2>5. CASE part \in {"length", "chunk"}
    <3>1. field \in Strings /\ next_param \in name_and_uri_params
      BY <1>2, <2>5, WhereReady, StringParams, Zenon
    <3>2. names_and_uris(w, "UNEXPECTED_PARAMETER")
      BY <3>1, InitDispatch, Zenon
    <3> QED BY <2>1, <2>5, <3>1, <3>2, NamesAndUrisStep, Zenon DEF TextMethods
  <2>6. field # "OPERATORS"
    BY <2>1, SMT DEF rarible_init_head, Strings
  <2>7. part = "static" => field \notin Strings
    BY <1>2, WhereReady, SMT DEF Statics
  <2> QED BY <1>2, <2>1, <2>2, <2>3, <2>4, <2>5, <2>6, <2>7, WhereReady, Zenon
<1> QED BY <1>1, <1>2

-----------------------------------------------------------------------------
LEMMA TokenStep ==
  ASSUME TypeOK, TokenInv, Next PROVE TokenInv'
<1> SUFFICES ASSUME selectorIndex' \in TokenMethods
             PROVE  EncoderOK' /\ (result' = "OK" => ParserOK') /\ RefusedExactly'
  BY Zenon DEF TokenInv
<1>1. PICK w \in WordsToSend :
        EncodeWord(w) /\ handle_provide_parameter(w) /\ refusable' = MustRefuse(w)
  BY Zenon DEF Next, Feed
<1>2. result = "OK" /\ w \in Nat
  BY <1>1, WordsAreNaturals, Zenon DEF Next, Feed
<1>3. selectorIndex' = selectorIndex
  BY <1>1, <1>2, ProvideParameterType, Zenon DEF TypeOK
<1>4. Ready(w)
  BY <1>2, <1>3, Zenon DEF Ready, TokenInv
<1>5. StepOK(w)
  <2>1. CASE selectorIndex = "CREATE_TOKEN"
    <3>1. handle_create_token(w)
      BY <1>1, <2>1, SMT DEF handle_provide_parameter
    <3> QED BY <1>1, <1>4, <2>1, <3>1, CreateStep, Zenon
  <2>2. CASE selectorIndex = "ERC721_RARIBLE_INIT"
    <3>1. handle_erc721_rarible_init(w)
      BY <1>1, <2>2, SMT DEF handle_provide_parameter
    <3> QED BY <1>1, <1>4, <2>2, <3>1, InitStep, Zenon
  <2>3. CASE selectorIndex = "SET_APPROVED_FOR_ALL"
    <3>1. handle_set_approved_for_all(w)
      BY <1>1, <2>3, SMT DEF handle_provide_parameter
    <3> QED BY <1>1, <1>4, <2>3, <3>1, ApprovalStep, Zenon
  <2> QED BY <1>3, <2>1, <2>2, <2>3, Zenon DEF TokenMethods
<1> QED BY <1>1, <1>5, Zenon DEF StepOK, RefusedExactly

(* The encoder starts at the first field, the parser at its parameter.     *)
LEMMA TokenInit == Init => TokenInv
<1> SUFFICES ASSUME Init, selectorIndex \in TokenMethods
             PROVE  EncoderOK /\ ParserOK /\ RefusedExactly
  BY Zenon DEF TokenInv
<1>1. /\ pos = 1 /\ part = "static" /\ qty = 0 /\ sent = 0
      /\ next_param = first_param[selectorIndex] /\ body = zero_body[selectorIndex]
      /\ truth = NothingKnown[selectorIndex] /\ result = "OK" /\ refusable = FALSE
  BY Zenon DEF Init, StartCalldata
<1>2. /\ Layout[selectorIndex][1] \in Statics
      /\ first_param[selectorIndex] = StartParam[Layout[selectorIndex][1]]
      /\ Len(Layout[selectorIndex]) \in Nat /\ Len(Layout[selectorIndex]) > 0
  <2>1. /\ "NAME_OFFSET" \in Statics /\ "OPERATOR" \in Statics
        /\ StartParam["NAME_OFFSET"] = "NAME_OFFSET" /\ StartParam["OPERATOR"] = "TO"
    BY SMT DEF Statics, StartParam, Strings
  <2>2. /\ first_param["CREATE_TOKEN"] = "NAME_OFFSET"
        /\ first_param["ERC721_RARIBLE_INIT"] = "NAME_OFFSET"
        /\ first_param["SET_APPROVED_FOR_ALL"] = "TO"
    BY SMT DEF first_param
  <2> QED BY <2>1, <2>2, CreateLayout, InitLayout, ApprovalLayout, TokenFields, Zenon
      DEF TokenMethods
<1>3. field \in Statics /\ field \in DOMAIN StartParam /\ next_param = StartParam[field]
  BY <1>1, <1>2, Zenon DEF field, Statics
<1>4. part = FirstPart(field)
  BY <1>1, <1>3, FirstParts, SMT DEF Statics
<1>5. EncoderOK
  <2>1. /\ 1 \in 1..(Len(Layout[selectorIndex]) + 1)
        /\ 1 # Len(Layout[selectorIndex]) + 1
    BY <1>2, SMT
  <2>2. part # "end"
    BY <1>1, SMT
  <2> QED BY <1>1, <1>4, <2>1, <2>2, Zenon DEF EncoderOK
<1>6. Shown = truth
  <2>1. CASE selectorIndex = "CREATE_TOKEN"
    <3>1. body = zero_create
      BY <1>1, <2>1, SMT DEF zero_body
    <3>2. truth = [NAME |-> no_text, SYMBOL |-> no_text, OPERATORS |-> <<>>]
      BY <1>1, <2>1, SMT DEF NothingKnown
    <3>3. /\ body.name_text = no_text /\ body.symbol_text = no_text
          /\ body.operator_found = FALSE
      BY <3>1, SMT DEF zero_create
    <3>4. Found(body.operator_found, body.operator) = <<>>
      BY <3>3, Zenon DEF Found
    <3> QED BY <2>1, <3>2, <3>3, <3>4, ShownOf, Zenon
  <2>2. CASE selectorIndex = "ERC721_RARIBLE_INIT"
    <3>1. body = zero_init
      BY <1>1, <2>2, SMT DEF zero_body
    <3>2. truth = [NAME |-> no_text, SYMBOL |-> no_text, TRANSFER_PROXY |-> 0,
                   LAZY_TRANSFER_PROXY |-> 0]
      BY <1>1, <2>2, SMT DEF NothingKnown
    <3>3. /\ body.name_text = no_text /\ body.symbol_text = no_text
          /\ body.transfer_proxy = 0 /\ body.lazy_transfer_proxy = 0
      BY <3>1, SMT DEF zero_init
    <3> QED BY <2>2, <3>2, <3>3, ShownOf, Zenon
  <2>3. CASE selectorIndex = "SET_APPROVED_FOR_ALL"
    <3>1. body = zero_approval
      BY <1>1, <2>3, SMT DEF zero_body
    <3>2. truth = [OPERATOR |-> 0, APPROVED |-> 0]
      BY <1>1, <2>3, SMT DEF NothingKnown
    <3>3. body.to = 0 /\ body.isApproved = 0
      BY <3>1, SMT DEF zero_approval
    <3> QED BY <2>3, <3>2, <3>3, ShownOf, Zenon
  <2> QED BY <2>1, <2>2, <2>3, Zenon DEF TokenMethods
<1>7. ParserOK
  <2>1. CalledFor = StartParam[field]
    BY <1>3, <1>4, CalledForStart, Zenon DEF CalledFor
  <2>2. part # "chunk" /\ part # "first"
    BY <1>1, SMT
  <2> QED BY <1>3, <1>6, <2>1, <2>2, Zenon DEF ParserOK
<1>8. RefusedExactly
  BY <1>1, Zenon DEF RefusedExactly
<1> QED BY <1>5, <1>7, <1>8

LEMMA TokenUnchanged == TokenInv /\ UNCHANGED vars => TokenInv'
<1> SUFFICES ASSUME TokenInv, UNCHANGED vars PROVE TokenInv'
  OBVIOUS
<1>1. /\ UNCHANGED <<selectorIndex, next_param, counter, max_counter, body, result>>
      /\ UNCHANGED <<pos, part, len, qty, sent, truth, refusable>>
  BY Zenon DEF vars, contextVars, context, calldataVars
<1>2. field' = field
  BY <1>1, Zenon DEF field
<1>3. CalledFor' = CalledFor
  BY <1>1, <1>2, Zenon DEF CalledFor
<1>4. selectorIndex \in TokenMethods => Shown' = Shown
  BY <1>1, ShownOf, ShownOfNext, Zenon DEF TokenMethods
<1>5. EncoderOK => EncoderOK'
  BY <1>1, <1>2, Zenon DEF EncoderOK, WordsOf
<1>6. selectorIndex \in TokenMethods /\ ParserOK => ParserOK'
  BY <1>1, <1>2, <1>3, <1>4, Zenon DEF ParserOK, WordsOf
<1>7. RefusedExactly => RefusedExactly'
  BY <1>1, Zenon DEF RefusedExactly
<1> QED BY <1>1, <1>5, <1>6, <1>7, Zenon DEF TokenInv

(* What the invariant says of each method, in the terms of the runs. *)
LEMMA TokenInvMeans ==
  ASSUME TypeOK, TokenInv, selectorIndex \in TokenMethods
  PROVE  InStep /\ CountdownExact /\ ShownMatchesCalldata /\ RefusedExactly
<1>1. EncoderOK /\ RefusedExactly /\ (result = "OK" => ParserOK)
  BY Zenon DEF TokenInv
<1>2. selectorIndex # "MATCH_ORDERS"
  BY SMT DEF TokenMethods
<1>3. part # "end" => /\ field \in DOMAIN StartParam
                      /\ \/ part = FirstPart(field)
                         \/ part = "chunk" /\ field \in Strings
                         \/ part = "first" /\ field = "OPERATORS"
  <2>1. part # "end" => pos \in 1..Len(Layout[selectorIndex])
    BY <1>1, TokenFields, SMT DEF EncoderOK
  <2>2. part # "end" => field \in DOMAIN StartParam
    BY <2>1, TokenFields, Zenon DEF field
  <2> QED BY <1>1, <2>2, Zenon DEF EncoderOK
<1>4. /\ part # "end" => part \in {"static", "length", "quantity", "chunk", "first"}
      /\ part = "chunk" => field \in Strings
      /\ part = "first" => field = "OPERATORS"
  <2>1. part # "end" /\ part = FirstPart(field) => part \in {"static", "length", "quantity"}
    BY <1>3, FirstParts, Zenon
  <2> QED BY <1>3, <2>1, SMT
<1>5. ASSUME result = "OK" PROVE next_param \notin {"MAKE_ASSET", "TAKE_ASSET"}
  <2>1. next_param = CalledForAs(part, field)
    BY <1>1, <1>5, Zenon DEF ParserOK, CalledFor
  <2>2. \A f \in DOMAIN StartParam : StartParam[f] \notin {"MAKE_ASSET", "TAKE_ASSET"}
    BY SMT DEF StartParam
  <2>3. \A f \in Strings : f \notin {"MAKE_ASSET", "TAKE_ASSET"}
    BY SMT DEF Strings
  <2>4. CASE part = "end"
    BY <2>1, <2>4, CalledForWithin, SMT
  <2>5. CASE part # "end" /\ part = FirstPart(field)
    BY <1>3, <2>1, <2>2, <2>5, CalledForStart, Zenon
  <2>6. CASE part = "chunk" /\ field \in Strings
    BY <2>1, <2>3, <2>6, CalledForWithin, Zenon
  <2>7. CASE part = "first" /\ field = "OPERATORS"
    BY <2>1, <2>7, CalledForWithin, SMT
  <2> QED BY <1>3, <2>4, <2>5, <2>6, <2>7, Zenon
<1>6. InStep
  BY <1>1, <1>2, <1>5, Zenon DEF InStep, ParserOK
<1>7. CountdownExact
  <2> SUFFICES ASSUME result = "OK" PROVE CountdownExact
    BY Zenon DEF CountdownExact
  <2>1. /\ part = "chunk" => counter = WordsLeft
        /\ part = "chunk" /\ field \in {"NAME", "SYMBOL"} => max_counter = WordsOf(len)
        /\ part = "first" => counter = qty - sent
    BY <1>1, Zenon DEF ParserOK, WordsLeft
  <2>2. /\ part = "chunk" => field \notin {"MINT_URI", "TRANSFER_URI", "SIGNATURES"}
        /\ part = "first" => field \notin {"CREATORS", "LAST_CREATOR", "ROYALTIES"}
        /\ part \notin {"second", "offset"}
    BY <1>4, SMT DEF Strings
  <2>3. ~(qty > 0 /\ field = "SIGNATURES")
    <3>1. CASE part = "first"
      BY <1>4, <3>1, SMT
    <3>2. CASE part # "first"
      <4>1. qty = 0
        BY <1>1, <3>2, Zenon DEF EncoderOK
      <4> QED BY <4>1, SMT
    <3> QED BY <3>1, <3>2
  <2> QED BY <2>1, <2>2, <2>3, SMT DEF CountdownExact
<1>8. ShownMatchesCalldata
  BY <1>1, Zenon DEF ShownMatchesCalldata, ParserOK
<1> QED BY <1>1, <1>6, <1>7, <1>8

(* Whatever calldata a wallet sends to createToken, __ERC721Rarible_init   *)
(* and setApprovalForAll, with empty strings, long ones, any number of     *)
(* operators and counts no uint16_t holds, the parser takes each word for  *)
(* what it is, its counters agree with what is left, what it would show is *)
(* what the calldata says, and it refuses exactly what it has to.          *)
THEOREM TokenMethodsSafe ==
  Spec => [](selectorIndex \in TokenMethods =>
               InStep /\ CountdownExact /\ ShownMatchesCalldata /\ RefusedExactly)
<1>1. Init => TokenInv
  BY TokenInit
<1>2. TypeOK /\ TokenInv /\ [Next]_vars => TokenInv'
  BY TokenStep, TokenUnchanged, Zenon
<1>3. TypeOK /\ TokenInv =>
        (selectorIndex \in TokenMethods =>
           InStep /\ CountdownExact /\ ShownMatchesCalldata /\ RefusedExactly)
  BY TokenInvMeans, Zenon
<1>4. Spec => []TypeOK
  BY TypeCorrect
<1> QED BY <1>1, <1>2, <1>3, <1>4, PTL DEF Spec
=============================================================================
