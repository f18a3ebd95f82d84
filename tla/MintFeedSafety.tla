--------------------------- MODULE MintFeedSafety ---------------------------
(***************************************************************************)
(* Proofs about mintAndTransfer and transferFromOrMint: that an empty      *)
(* signature, which their parsers do not test for, changes nothing that is *)
(* shown; and that without one (and without an empty URI of a mint) they   *)
(* take each word for what it is.                                          *)
(***************************************************************************)
EXTENDS ParameterFeedTypes

(* What the screens of a mint and of a transfer are made of. *)
MintKept ==
  /\ body'.id = body.id /\ body'.beneficiary = body.beneficiary
  /\ body'.creator_found = body.creator_found /\ body'.creator = body.creator
  /\ body'.royalties = body.royalties
TransferKept ==
  /\ body'.id = body.id /\ body'.beneficiary = body.beneficiary
  /\ body'.seller = body.seller /\ body'.creator = body.creator
  /\ body'.royalties = body.royalties

(* A case among the signatures stays among them and keeps both. *)
Kept == (body \in mint_body => MintKept) /\ (body \in transfer_body => TransferKept)
OnlyCounts ==
  next_param' \in SignatureParams /\ selectorIndex' = selectorIndex /\ Kept

LEMMA Refused == ASSUME Refuse, next_param \in SignatureParams PROVE OnlyCounts
  BY Zenon DEF Refuse, context, OnlyCounts, Kept, MintKept, TransferKept

LEMMA SignatureCases ==
  ASSUME NEW w, body \in mint_body \/ body \in transfer_body,
         next_param \in SignatureParams,
         \/ signatures_qty(w) \/ signature_offset \/ signature_words(w) \/ signature_chunk
  PROVE  OnlyCounts
<1>1. CASE signatures_qty(w)
  <2>1. CASE Refuse
    BY <2>1, Refused
  <2>2. CASE /\ body' = [body EXCEPT !.signatures_qty = w, !.signatures_counter = w]
             /\ Moves(IF w = 0 THEN "UNEXPECTED_PARAMETER" ELSE "SIGNATURE_OFFSET")
    <3>1. Kept
      BY <2>2, SMT DEF Kept, MintKept, TransferKept, mint_body, transfer_body
    <3>2. next_param' \in SignatureParams /\ selectorIndex' = selectorIndex
      BY <2>2, SMT DEF Moves, Accept, SignatureParams
    <3> QED BY <3>1, <3>2, Zenon DEF OnlyCounts
  <2> QED BY <1>1, <2>1, <2>2, Zenon DEF signatures_qty
<1>2. CASE signature_offset
  <2>1. Kept
    BY <1>2, SMT DEF signature_offset, Kept, MintKept, TransferKept, mint_body, transfer_body
  <2>2. next_param' \in SignatureParams /\ selectorIndex' = selectorIndex
    BY <1>2, SMT DEF signature_offset, Moves, Accept, SignatureParams
  <2> QED BY <2>1, <2>2, Zenon DEF OnlyCounts
<1>3. CASE signature_words(w)
  <2>1. CASE Refuse
    BY <2>1, Refused
  <2>2. CASE /\ body' = [body EXCEPT !.signature_length = get_counter(w)]
             /\ Moves("SIGNATURE")
    <3>1. Kept
      BY <2>2, SMT DEF Kept, MintKept, TransferKept, mint_body, transfer_body
    <3>2. next_param' \in SignatureParams /\ selectorIndex' = selectorIndex
      BY <2>2, SMT DEF Moves, Accept, SignatureParams
    <3> QED BY <3>1, <3>2, Zenon DEF OnlyCounts
  <2> QED BY <1>3, <2>1, <2>2, Zenon DEF signature_words
<1>4. CASE signature_chunk
  <2>1. Kept
    BY <1>4, SMT DEF signature_chunk, Kept, MintKept, TransferKept, mint_body, transfer_body
  <2>2. next_param' \in SignatureParams /\ selectorIndex' = selectorIndex
    BY <1>4, SMT DEF signature_chunk, Moves, Accept, SignatureParams
  <2> QED BY <2>1, <2>2, Zenon DEF OnlyCounts
<1> QED BY <1>1, <1>2, <1>3, <1>4

(* No other case of the two methods is reached from there. *)
LEMMA MintCases ==
  ASSUME NEW w, body \in mint_body, next_param \in SignatureParams,
         handle_mint_and_transfer(w)
  PROVE  OnlyCounts
<1>1. CASE Unsupported(mint_params)
  BY <1>1, Refused, Zenon DEF Unsupported
<1>2. ~Skip(mint_skips)
  BY SMT DEF Skip, mint_skips, SignatureParams
<1>3. /\ ~TakeAddress("BENEFICIARY", "beneficiary", "ID", w)
      /\ ~uri_words(w, "WAIT_UNTIL_CREATORS") /\ ~creators_address(w, TRUE)
      /\ ~royalties_value(w, ROYALTY_MAX_VALUE)
  BY SMT DEF TakeAddress, uri_words, creators_address, royalties_value, SignatureParams
<1>4. CASE lists_and_signatures(w)
  <2>1. /\ ~take_id(w) /\ ~wait_until_creators /\ ~creators_value
        /\ ~read_quantity("CREATORS_QTY", "creators_qty", "CREATORS_ADDRESS", "ROYALTIES_QTY", w)
        /\ ~read_quantity("ROYALTIES_QTY", "royalties_qty", "ROYALTIES_ADDRESS",
                          "SIGNATURES_QTY", w)
    BY SMT DEF take_id, wait_until_creators, creators_value, read_quantity, SignatureParams
  <2> QED BY <1>4, <2>1, SignatureCases, Zenon DEF lists_and_signatures
<1> QED BY <1>1, <1>2, <1>3, <1>4, Zenon DEF handle_mint_and_transfer

LEMMA TransferCases ==
  ASSUME NEW w, body \in transfer_body, next_param \in SignatureParams,
         handle_transfer_from_or_mint(w)
  PROVE  OnlyCounts
<1>1. CASE Unsupported(mint_params \cup {"SELLER"})
  BY <1>1, Refused, Zenon DEF Unsupported
<1>2. ~Skip(mint_skips)
  BY SMT DEF Skip, mint_skips, SignatureParams
<1>3. /\ ~TakeAddress("BENEFICIARY", "seller", "SELLER", w)
      /\ ~TakeAddress("SELLER", "beneficiary", "ID", w)
      /\ ~uri_words(w, "CREATORS_QTY") /\ ~creators_address(w, FALSE)
      /\ ~royalties_value(w, U16 - 1)
  BY SMT DEF TakeAddress, uri_words, creators_address, royalties_value, SignatureParams
<1>4. CASE lists_and_signatures(w)
  <2>1. /\ ~take_id(w) /\ ~wait_until_creators /\ ~creators_value
        /\ ~read_quantity("CREATORS_QTY", "creators_qty", "CREATORS_ADDRESS", "ROYALTIES_QTY", w)
        /\ ~read_quantity("ROYALTIES_QTY", "royalties_qty", "ROYALTIES_ADDRESS",
                          "SIGNATURES_QTY", w)
    BY SMT DEF take_id, wait_until_creators, creators_value, read_quantity, SignatureParams
  <2> QED BY <1>4, <2>1, SignatureCases, Zenon DEF lists_and_signatures
<1> QED BY <1>1, <1>2, <1>3, <1>4, Zenon DEF handle_transfer_from_or_mint

LEMMA SignatureStep ==
  ASSUME TypeOK, AmongSignatures, [Next]_vars
  PROVE  AmongSignatures' /\ Shown' = Shown
<1>1. CASE UNCHANGED vars
  BY <1>1, Zenon DEF vars, contextVars, context, AmongSignatures, Shown, Found
<1>2. CASE Next
  <2>1. PICK w : handle_provide_parameter(w)
    BY <1>2, Zenon DEF Next, Feed
  <2>2. CASE selectorIndex = "MINT_AND_TRANSFER"
    <3>1. body \in mint_body /\ OnlyCounts
      BY <2>1, <2>2, MintCases, SMT
      DEF TypeOK, ContextTypeOK, AmongSignatures, handle_provide_parameter
    <3>2. MintKept
      BY <3>1, Zenon DEF OnlyCounts, Kept
    <3> QED BY <2>2, <3>1, <3>2, SMT
        DEF OnlyCounts, MintKept, AmongSignatures, MintMethods, Shown, Found
  <2>3. CASE selectorIndex = "TRANSFER_FROM_OR_MINT"
    <3>1. body \in transfer_body /\ OnlyCounts
      BY <2>1, <2>3, TransferCases, SMT
      DEF TypeOK, ContextTypeOK, AmongSignatures, handle_provide_parameter
    <3>2. TransferKept
      BY <3>1, Zenon DEF OnlyCounts, Kept
    <3> QED BY <2>3, <3>1, <3>2, SMT
        DEF OnlyCounts, TransferKept, AmongSignatures, MintMethods, Shown, Found
  <2> QED BY <2>2, <2>3, Zenon DEF AmongSignatures, MintMethods
<1> QED BY <1>1, <1>2

(* Whatever follows the list of royalties of a mint or a transfer, empty   *)
(* signatures, lengths that do not fit and words beyond the end included,  *)
(* the fields for the screens stay what they are.                          *)
THEOREM SignaturesAreNotShown == Spec => SignaturesShowNothing
<1>1. TypeOK /\ [Next]_vars => (AmongSignatures => AmongSignatures' /\ Shown' = Shown)
  BY SignatureStep, Zenon
<1> QED BY <1>1, TypeCorrect, PTL DEF Spec, SignaturesShowNothing

-----------------------------------------------------------------------------
(* The rest of the module: calldata in which neither the URI of a mint nor *)
(* a signature is empty, what the parser does not test for, keeps the      *)
(* parser of both methods in step.                                         *)
NoEmptyMintParts == {"MINT_URI", "SIGNATURES"} \cap MayBeEmpty = {}

(* The fields of both methods, and the parameter each starts with.         *)
MintStart ==
  [BODY_OFFSET |-> "BODY_OFFSET", BENEFICIARY |-> "BENEFICIARY", FROM |-> "BENEFICIARY",
   RECIPIENT |-> "SELLER", ID |-> "ID", URI_OFFSET |-> "URI_OFFSET",
   CREATORS_OFFSET |-> "CREATORS_OFFSET", ROYALTIES_OFFSET |-> "ROYALTIES_OFFSET",
   SIGNATURES_OFFSET |-> "SIGNATURES_OFFSET", MINT_URI |-> "URI_CHUNK_OFFSET",
   TRANSFER_URI |-> "URI_CHUNK_OFFSET", CREATORS |-> "CREATORS_QTY",
   LAST_CREATOR |-> "CREATORS_QTY", ROYALTIES |-> "ROYALTIES_QTY",
   SIGNATURES |-> "SIGNATURES_QTY"]

(* What follows each field. *)
MintAfter ==
  [BODY_OFFSET |-> "BENEFICIARY", BENEFICIARY |-> "ID", FROM |-> "SELLER",
   RECIPIENT |-> "ID", ID |-> "URI_OFFSET", URI_OFFSET |-> "CREATORS_OFFSET",
   CREATORS_OFFSET |-> "ROYALTIES_OFFSET", ROYALTIES_OFFSET |-> "SIGNATURES_OFFSET",
   SIGNATURES_OFFSET |-> "URI_CHUNK_OFFSET", MINT_URI |-> "CREATORS_QTY",
   TRANSFER_URI |-> "CREATORS_QTY", CREATORS |-> "ROYALTIES_QTY",
   LAST_CREATOR |-> "ROYALTIES_QTY", ROYALTIES |-> "SIGNATURES_QTY",
   SIGNATURES |-> "UNEXPECTED_PARAMETER"]

Uris == {"MINT_URI", "TRANSFER_URI"}
CreatorLists == {"CREATORS", "LAST_CREATOR"}
MintStatics == DOMAIN MintStart \ (Uris \cup CreatorLists \cup {"ROYALTIES", "SIGNATURES"})
OnlyInMint == {"BENEFICIARY", "MINT_URI", "CREATORS"}
OnlyInTransfer == {"FROM", "RECIPIENT", "TRANSFER_URI", "LAST_CREATOR"}

LEMMA MintLayout ==
  /\ Len(Layout["MINT_AND_TRANSFER"]) = 11
  /\ Layout["MINT_AND_TRANSFER"][1] = "BODY_OFFSET"
  /\ Layout["MINT_AND_TRANSFER"][2] = "BENEFICIARY"
  /\ Layout["MINT_AND_TRANSFER"][3] = "ID"
  /\ Layout["MINT_AND_TRANSFER"][4] = "URI_OFFSET"
  /\ Layout["MINT_AND_TRANSFER"][5] = "CREATORS_OFFSET"
  /\ Layout["MINT_AND_TRANSFER"][6] = "ROYALTIES_OFFSET"
  /\ Layout["MINT_AND_TRANSFER"][7] = "SIGNATURES_OFFSET"
  /\ Layout["MINT_AND_TRANSFER"][8] = "MINT_URI"
  /\ Layout["MINT_AND_TRANSFER"][9] = "CREATORS"
  /\ Layout["MINT_AND_TRANSFER"][10] = "ROYALTIES"
  /\ Layout["MINT_AND_TRANSFER"][11] = "SIGNATURES"
  BY SMT DEF Layout

LEMMA TransferLayout ==
  /\ Len(Layout["TRANSFER_FROM_OR_MINT"]) = 12
  /\ Layout["TRANSFER_FROM_OR_MINT"][1] = "BODY_OFFSET"
  /\ Layout["TRANSFER_FROM_OR_MINT"][2] = "FROM"
  /\ Layout["TRANSFER_FROM_OR_MINT"][3] = "RECIPIENT"
  /\ Layout["TRANSFER_FROM_OR_MINT"][4] = "ID"
  /\ Layout["TRANSFER_FROM_OR_MINT"][5] = "URI_OFFSET"
  /\ Layout["TRANSFER_FROM_OR_MINT"][6] = "CREATORS_OFFSET"
  /\ Layout["TRANSFER_FROM_OR_MINT"][7] = "ROYALTIES_OFFSET"
  /\ Layout["TRANSFER_FROM_OR_MINT"][8] = "SIGNATURES_OFFSET"
  /\ Layout["TRANSFER_FROM_OR_MINT"][9] = "TRANSFER_URI"
  /\ Layout["TRANSFER_FROM_OR_MINT"][10] = "LAST_CREATOR"
  /\ Layout["TRANSFER_FROM_OR_MINT"][11] = "ROYALTIES"
  /\ Layout["TRANSFER_FROM_OR_MINT"][12] = "SIGNATURES"
  BY SMT DEF Layout

(* A sequence of fields each of which starts with the parameter that       *)
(* follows the one before.                                                 *)
Chained(L, others) ==
  /\ Len(L) \in Nat /\ Len(L) > 0 /\ L[1] = "BODY_OFFSET"
  /\ \A p \in 1..Len(L) : L[p] \in DOMAIN MintStart \ others
  /\ \A p \in 1..Len(L) :
       MintAfter[L[p]] = IF p = Len(L) THEN "UNEXPECTED_PARAMETER" ELSE MintStart[L[p + 1]]

LEMMA MintChained == Chained(Layout["MINT_AND_TRANSFER"], OnlyInTransfer)
<1> DEFINE L == Layout["MINT_AND_TRANSFER"]
<1>1. /\ Len(L) = 11 /\ L[1] = "BODY_OFFSET" /\ L[2] = "BENEFICIARY" /\ L[3] = "ID"
      /\ L[4] = "URI_OFFSET" /\ L[5] = "CREATORS_OFFSET" /\ L[6] = "ROYALTIES_OFFSET"
      /\ L[7] = "SIGNATURES_OFFSET" /\ L[8] = "MINT_URI" /\ L[9] = "CREATORS"
      /\ L[10] = "ROYALTIES" /\ L[11] = "SIGNATURES"
  BY MintLayout
<1> HIDE DEF L
<1>2. \A p \in 1..11 : L[p] \in DOMAIN MintStart \ OnlyInTransfer
  BY <1>1, SMTT(30) DEF MintStart, OnlyInTransfer
<1>3. \A p \in 1..11 :
        MintAfter[L[p]] = IF p = 11 THEN "UNEXPECTED_PARAMETER" ELSE MintStart[L[p + 1]]
  BY <1>1, SMTT(30) DEF MintStart, MintAfter
<1>4. Len(L) \in Nat /\ Len(L) > 0
  BY <1>1, SMT
<1>5. Chained(L, OnlyInTransfer)
  BY <1>1, <1>2, <1>3, <1>4, Zenon DEF Chained
<1> QED BY <1>5 DEF L

LEMMA TransferChained == Chained(Layout["TRANSFER_FROM_OR_MINT"], OnlyInMint)
<1> DEFINE L == Layout["TRANSFER_FROM_OR_MINT"]
<1>1. /\ Len(L) = 12 /\ L[1] = "BODY_OFFSET" /\ L[2] = "FROM" /\ L[3] = "RECIPIENT"
      /\ L[4] = "ID" /\ L[5] = "URI_OFFSET" /\ L[6] = "CREATORS_OFFSET"
      /\ L[7] = "ROYALTIES_OFFSET" /\ L[8] = "SIGNATURES_OFFSET" /\ L[9] = "TRANSFER_URI"
      /\ L[10] = "LAST_CREATOR" /\ L[11] = "ROYALTIES" /\ L[12] = "SIGNATURES"
  BY TransferLayout
<1> HIDE DEF L
<1>2. \A p \in 1..12 : L[p] \in DOMAIN MintStart \ OnlyInMint
  BY <1>1, SMTT(30) DEF MintStart, OnlyInMint
<1>3. \A p \in 1..12 :
        MintAfter[L[p]] = IF p = 12 THEN "UNEXPECTED_PARAMETER" ELSE MintStart[L[p + 1]]
  BY <1>1, SMTT(30) DEF MintStart, MintAfter
<1>4. Len(L) \in Nat /\ Len(L) > 0
  BY <1>1, SMT
<1>5. Chained(L, OnlyInMint)
  BY <1>1, <1>2, <1>3, <1>4, Zenon DEF Chained
<1> QED BY <1>5 DEF L

LEMMA MintFirstParts ==
  \A f \in DOMAIN MintStart :
    FirstPart(f) = IF f \in Uris THEN "length"
                   ELSE IF f \in MintStatics THEN "static" ELSE "quantity"
  BY SMT DEF FirstPart, MintStart, MintStatics, Uris, CreatorLists, ByteStrings, Lists

-----------------------------------------------------------------------------
(* The inductive invariant: the places of the calldata the encoder can be  *)
(* at, and what the parser's memory is at each.                            *)

AtStart ==
  /\ InField /\ part = FirstPart(field) /\ qty = 0 /\ sent = 0 /\ done = 0
  /\ next_param = MintStart[field]
InUri ==
  /\ InField /\ part = "chunk" /\ field \in Uris /\ qty = 0 /\ sent < WordsOf(len)
  /\ next_param = "WAIT_UNTIL_CREATORS" /\ body.uri_length = WordsOf(len) - sent
AtCreator ==
  /\ InField /\ part \in {"first", "second"} /\ field \in CreatorLists /\ sent < qty
  /\ next_param = IF part = "first" THEN "CREATORS_ADDRESS" ELSE "CREATORS_VALUE"
  /\ body.creators_qty = qty - sent
AtRoyalty ==
  /\ InField /\ part \in {"first", "second"} /\ field = "ROYALTIES" /\ sent < qty
  /\ next_param = IF part = "first" THEN "ROYALTIES_ADDRESS" ELSE "ROYALTIES_VALUE"
  /\ body.royalties_qty = qty - sent
AtOffset ==
  /\ InField /\ part = "offset" /\ field = "SIGNATURES" /\ sent < qty /\ done = 0
  /\ next_param = "SIGNATURE_OFFSET"
  /\ body.signatures_counter = qty - sent /\ body.signatures_qty = qty
AtSignature ==
  /\ InField /\ part = "length" /\ field = "SIGNATURES" /\ sent = 0 /\ done < qty
  /\ next_param = "SIGNATURE_LENGTH" /\ body.signatures_qty = qty - done
InSignature ==
  /\ InField /\ part = "chunk" /\ field = "SIGNATURES" /\ sent < WordsOf(len) /\ done < qty
  /\ next_param = "SIGNATURE"
  /\ body.signature_length = WordsOf(len) - sent /\ body.signatures_qty = qty - done
AtEnd == part = "end" /\ qty = 0 /\ next_param = "UNEXPECTED_PARAMETER"

MintPlace ==
  \/ AtStart \/ InUri \/ AtCreator \/ AtRoyalty
  \/ AtOffset \/ AtSignature \/ InSignature \/ AtEnd

MintInv ==
  selectorIndex \in MintMethods =>
    /\ result = "OK" => MintPlace /\ Shown = truth
    /\ RefusedExactly

(* A word is about to be taken, and what the step has to establish.        *)
MintReady(w) ==
  /\ w \in Nat /\ TypeOK /\ NoEmptyMintParts
  /\ selectorIndex \in MintMethods /\ selectorIndex' = selectorIndex
  /\ Shown = truth /\ EncodeWord(w) /\ handle_provide_parameter(w)
MintStepOK(w) ==
  /\ result' = "OK" => MintPlace' /\ Shown' = truth'
  /\ result' = "ERROR" <=> MustRefuse(w)

LEMMA MintLength ==
  ASSUME selectorIndex \in MintMethods
  PROVE  /\ Len(Layout[selectorIndex]) \in Nat /\ Len(Layout[selectorIndex]) > 0
         /\ Layout[selectorIndex][1] = "BODY_OFFSET"
         /\ \A p \in 1..Len(Layout[selectorIndex]) :
              /\ Layout[selectorIndex][p] \in DOMAIN MintStart
              /\ MintAfter[Layout[selectorIndex][p]] =
                   IF p = Len(Layout[selectorIndex]) THEN "UNEXPECTED_PARAMETER"
                   ELSE MintStart[Layout[selectorIndex][p + 1]]
         /\ selectorIndex = "MINT_AND_TRANSFER" => 
              \A p \in 1..Len(Layout[selectorIndex]) : Layout[selectorIndex][p] \notin OnlyInTransfer
         /\ selectorIndex = "TRANSFER_FROM_OR_MINT" => 
              \A p \in 1..Len(Layout[selectorIndex]) : Layout[selectorIndex][p] \notin OnlyInMint
  BY MintChained, TransferChained, Zenon DEF MintMethods, Chained

LEMMA MintField ==
  ASSUME selectorIndex \in MintMethods, InField
  PROVE  /\ field \in DOMAIN MintStart
         /\ selectorIndex = "MINT_AND_TRANSFER" => field \notin OnlyInTransfer
         /\ selectorIndex = "TRANSFER_FROM_OR_MINT" => field \notin OnlyInMint
  BY MintLength, Zenon DEF InField, field

(* Both sides are at the next field, or at the end. *)
LEMMA MintMovesOn ==
  ASSUME NEW w, MintReady(w), InField, NextField, next_param' = MintAfter[field]
  PROVE  MintPlace'
<1> DEFINE L == Layout[selectorIndex]
<1>1. /\ Len(L) \in Nat /\ pos \in 1..Len(L) /\ selectorIndex' = selectorIndex
      /\ selectorIndex \in MintMethods /\ field = L[pos]
  BY MintLength, Zenon DEF MintReady, InField, field
<1>2. /\ qty' = 0 /\ sent' = 0 /\ done' = 0
      /\ pos = Len(L) => part' = "end"
      /\ pos # Len(L) =>
           pos' \in 1..Len(L) /\ field' = L[pos + 1] /\ part' = FirstPart(L[pos + 1])
  BY <1>1, NextFieldMoves, Zenon
<1>3. MintAfter[field] = IF pos = Len(L) THEN "UNEXPECTED_PARAMETER" ELSE MintStart[L[pos + 1]]
  BY <1>1, MintLength, Zenon
<1>4. CASE pos = Len(L)
  <2>1. AtEnd'
    BY <1>2, <1>3, <1>4, Zenon DEF AtEnd
  <2> QED BY <2>1, Zenon DEF MintPlace
<1>5. CASE pos # Len(L)
  <2>1. part' # "end"
    <3>1. field' \in DOMAIN MintStart
      BY <1>1, <1>2, <1>5, MintLength, Zenon DEF field
    <3>2. part' = FirstPart(field')
      BY <1>2, <1>5, Zenon
    <3> QED BY <3>1, <3>2, MintFirstParts, SMT
  <2>2. AtStart'
    BY <1>1, <1>2, <1>3, <1>5, <2>1, Zenon DEF AtStart, InField
  <2> QED BY <2>2, Zenon DEF MintPlace
<1> QED BY <1>4, <1>5

-----------------------------------------------------------------------------
(* The case each parameter leads to. *)

LEMMA ListsDispatch ==
  ASSUME NEW w, lists_and_signatures(w)
  PROVE  /\ next_param = "ID" => take_id(w)
         /\ next_param = "WAIT_UNTIL_CREATORS" => wait_until_creators
         /\ next_param = "CREATORS_QTY" =>
              read_quantity("CREATORS_QTY", "creators_qty", "CREATORS_ADDRESS",
                            "ROYALTIES_QTY", w)
         /\ next_param = "CREATORS_VALUE" => creators_value
         /\ next_param = "ROYALTIES_QTY" =>
              read_quantity("ROYALTIES_QTY", "royalties_qty", "ROYALTIES_ADDRESS",
                            "SIGNATURES_QTY", w)
         /\ next_param = "SIGNATURES_QTY" => signatures_qty(w)
         /\ next_param = "SIGNATURE_OFFSET" => signature_offset
         /\ next_param = "SIGNATURE_LENGTH" => signature_words(w)
         /\ next_param = "SIGNATURE" => signature_chunk
         /\ next_param \in mint_params \ (DOMAIN mint_skips \cup {"BENEFICIARY",
              "URI_CHUNK_OFFSET", "CREATORS_ADDRESS", "ROYALTIES_VALUE"})
<1>1. CASE take_id(w)
  <2>1. next_param = "ID"  BY <1>1, Zenon DEF take_id
  <2> QED BY <1>1, <2>1, SMT DEF mint_params, mint_skips
<1>2. CASE wait_until_creators
  <2>1. next_param = "WAIT_UNTIL_CREATORS"  BY <1>2, Zenon DEF wait_until_creators
  <2> QED BY <1>2, <2>1, SMT DEF mint_params, mint_skips
<1>3. CASE read_quantity("CREATORS_QTY", "creators_qty", "CREATORS_ADDRESS", "ROYALTIES_QTY", w)
  <2>1. next_param = "CREATORS_QTY"  BY <1>3, Zenon DEF read_quantity
  <2> QED BY <1>3, <2>1, SMT DEF mint_params, mint_skips
<1>4. CASE creators_value
  <2>1. next_param = "CREATORS_VALUE"  BY <1>4, Zenon DEF creators_value
  <2> QED BY <1>4, <2>1, SMT DEF mint_params, mint_skips
<1>5. CASE read_quantity("ROYALTIES_QTY", "royalties_qty", "ROYALTIES_ADDRESS",
                         "SIGNATURES_QTY", w)
  <2>1. next_param = "ROYALTIES_QTY"  BY <1>5, Zenon DEF read_quantity
  <2> QED BY <1>5, <2>1, SMT DEF mint_params, mint_skips
<1>6. CASE signatures_qty(w)
  <2>1. next_param = "SIGNATURES_QTY"  BY <1>6, Zenon DEF signatures_qty
  <2> QED BY <1>6, <2>1, SMT DEF mint_params, mint_skips
<1>7. CASE signature_offset
  <2>1. next_param = "SIGNATURE_OFFSET"  BY <1>7, Zenon DEF signature_offset
  <2> QED BY <1>7, <2>1, SMT DEF mint_params, mint_skips
<1>8. CASE signature_words(w)
  <2>1. next_param = "SIGNATURE_LENGTH"  BY <1>8, Zenon DEF signature_words
  <2> QED BY <1>8, <2>1, SMT DEF mint_params, mint_skips
<1>9. CASE signature_chunk
  <2>1. next_param = "SIGNATURE"  BY <1>9, Zenon DEF signature_chunk
  <2> QED BY <1>9, <2>1, SMT DEF mint_params, mint_skips
<1> QED BY <1>1, <1>2, <1>3, <1>4, <1>5, <1>6, <1>7, <1>8, <1>9, Zenon DEF lists_and_signatures

(* What is the same in both methods. *)
MintCase(w) ==
  /\ next_param \in DOMAIN mint_skips =>
       Accept /\ body' = body /\ next_param' = mint_skips[next_param]
  /\ next_param \in mint_params \ (DOMAIN mint_skips \cup {"BENEFICIARY",
       "URI_CHUNK_OFFSET", "CREATORS_ADDRESS", "ROYALTIES_VALUE"}) => lists_and_signatures(w)
  /\ next_param = "ROYALTIES_VALUE" => royalties_value(w, MaxRoyalty)
  /\ next_param = "UNEXPECTED_PARAMETER" => Refuse

LEMMA MintDispatch ==
  ASSUME NEW w, selectorIndex = "MINT_AND_TRANSFER", handle_mint_and_transfer(w)
  PROVE  /\ MintCase(w)
         /\ next_param = "BENEFICIARY" => TakeAddress("BENEFICIARY", "beneficiary", "ID", w)
         /\ next_param = "URI_CHUNK_OFFSET" => uri_words(w, "WAIT_UNTIL_CREATORS")
         /\ next_param = "CREATORS_ADDRESS" => creators_address(w, TRUE)
<1>1. CASE Skip(mint_skips)
  <2>1. next_param \in DOMAIN mint_skips
    BY <1>1, Zenon DEF Skip
  <2>2. /\ next_param \notin {"BENEFICIARY", "SELLER", "URI_CHUNK_OFFSET", "CREATORS_ADDRESS"}
        /\ next_param \notin {"ROYALTIES_VALUE", "UNEXPECTED_PARAMETER"}
    BY <2>1, SMT DEF mint_skips
  <2> QED BY <1>1, <2>1, <2>2, Zenon DEF Skip, MintCase
<1>2. CASE TakeAddress("BENEFICIARY", "beneficiary", "ID", w)
  <2>1. next_param = "BENEFICIARY"
    BY <1>2, Zenon DEF TakeAddress
  <2> QED BY <1>2, <2>1, SMT DEF MintCase, mint_skips
<1>3. CASE uri_words(w, "WAIT_UNTIL_CREATORS")
  <2>1. next_param = "URI_CHUNK_OFFSET"
    BY <1>3, Zenon DEF uri_words
  <2> QED BY <1>3, <2>1, SMT DEF MintCase, mint_skips
<1>4. CASE creators_address(w, TRUE)
  <2>1. next_param = "CREATORS_ADDRESS"
    BY <1>4, Zenon DEF creators_address
  <2>2. /\ next_param \notin {"BENEFICIARY", "SELLER", "URI_CHUNK_OFFSET"}
        /\ next_param \notin {"ROYALTIES_VALUE", "UNEXPECTED_PARAMETER"}
        /\ next_param \notin DOMAIN mint_skips
    BY <2>1, SMT DEF mint_skips
  <2> QED BY <1>4, <2>1, <2>2, Zenon DEF MintCase
<1>5. CASE royalties_value(w, ROYALTY_MAX_VALUE)
  <2>1. next_param = "ROYALTIES_VALUE"
    BY <1>5, Zenon DEF royalties_value
  <2>2. royalties_value(w, MaxRoyalty)
    BY <1>5, Zenon DEF MaxRoyalty
  <2> QED BY <2>1, <2>2, SMT DEF MintCase, mint_skips
<1>6. CASE lists_and_signatures(w)
  <2>1. next_param \in mint_params \ (DOMAIN mint_skips \cup {"BENEFICIARY",
          "URI_CHUNK_OFFSET", "CREATORS_ADDRESS", "ROYALTIES_VALUE"})
    BY <1>6, ListsDispatch, Zenon
  <2>2. next_param # "UNEXPECTED_PARAMETER"
    BY <2>1, SMT DEF mint_params, mint_skips
  <2> QED BY <1>6, <2>1, <2>2, Zenon DEF MintCase
<1>7. CASE Unsupported(mint_params)
  <2>1. next_param \notin mint_params /\ Refuse
    BY <1>7, Zenon DEF Unsupported
  <2>2. next_param \notin DOMAIN mint_skips \cup
          {"BENEFICIARY", "URI_CHUNK_OFFSET", "CREATORS_ADDRESS", "ROYALTIES_VALUE"}
    BY <2>1, SMT DEF mint_params
  <2> QED BY <2>1, <2>2, Zenon DEF MintCase
<1> QED BY <1>1, <1>2, <1>3, <1>4, <1>5, <1>6, <1>7, Zenon DEF handle_mint_and_transfer

LEMMA TransferDispatch ==
  ASSUME NEW w, selectorIndex = "TRANSFER_FROM_OR_MINT", handle_transfer_from_or_mint(w)
  PROVE  /\ MintCase(w)
         /\ next_param = "BENEFICIARY" => TakeAddress("BENEFICIARY", "seller", "SELLER", w)
         /\ next_param = "SELLER" => TakeAddress("SELLER", "beneficiary", "ID", w)
         /\ next_param = "URI_CHUNK_OFFSET" => uri_words(w, "CREATORS_QTY")
         /\ next_param = "CREATORS_ADDRESS" => creators_address(w, FALSE)
<1>1. CASE Skip(mint_skips)
  <2>1. next_param \in DOMAIN mint_skips
    BY <1>1, Zenon DEF Skip
  <2>2. /\ next_param \notin {"BENEFICIARY", "SELLER", "URI_CHUNK_OFFSET", "CREATORS_ADDRESS"}
        /\ next_param \notin {"ROYALTIES_VALUE", "UNEXPECTED_PARAMETER"}
    BY <2>1, SMT DEF mint_skips
  <2> QED BY <1>1, <2>1, <2>2, Zenon DEF Skip, MintCase
<1>2. CASE TakeAddress("BENEFICIARY", "seller", "SELLER", w)
  <2>1. next_param = "BENEFICIARY"
    BY <1>2, Zenon DEF TakeAddress
  <2> QED BY <1>2, <2>1, SMT DEF MintCase, mint_skips
<1>8. CASE TakeAddress("SELLER", "beneficiary", "ID", w)
  <2>1. next_param = "SELLER"
    BY <1>8, Zenon DEF TakeAddress
  <2> QED BY <1>8, <2>1, SMT DEF MintCase, mint_skips, mint_params
<1>3. CASE uri_words(w, "CREATORS_QTY")
  <2>1. next_param = "URI_CHUNK_OFFSET"
    BY <1>3, Zenon DEF uri_words
  <2> QED BY <1>3, <2>1, SMT DEF MintCase, mint_skips
<1>4. CASE creators_address(w, FALSE)
  <2>1. next_param = "CREATORS_ADDRESS"
    BY <1>4, Zenon DEF creators_address
  <2>2. /\ next_param \notin {"BENEFICIARY", "SELLER", "URI_CHUNK_OFFSET"}
        /\ next_param \notin {"ROYALTIES_VALUE", "UNEXPECTED_PARAMETER"}
        /\ next_param \notin DOMAIN mint_skips
    BY <2>1, SMT DEF mint_skips
  <2> QED BY <1>4, <2>1, <2>2, Zenon DEF MintCase
<1>5. CASE royalties_value(w, U16 - 1)
  <2>1. next_param = "ROYALTIES_VALUE"
    BY <1>5, Zenon DEF royalties_value
  <2>2. royalties_value(w, MaxRoyalty)
    <3>1. MaxRoyalty = U16 - 1
      BY SMT DEF MaxRoyalty
    <3> QED BY <1>5, <3>1, Zenon
  <2> QED BY <2>1, <2>2, SMT DEF MintCase, mint_skips
<1>6. CASE lists_and_signatures(w)
  <2>1. next_param \in mint_params \ (DOMAIN mint_skips \cup {"BENEFICIARY",
          "URI_CHUNK_OFFSET", "CREATORS_ADDRESS", "ROYALTIES_VALUE"})
    BY <1>6, ListsDispatch, Zenon
  <2>2. next_param # "UNEXPECTED_PARAMETER" /\ next_param # "SELLER"
    BY <2>1, SMT DEF mint_params, mint_skips
  <2> QED BY <1>6, <2>1, <2>2, Zenon DEF MintCase
<1>7. CASE Unsupported(mint_params \cup {"SELLER"})
  <2>1. next_param \notin mint_params /\ next_param # "SELLER" /\ Refuse
    BY <1>7, Zenon DEF Unsupported
  <2>2. next_param \notin DOMAIN mint_skips \cup
          {"BENEFICIARY", "URI_CHUNK_OFFSET", "CREATORS_ADDRESS", "ROYALTIES_VALUE"}
    BY <2>1, SMT DEF mint_params
  <2> QED BY <2>1, <2>2, Zenon DEF MintCase
<1> QED BY <1>1, <1>2, <1>3, <1>4, <1>5, <1>6, <1>7, <1>8, Zenon DEF handle_transfer_from_or_mint

(* The case of a word that is ready, by method. *)
LEMMA ReadyCase ==
  ASSUME NEW w, MintReady(w)
  PROVE  /\ MintCase(w)
         /\ selectorIndex = "MINT_AND_TRANSFER" => handle_mint_and_transfer(w)
         /\ selectorIndex = "TRANSFER_FROM_OR_MINT" => handle_transfer_from_or_mint(w)
<1>1. /\ selectorIndex = "MINT_AND_TRANSFER" => handle_mint_and_transfer(w)
      /\ selectorIndex = "TRANSFER_FROM_OR_MINT" => handle_transfer_from_or_mint(w)
  BY SMT DEF MintReady, handle_provide_parameter
<1>2. selectorIndex = "MINT_AND_TRANSFER" \/ selectorIndex = "TRANSFER_FROM_OR_MINT"
  BY Zenon DEF MintReady, MintMethods
<1> QED BY <1>1, <1>2, MintDispatch, TransferDispatch, Zenon

LEMMA ReadyLists ==
  ASSUME NEW w, MintReady(w)
  PROVE  /\ next_param = "ID" => take_id(w)
         /\ next_param = "WAIT_UNTIL_CREATORS" => wait_until_creators
         /\ next_param = "CREATORS_QTY" =>
              read_quantity("CREATORS_QTY", "creators_qty", "CREATORS_ADDRESS",
                            "ROYALTIES_QTY", w)
         /\ next_param = "CREATORS_VALUE" => creators_value
         /\ next_param = "ROYALTIES_QTY" =>
              read_quantity("ROYALTIES_QTY", "royalties_qty", "ROYALTIES_ADDRESS",
                            "SIGNATURES_QTY", w)
         /\ next_param = "SIGNATURES_QTY" => signatures_qty(w)
         /\ next_param = "SIGNATURE_OFFSET" => signature_offset
         /\ next_param = "SIGNATURE_LENGTH" => signature_words(w)
         /\ next_param = "SIGNATURE" => signature_chunk
<1>1. {"ID", "WAIT_UNTIL_CREATORS", "CREATORS_QTY", "CREATORS_VALUE", "ROYALTIES_QTY",
       "SIGNATURES_QTY", "SIGNATURE_OFFSET", "SIGNATURE_LENGTH", "SIGNATURE"}
        \subseteq mint_params \ (DOMAIN mint_skips \cup {"BENEFICIARY",
                    "URI_CHUNK_OFFSET", "CREATORS_ADDRESS", "ROYALTIES_VALUE"})
  BY SMT DEF mint_params, mint_skips
<1>2. next_param \in {"ID", "WAIT_UNTIL_CREATORS", "CREATORS_QTY", "CREATORS_VALUE",
        "ROYALTIES_QTY", "SIGNATURES_QTY", "SIGNATURE_OFFSET", "SIGNATURE_LENGTH",
        "SIGNATURE"} => lists_and_signatures(w)
  BY <1>1, ReadyCase, Zenon DEF MintCase
<1> QED BY <1>2, ListsDispatch, Zenon

-----------------------------------------------------------------------------
(* What is shown of the two methods, member by member. *)

MintMembers ==
  {"id", "beneficiary", "creator", "royalties", "uri_length", "creators_qty",
   "royalties_qty", "signatures_qty", "signatures_counter", "signature_length"}
ShownMembers == {"id", "beneficiary", "creator_found", "seller", "creator", "royalties"}

LEMMA MintBody ==
  ASSUME TypeOK, selectorIndex \in MintMethods
  PROVE  /\ MintMembers \subseteq DOMAIN body
         /\ selectorIndex = "MINT_AND_TRANSFER" => "creator_found" \in DOMAIN body
         /\ selectorIndex = "TRANSFER_FROM_OR_MINT" => "seller" \in DOMAIN body
         /\ body.uri_length \in Nat /\ body.creators_qty \in Nat /\ body.royalties_qty \in Nat
         /\ body.signatures_qty \in Nat /\ body.signatures_counter \in Nat
         /\ body.signature_length \in Nat
<1>0. Count \subseteq Nat
  BY Bounds, SMT DEF Count
<1>1. CASE selectorIndex = "MINT_AND_TRANSFER"
  <2>1. body \in mint_body
    BY <1>1, Zenon DEF TypeOK, ContextTypeOK
  <2>2. DOMAIN body = {"id", "beneficiary", "creator_found", "creator", "royalties",
                       "uri_length", "creators_qty", "royalties_qty", "signatures_qty",
                       "signatures_counter", "signature_length"}
    BY <2>1, SMT DEF mint_body
  <2>3. /\ body.uri_length \in Count /\ body.creators_qty \in Count
        /\ body.royalties_qty \in Count /\ body.signatures_qty \in Count
        /\ body.signatures_counter \in Count /\ body.signature_length \in Count
    BY <2>1, SMT DEF mint_body
  <2>4. MintMembers \subseteq DOMAIN body /\ "creator_found" \in DOMAIN body
    BY <2>2, Zenon DEF MintMembers
  <2>5. selectorIndex # "TRANSFER_FROM_OR_MINT"
    BY <1>1, SMT
  <2> QED BY <1>0, <2>3, <2>4, <2>5, Zenon
<1>2. CASE selectorIndex = "TRANSFER_FROM_OR_MINT"
  <2>1. body \in transfer_body
    BY <1>2, Zenon DEF TypeOK, ContextTypeOK
  <2>2. DOMAIN body = {"id", "beneficiary", "seller", "creator", "royalties",
                       "uri_length", "creators_qty", "royalties_qty", "signatures_qty",
                       "signatures_counter", "signature_length"}
    BY <2>1, SMT DEF transfer_body
  <2>3. /\ body.uri_length \in Count /\ body.creators_qty \in Count
        /\ body.royalties_qty \in Count /\ body.signatures_qty \in Count
        /\ body.signatures_counter \in Count /\ body.signature_length \in Count
    BY <2>1, SMT DEF transfer_body
  <2>4. MintMembers \subseteq DOMAIN body /\ "seller" \in DOMAIN body
    BY <2>2, Zenon DEF MintMembers
  <2>5. selectorIndex # "MINT_AND_TRANSFER"
    BY <1>2, SMT
  <2> QED BY <1>0, <2>3, <2>4, <2>5, Zenon
<1> QED BY <1>1, <1>2, Zenon DEF MintMethods

LEMMA MintShown ==
  /\ selectorIndex = "MINT_AND_TRANSFER" =>
       Shown = [ID |-> body.id, BENEFICIARY |-> body.beneficiary,
                CREATORS |-> Found(body.creator_found, body.creator),
                ROYALTIES |-> body.royalties]
  /\ selectorIndex = "TRANSFER_FROM_OR_MINT" =>
       Shown = [ID |-> body.id, FROM |-> body.seller, RECIPIENT |-> body.beneficiary,
                LAST_CREATOR |-> body.creator, ROYALTIES |-> body.royalties]
  BY SMT DEF Shown

LEMMA MintShownNext ==
  /\ selectorIndex' = "MINT_AND_TRANSFER" =>
       Shown' = [ID |-> body'.id, BENEFICIARY |-> body'.beneficiary,
                 CREATORS |-> Found(body'.creator_found, body'.creator),
                 ROYALTIES |-> body'.royalties]
  /\ selectorIndex' = "TRANSFER_FROM_OR_MINT" =>
       Shown' = [ID |-> body'.id, FROM |-> body'.seller, RECIPIENT |-> body'.beneficiary,
                 LAST_CREATOR |-> body'.creator, ROYALTIES |-> body'.royalties]
  BY SMT DEF Shown, Found

(* No shown member changes, or one does. *)
KeptBut(X) == \A y \in (ShownMembers \cap DOMAIN body) \ X : body'[y] = body[y]

LEMMA MintShownAfter ==
  ASSUME NEW w, MintReady(w)
  PROVE  /\ KeptBut({}) => Shown' = Shown
         /\ \A v : KeptBut({"id"}) /\ body'.id = v => Shown' = [Shown EXCEPT !["ID"] = v]
         /\ \A v : KeptBut({"royalties"}) /\ body'.royalties = v =>
                     Shown' = [Shown EXCEPT !["ROYALTIES"] = v]
         /\ \A v : KeptBut({"beneficiary"}) /\ body'.beneficiary = v =>
              Shown' = [Shown EXCEPT ![IF selectorIndex = "MINT_AND_TRANSFER"
                                       THEN "BENEFICIARY" ELSE "RECIPIENT"] = v]
         /\ \A v : KeptBut({"seller"}) /\ body'.seller = v
                     /\ selectorIndex = "TRANSFER_FROM_OR_MINT" =>
                     Shown' = [Shown EXCEPT !["FROM"] = v]
         /\ \A v : KeptBut({"creator", "creator_found"}) /\ body'.creator = v
                     /\ body'.creator_found = TRUE /\ selectorIndex = "MINT_AND_TRANSFER" =>
                     Shown' = [Shown EXCEPT !["CREATORS"] = <<v>>]
         /\ \A v : KeptBut({"creator"}) /\ body'.creator = v
                     /\ selectorIndex = "TRANSFER_FROM_OR_MINT" =>
                     Shown' = [Shown EXCEPT !["LAST_CREATOR"] = v]
         /\ DOMAIN Shown = IF selectorIndex = "MINT_AND_TRANSFER"
                           THEN {"ID", "BENEFICIARY", "CREATORS", "ROYALTIES"}
                           ELSE {"ID", "FROM", "RECIPIENT", "LAST_CREATOR", "ROYALTIES"}
<1>1. MintMembers \subseteq DOMAIN body /\ selectorIndex' = selectorIndex
  BY MintBody, Zenon DEF MintReady
<1>2. {"id", "beneficiary", "creator", "royalties"} \subseteq ShownMembers \cap DOMAIN body
  BY <1>1, SMT DEF MintMembers, ShownMembers
<1>3. "creator_found" \in ShownMembers /\ "seller" \in ShownMembers
  BY SMT DEF ShownMembers
<1> DEFINE B == body'
           S == Shown'
<1>4. CASE selectorIndex = "MINT_AND_TRANSFER"
  <2>1. "creator_found" \in DOMAIN body
    BY <1>4, MintBody, Zenon DEF MintReady
  <2>2. Shown = [ID |-> body.id, BENEFICIARY |-> body.beneficiary,
                 CREATORS |-> Found(body.creator_found, body.creator),
                 ROYALTIES |-> body.royalties]
    BY <1>4, MintShown, Zenon
  <2>3. S = [ID |-> B.id, BENEFICIARY |-> B.beneficiary,
             CREATORS |-> Found(B.creator_found, B.creator), ROYALTIES |-> B.royalties]
    BY <1>1, <1>4, MintShownNext, Zenon
  <2>4. \A X : KeptBut(X) =>
          /\ "id" \notin X => B.id = body.id
          /\ "beneficiary" \notin X => B.beneficiary = body.beneficiary
          /\ "creator_found" \notin X => B.creator_found = body.creator_found
          /\ "creator" \notin X => B.creator = body.creator
          /\ "royalties" \notin X => B.royalties = body.royalties
    BY <1>2, <1>3, <2>1, Zenon DEF KeptBut
  <2> HIDE DEF B, S
  <2> DEFINE c == Found(body.creator_found, body.creator)
  <2>5. ASSUME KeptBut({}) PROVE S = Shown
    <3>1. /\ B.id = body.id /\ B.beneficiary = body.beneficiary
          /\ B.creator_found = body.creator_found /\ B.creator = body.creator
          /\ B.royalties = body.royalties
      BY <2>4, <2>5, SMT
    <3> QED BY <2>2, <2>3, <3>1, Zenon
  <2>6. ASSUME NEW v, KeptBut({"id"}), B.id = v PROVE S = [Shown EXCEPT !["ID"] = v]
    <3>1. S = [ID |-> v, BENEFICIARY |-> body.beneficiary, CREATORS |-> c,
               ROYALTIES |-> body.royalties]
      <4>1. /\ B.beneficiary = body.beneficiary /\ B.creator_found = body.creator_found
            /\ B.creator = body.creator /\ B.royalties = body.royalties
        BY <2>4, <2>6, SMT
      <4> QED BY <2>3, <2>6, <4>1, Zenon
    <3> HIDE DEF c
    <3>2. Shown = [ID |-> body.id, BENEFICIARY |-> body.beneficiary, CREATORS |-> c,
                   ROYALTIES |-> body.royalties]
      BY <2>2 DEF c
    <3> QED BY <3>1, <3>2, SMT
  <2>7. ASSUME NEW v, KeptBut({"royalties"}), B.royalties = v
        PROVE  S = [Shown EXCEPT !["ROYALTIES"] = v]
    <3>1. S = [ID |-> body.id, BENEFICIARY |-> body.beneficiary, CREATORS |-> c,
               ROYALTIES |-> v]
      <4>1. /\ B.beneficiary = body.beneficiary /\ B.creator_found = body.creator_found
            /\ B.creator = body.creator /\ B.id = body.id
        BY <2>4, <2>7, SMT
      <4> QED BY <2>3, <2>7, <4>1, Zenon
    <3> HIDE DEF c
    <3>2. Shown = [ID |-> body.id, BENEFICIARY |-> body.beneficiary, CREATORS |-> c,
                   ROYALTIES |-> body.royalties]
      BY <2>2 DEF c
    <3> QED BY <3>1, <3>2, SMT
  <2>8. ASSUME NEW v, KeptBut({"beneficiary"}), B.beneficiary = v
        PROVE  S = [Shown EXCEPT !["BENEFICIARY"] = v]
    <3>1. S = [ID |-> body.id, BENEFICIARY |-> v, CREATORS |-> c,
               ROYALTIES |-> body.royalties]
      <4>1. /\ B.royalties = body.royalties /\ B.creator_found = body.creator_found
            /\ B.creator = body.creator /\ B.id = body.id
        BY <2>4, <2>8, SMT
      <4> QED BY <2>3, <2>8, <4>1, Zenon
    <3> HIDE DEF c
    <3>2. Shown = [ID |-> body.id, BENEFICIARY |-> body.beneficiary, CREATORS |-> c,
                   ROYALTIES |-> body.royalties]
      BY <2>2 DEF c
    <3> QED BY <3>1, <3>2, SMT
  <2>9. ASSUME NEW v, KeptBut({"creator", "creator_found"}), B.creator = v,
               B.creator_found = TRUE
        PROVE  S = [Shown EXCEPT !["CREATORS"] = <<v>>]
    <3>1. S = [ID |-> body.id, BENEFICIARY |-> body.beneficiary, CREATORS |-> <<v>>,
               ROYALTIES |-> body.royalties]
      <4>1. /\ B.royalties = body.royalties /\ B.id = body.id
            /\ B.beneficiary = body.beneficiary
        BY <2>4, <2>9, SMT
      <4>2. Found(B.creator_found, B.creator) = <<v>>
        BY <2>9, Zenon DEF Found
      <4> QED BY <2>3, <4>1, <4>2, Zenon
    <3> HIDE DEF c
    <3>2. Shown = [ID |-> body.id, BENEFICIARY |-> body.beneficiary, CREATORS |-> c,
                   ROYALTIES |-> body.royalties]
      BY <2>2 DEF c
    <3> QED BY <3>1, <3>2, SMT
  <2>10. DOMAIN Shown = {"ID", "BENEFICIARY", "CREATORS", "ROYALTIES"}
    <3> HIDE DEF c
    <3>1. Shown = [ID |-> body.id, BENEFICIARY |-> body.beneficiary, CREATORS |-> c,
                   ROYALTIES |-> body.royalties]
      BY <2>2 DEF c
    <3> QED BY <3>1, SMT
  <2>11. selectorIndex # "TRANSFER_FROM_OR_MINT"
    BY <1>4, SMT
  <2> QED BY <1>4, <2>5, <2>6, <2>7, <2>8, <2>9, <2>10, <2>11, Zenon DEF B, S
<1>5. CASE selectorIndex = "TRANSFER_FROM_OR_MINT"
  <2>1. "seller" \in DOMAIN body
    BY <1>5, MintBody, Zenon DEF MintReady
  <2>2. Shown = [ID |-> body.id, FROM |-> body.seller, RECIPIENT |-> body.beneficiary,
                 LAST_CREATOR |-> body.creator, ROYALTIES |-> body.royalties]
    BY <1>5, MintShown, Zenon
  <2>3. S = [ID |-> B.id, FROM |-> B.seller, RECIPIENT |-> B.beneficiary,
             LAST_CREATOR |-> B.creator, ROYALTIES |-> B.royalties]
    BY <1>1, <1>5, MintShownNext, Zenon
  <2>4. \A X : KeptBut(X) =>
          /\ "id" \notin X => B.id = body.id
          /\ "beneficiary" \notin X => B.beneficiary = body.beneficiary
          /\ "seller" \notin X => B.seller = body.seller
          /\ "creator" \notin X => B.creator = body.creator
          /\ "royalties" \notin X => B.royalties = body.royalties
    BY <1>2, <1>3, <2>1, Zenon DEF KeptBut
  <2> HIDE DEF B, S
  <2>5. ASSUME KeptBut({}) PROVE S = Shown
    <3>1. /\ B.id = body.id /\ B.beneficiary = body.beneficiary
          /\ B.seller = body.seller /\ B.creator = body.creator
          /\ B.royalties = body.royalties
      BY <2>4, <2>5, SMT
    <3> QED BY <2>2, <2>3, <3>1, Zenon
  <2>6. ASSUME NEW v, KeptBut({"id"}), B.id = v PROVE S = [Shown EXCEPT !["ID"] = v]
    <3>1. S = [ID |-> v, FROM |-> body.seller, RECIPIENT |-> body.beneficiary,
               LAST_CREATOR |-> body.creator, ROYALTIES |-> body.royalties]
      BY <2>3, <2>4, <2>6, SMT
    <3> QED BY <2>2, <3>1, SMT
  <2>7. ASSUME NEW v, KeptBut({"royalties"}), B.royalties = v
        PROVE  S = [Shown EXCEPT !["ROYALTIES"] = v]
    <3>1. S = [ID |-> body.id, FROM |-> body.seller, RECIPIENT |-> body.beneficiary,
               LAST_CREATOR |-> body.creator, ROYALTIES |-> v]
      BY <2>3, <2>4, <2>7, SMT
    <3> QED BY <2>2, <3>1, SMT
  <2>8. ASSUME NEW v, KeptBut({"beneficiary"}), B.beneficiary = v
        PROVE  S = [Shown EXCEPT !["RECIPIENT"] = v]
    <3>1. S = [ID |-> body.id, FROM |-> body.seller, RECIPIENT |-> v,
               LAST_CREATOR |-> body.creator, ROYALTIES |-> body.royalties]
      BY <2>3, <2>4, <2>8, SMT
    <3> QED BY <2>2, <3>1, SMT
  <2>9. ASSUME NEW v, KeptBut({"seller"}), B.seller = v
        PROVE  S = [Shown EXCEPT !["FROM"] = v]
    <3>1. S = [ID |-> body.id, FROM |-> v, RECIPIENT |-> body.beneficiary,
               LAST_CREATOR |-> body.creator, ROYALTIES |-> body.royalties]
      BY <2>3, <2>4, <2>9, SMT
    <3> QED BY <2>2, <3>1, SMT
  <2>10. ASSUME NEW v, KeptBut({"creator"}), B.creator = v
         PROVE  S = [Shown EXCEPT !["LAST_CREATOR"] = v]
    <3>1. S = [ID |-> body.id, FROM |-> body.seller, RECIPIENT |-> body.beneficiary,
               LAST_CREATOR |-> v, ROYALTIES |-> body.royalties]
      BY <2>3, <2>4, <2>10, SMT
    <3> QED BY <2>2, <3>1, SMT
  <2>11. DOMAIN Shown = {"ID", "FROM", "RECIPIENT", "LAST_CREATOR", "ROYALTIES"}
    BY <2>2, SMT
  <2>12. selectorIndex # "MINT_AND_TRANSFER"
    BY <1>5, SMT
  <2> QED BY <1>5, <2>5, <2>6, <2>7, <2>8, <2>9, <2>10, <2>11, <2>12, Zenon DEF B, S
<1> QED BY <1>4, <1>5, Zenon DEF MintReady, MintMethods

LEMMA MemberAssigned ==
  ASSUME NEW x \in DOMAIN body, NEW v, body' = [body EXCEPT ![x] = v]
  PROVE  /\ body'[x] = v /\ DOMAIN body' = DOMAIN body
         /\ \A y \in DOMAIN body \ {x} : body'[y] = body[y]
         /\ KeptBut({x}) /\ (x \notin ShownMembers => KeptBut({}))
<1>1. /\ body'[x] = v /\ DOMAIN body' = DOMAIN body
      /\ \A y \in DOMAIN body \ {x} : body'[y] = body[y]
  BY Assigned, Zenon
<1> QED BY <1>1, Zenon DEF KeptBut

-----------------------------------------------------------------------------
(* The words of the head. *)

LEMMA MintStaticFields ==
  \A f \in MintStatics :
    /\ f \notin Uris /\ f # "ROYALTIES" /\ f # "SIGNATURES" /\ f \notin CreatorLists
    /\ f \in DOMAIN mint_skips \/ f \in {"ID", "BENEFICIARY", "FROM", "RECIPIENT"}
    /\ f \in DOMAIN mint_skips => MintStart[f] = f /\ MintAfter[f] = mint_skips[f]
    /\ f \in DOMAIN mint_skips =>
         f \notin {"ID", "BENEFICIARY", "CREATORS", "ROYALTIES", "FROM", "RECIPIENT",
                   "LAST_CREATOR"}
  BY SMT DEF MintStatics, MintStart, MintAfter, mint_skips, Uris, CreatorLists

LEMMA MintStaticStep ==
  ASSUME NEW w, MintReady(w), AtStart, field \in MintStatics
  PROVE  MintStepOK(w)
<1>1. /\ InField /\ next_param = MintStart[field] /\ field \in DOMAIN MintStart
      /\ field \notin Uris
      /\ selectorIndex = "MINT_AND_TRANSFER" => field \notin OnlyInTransfer
      /\ selectorIndex = "TRANSFER_FROM_OR_MINT" => field \notin OnlyInMint
      /\ selectorIndex = "MINT_AND_TRANSFER" \/ selectorIndex = "TRANSFER_FROM_OR_MINT"
  BY MintField, MintStaticFields, Zenon DEF AtStart, MintReady, MintMethods
<1>2. part = "static"
  BY <1>1, MintFirstParts, Zenon DEF AtStart
<1>3. NextField /\ Tell(w) /\ (field \in AddressFields => copy_address(w) = w)
  BY <1>2, WordOfPart, AddressesFit, Zenon DEF MintReady, StaticWord
<1>4. ~MustRefuse(w)
  BY <1>2, SMT DEF MustRefuse
<1>5. ASSUME result' = "OK", next_param' = MintAfter[field], Shown' = truth'
      PROVE  MintStepOK(w)
  BY <1>1, <1>3, <1>4, <1>5, MintMovesOn, Zenon DEF MintStepOK
<1>6. CASE field \in DOMAIN mint_skips
  <2>1. /\ next_param = field /\ MintAfter[field] = mint_skips[field]
        /\ field \notin {"ID", "BENEFICIARY", "CREATORS", "ROYALTIES", "FROM", "RECIPIENT",
                         "LAST_CREATOR"}
    BY <1>1, <1>6, MintStaticFields, Zenon
  <2>2. result' = "OK" /\ body' = body /\ next_param' = MintAfter[field]
    BY <1>6, <2>1, ReadyCase, Zenon DEF MintCase, Accept
  <2>3. Shown' = truth
    BY <2>2, MintShownAfter, Zenon DEF KeptBut, MintReady
  <2>4. field \notin DOMAIN truth
    BY <2>1, MintShownAfter, Zenon DEF MintReady
  <2> QED BY <1>3, <1>5, <2>2, <2>3, <2>4, Zenon DEF Tell
<1>7. CASE field = "ID"
  <2>1. next_param = "ID" /\ MintAfter[field] = "URI_OFFSET"
    BY <1>1, <1>7, SMT DEF MintStart, MintAfter
  <2>2. body' = [body EXCEPT !["id"] = w] /\ next_param' = "URI_OFFSET" /\ result' = "OK"
    BY <2>1, ReadyLists, Zenon DEF take_id, Moves, Accept
  <2>3. Shown' = [truth EXCEPT !["ID"] = w]
    <3>1. "id" \in DOMAIN body
      BY MintBody, Zenon DEF MintReady, MintMembers
    <3> QED BY <2>2, <3>1, MemberAssigned, MintShownAfter, Zenon DEF MintReady
  <2>4. "ID" \in DOMAIN truth
    BY MintShownAfter, Zenon DEF MintReady
  <2> QED BY <1>3, <1>5, <1>7, <2>1, <2>2, <2>3, <2>4, Zenon DEF Tell
<1>8. CASE field = "BENEFICIARY"
  <2>1. next_param = "BENEFICIARY" /\ MintAfter[field] = "ID" /\ field \in AddressFields
    BY <1>1, <1>8, SMT DEF MintStart, MintAfter, AddressFields
  <2>2. selectorIndex = "MINT_AND_TRANSFER"
    BY <1>1, <1>8, Zenon DEF OnlyInMint
  <2>3. body' = [body EXCEPT !["beneficiary"] = w] /\ next_param' = "ID" /\ result' = "OK"
    BY <1>3, <2>1, <2>2, ReadyCase, MintDispatch, Zenon DEF TakeAddress, Accept
  <2>4. Shown' = [truth EXCEPT !["BENEFICIARY"] = w]
    <3>1. "beneficiary" \in DOMAIN body
      BY MintBody, Zenon DEF MintReady, MintMembers
    <3> QED BY <2>2, <2>3, <3>1, MemberAssigned, MintShownAfter, Zenon DEF MintReady
  <2>5. "BENEFICIARY" \in DOMAIN truth
    BY <2>2, MintShownAfter, Zenon DEF MintReady
  <2> QED BY <1>3, <1>5, <1>8, <2>1, <2>3, <2>4, <2>5, Zenon DEF Tell
<1>9. CASE field = "FROM"
  <2>1. next_param = "BENEFICIARY" /\ MintAfter[field] = "SELLER" /\ field \in AddressFields
    BY <1>1, <1>9, SMT DEF MintStart, MintAfter, AddressFields
  <2>2. selectorIndex = "TRANSFER_FROM_OR_MINT" /\ selectorIndex # "MINT_AND_TRANSFER"
    <3>1. field \in OnlyInTransfer
      BY <1>9, Zenon DEF OnlyInTransfer
    <3> QED BY <1>1, <3>1, Zenon
  <2>3. body' = [body EXCEPT !["seller"] = w] /\ next_param' = "SELLER" /\ result' = "OK"
    BY <1>3, <2>1, <2>2, ReadyCase, TransferDispatch, Zenon DEF TakeAddress, Accept
  <2>4. Shown' = [truth EXCEPT !["FROM"] = w]
    <3>1. "seller" \in DOMAIN body
      BY <2>2, MintBody, Zenon DEF MintReady
    <3> QED BY <2>2, <2>3, <3>1, MemberAssigned, MintShownAfter, Zenon DEF MintReady
  <2>5. "FROM" \in DOMAIN truth
    BY <2>2, MintShownAfter, Zenon DEF MintReady
  <2> QED BY <1>3, <1>5, <1>9, <2>1, <2>3, <2>4, <2>5, Zenon DEF Tell
<1>10. CASE field = "RECIPIENT"
  <2>1. next_param = "SELLER" /\ MintAfter[field] = "ID" /\ field \in AddressFields
    BY <1>1, <1>10, SMT DEF MintStart, MintAfter, AddressFields
  <2>2. selectorIndex = "TRANSFER_FROM_OR_MINT" /\ selectorIndex # "MINT_AND_TRANSFER"
    <3>1. field \in OnlyInTransfer
      BY <1>10, Zenon DEF OnlyInTransfer
    <3> QED BY <1>1, <3>1, Zenon
  <2>3. body' = [body EXCEPT !["beneficiary"] = w] /\ next_param' = "ID" /\ result' = "OK"
    BY <1>3, <2>1, <2>2, ReadyCase, TransferDispatch, Zenon DEF TakeAddress, Accept
  <2>4. Shown' = [truth EXCEPT !["RECIPIENT"] = w]
    <3>1. "beneficiary" \in DOMAIN body
      BY MintBody, Zenon DEF MintReady, MintMembers
    <3> QED BY <2>2, <2>3, <3>1, MemberAssigned, MintShownAfter, Zenon DEF MintReady
  <2>5. "RECIPIENT" \in DOMAIN truth
    BY <2>2, MintShownAfter, Zenon DEF MintReady
  <2> QED BY <1>3, <1>5, <1>10, <2>1, <2>3, <2>4, <2>5, Zenon DEF Tell
<1> QED BY <1>6, <1>7, <1>8, <1>9, <1>10, MintStaticFields, Zenon

-----------------------------------------------------------------------------
(* The URI, which is not shown. *)

LEMMA NotShown ==
  ASSUME NEW w, MintReady(w), field \in Uris \cup {"SIGNATURES"}
  PROVE  field \notin DOMAIN truth
<1>1. field \notin {"ID", "BENEFICIARY", "CREATORS", "ROYALTIES"}
        /\ field \notin {"ID", "FROM", "RECIPIENT", "LAST_CREATOR", "ROYALTIES"}
  BY SMT DEF Uris
<1> QED BY <1>1, MintShownAfter, Zenon DEF MintReady

LEMMA UriWordsStep ==
  ASSUME NEW w, MintReady(w), AtStart, field \in Uris
  PROVE  MintStepOK(w)
<1>1. /\ InField /\ next_param = "URI_CHUNK_OFFSET" /\ MintAfter[field] = "CREATORS_QTY"
      /\ qty = 0 /\ sent = 0
  BY SMT DEF AtStart, Uris, MintStart, MintAfter
<1>2. part = "length"
  BY <1>1, MintField, MintFirstParts, Zenon DEF AtStart, MintReady
<1>3. LengthWord(w)
  BY <1>2, WordOfPart, Zenon DEF MintReady
<1>4. MustRefuse(w) <=> ~FitsU16(w)
  BY <1>2, CountIsRefused, Zenon DEF MintReady
<1>5. CASE Refuse /\ ~FitsU16(w)
  BY <1>4, <1>5, SMT DEF Refuse, MintStepOK
<1> DEFINE empty == IF selectorIndex = "MINT_AND_TRANSFER" THEN "WAIT_UNTIL_CREATORS"
                    ELSE "CREATORS_QTY"
<1>6. CASE /\ FitsU16(w)
           /\ body' = [body EXCEPT !["uri_length"] = get_counter(w)]
           /\ next_param' = IF get_counter(w) = 0 THEN empty ELSE "WAIT_UNTIL_CREATORS"
           /\ result' = "OK"
  <2>1. "uri_length" \in DOMAIN body /\ "uri_length" \notin ShownMembers
    <3>1. "uri_length" \in MintMembers /\ "uri_length" \notin ShownMembers
      BY SMT DEF MintMembers, ShownMembers
    <3> QED BY <3>1, MintBody, Zenon DEF MintReady
  <2>2. Shown' = truth' /\ body'.uri_length = get_counter(w)
    <3>1. truth' = truth
      BY <1>3, Zenon DEF LengthWord
    <3> QED BY <1>6, <2>1, <3>1, MemberAssigned, MintShownAfter, Zenon DEF MintReady
  <2>3. get_counter(w) = WordsOf(w) /\ WordsOf(w) \in Nat /\ (w > 0 => WordsOf(w) > 0)
    BY GetCounterRoundsUp, WordsOfNat, Zenon DEF MintReady, WordsOf
  <2>4. CASE w = 0 /\ field \in MayBeEmpty /\ EndOfString
    <3>1. NextField
      BY <1>1, <2>4, SMT DEF EndOfString, InSignatures
    <3>2. field = "TRANSFER_URI"
      BY <2>4, SMT DEF Uris, MintReady, NoEmptyMintParts
    <3>3. empty = "CREATORS_QTY"
      <4>1. field \in OnlyInTransfer
        BY <3>2, Zenon DEF OnlyInTransfer
      <4> QED BY <1>1, <4>1, MintField, Zenon DEF MintReady
    <3>4. get_counter(w) = 0
      BY <2>3, <2>4, SMT DEF WordsOf
    <3> QED BY <1>1, <1>4, <1>6, <2>2, <3>1, <3>3, <3>4, MintMovesOn, Zenon DEF MintStepOK
  <2>5. CASE w > 0 /\ part' = "chunk" /\ len' = w /\ UNCHANGED <<pos, qty, sent, done>>
    <3>1. InField' /\ field' = field
      <4>1. part' # "end" /\ selectorIndex' = selectorIndex
        BY <2>5, SMT DEF MintReady
      <4> QED BY <1>1, <2>5, <4>1, StaysInField, Zenon
    <3>2. /\ body'.uri_length = WordsOf(len') - sent' /\ sent' < WordsOf(len')
          /\ next_param' = "WAIT_UNTIL_CREATORS"
      <4>1. /\ body'.uri_length = WordsOf(w) - 0 /\ 0 < WordsOf(w)
            /\ next_param' = "WAIT_UNTIL_CREATORS"
        BY <1>6, <2>2, <2>3, <2>5, SMT
      <4> QED BY <1>1, <2>5, <4>1, Zenon
    <3>3. InUri'
      BY <1>1, <2>5, <3>1, <3>2, Zenon DEF InUri, WordsOf
    <3> QED BY <1>4, <1>6, <2>2, <3>3, Zenon DEF MintStepOK, MintPlace
  <2> QED BY <1>3, <2>4, <2>5, Zenon DEF LengthWord
<1>7. CASE selectorIndex = "MINT_AND_TRANSFER"
  <2>1. uri_words(w, "WAIT_UNTIL_CREATORS")
    BY <1>1, <1>7, ReadyCase, MintDispatch, Zenon
  <2> QED BY <1>5, <1>6, <1>7, <2>1, Zenon DEF uri_words, Moves, Accept
<1>8. CASE selectorIndex = "TRANSFER_FROM_OR_MINT"
  <2>1. uri_words(w, "CREATORS_QTY")
    BY <1>1, <1>8, ReadyCase, TransferDispatch, Zenon
  <2>2. selectorIndex # "MINT_AND_TRANSFER"
    BY <1>8, SMT
  <2> QED BY <1>5, <1>6, <2>1, <2>2, Zenon DEF uri_words, Moves, Accept
<1> QED BY <1>7, <1>8, Zenon DEF MintReady, MintMethods

LEMMA UriChunkWordStep ==
  ASSUME NEW w, MintReady(w), InUri
  PROVE  MintStepOK(w)
<1>1. /\ InField /\ part = "chunk" /\ qty = 0 /\ next_param = "WAIT_UNTIL_CREATORS"
      /\ sent \in Nat /\ len \in Nat /\ WordsOf(len) \in Nat /\ sent < WordsOf(len)
      /\ body.uri_length = WordsOf(len) - sent
  BY WordsOfNat, Zenon DEF InUri, MintReady, TypeOK
<1>2. ChunkWord(w)
  BY <1>1, WordOfPart, Zenon DEF MintReady
<1>3. truth' = truth
  BY <1>2, NotShown, Zenon DEF ChunkWord, Tell, InUri
<1>4. body' = [body EXCEPT !["uri_length"] = Minus1(body.uri_length)]
      /\ result' = "OK"
      /\ next_param' = IF body'.uri_length = 0 THEN "CREATORS_QTY" ELSE "WAIT_UNTIL_CREATORS"
  BY <1>1, ReadyLists, Zenon DEF wait_until_creators, Moves, Accept
<1>5. "uri_length" \in DOMAIN body /\ "uri_length" \notin ShownMembers
  <2>1. "uri_length" \in MintMembers /\ "uri_length" \notin ShownMembers
    BY SMT DEF MintMembers, ShownMembers
  <2> QED BY <2>1, MintBody, Zenon DEF MintReady
<1>6. Shown' = truth' /\ body'.uri_length = Minus1(body.uri_length)
  BY <1>3, <1>4, <1>5, MemberAssigned, MintShownAfter, Zenon DEF MintReady
<1>7. body'.uri_length = WordsOf(len) - (sent + 1)
  <2>1. Minus1(WordsOf(len) - sent) = WordsOf(len) - (sent + 1)
    <3>1. WordsOf(len) - sent \in Nat /\ WordsOf(len) - sent > 0
      BY <1>1, SMT
    <3>2. Minus1(WordsOf(len) - sent) = (WordsOf(len) - sent) - 1
      BY <3>1, CountsDown, Zenon
    <3> QED BY <1>1, <3>2, SMT
  <2> QED BY <1>1, <1>6, <2>1, Zenon
<1>8. ~MustRefuse(w)
  BY <1>1, SMT DEF MustRefuse
<1>9. CASE sent + 1 < WordsOf(len)
  <2>1. sent' = sent + 1 /\ UNCHANGED <<pos, part, len, qty, done>>
    BY <1>2, <1>9, Zenon DEF ChunkWord
  <2>2. InField' /\ field' = field
    BY <1>1, <2>1, StaysInField, Zenon DEF InField, MintReady
  <2>3. next_param' = "WAIT_UNTIL_CREATORS"
    <3>1. WordsOf(len) - (sent + 1) # 0
      BY <1>1, <1>9, SMT
    <3> QED BY <1>4, <1>7, <3>1, Zenon
  <2>4. InUri'
    BY <1>1, <1>7, <1>9, <2>1, <2>2, <2>3, Zenon DEF InUri, WordsOf
  <2> QED BY <1>4, <1>6, <1>8, <2>4, Zenon DEF MintStepOK, MintPlace
<1>10. CASE ~(sent + 1 < WordsOf(len))
  <2>1. NextField
    BY <1>1, <1>2, <1>10, SMT DEF ChunkWord, EndOfString, InSignatures
  <2>2. next_param' = MintAfter[field]
    <3>1. WordsOf(len) - (sent + 1) = 0
      BY <1>1, <1>10, SMT
    <3>2. MintAfter[field] = "CREATORS_QTY"
      BY SMT DEF InUri, Uris, MintAfter
    <3> QED BY <1>4, <1>7, <3>1, <3>2, Zenon
  <2> QED BY <1>1, <1>4, <1>6, <1>8, <2>1, <2>2, MintMovesOn, Zenon DEF MintStepOK
<1> QED BY <1>9, <1>10

-----------------------------------------------------------------------------
(* The lists of creators and royalties. *)

(* A count of the body that is not shown takes a new value. *)
LEMMA CountAssigned ==
  ASSUME NEW w, MintReady(w), NEW x \in MintMembers \ ShownMembers, NEW v,
         body' = [body EXCEPT ![x] = v]
  PROVE  /\ body'[x] = v /\ Shown' = truth
         /\ \A y \in DOMAIN body \ {x} : body'[y] = body[y]
<1>1. x \in DOMAIN body /\ x \notin ShownMembers
  BY MintBody, Zenon DEF MintReady
<1> QED BY <1>1, MemberAssigned, MintShownAfter, Zenon DEF MintReady

LEMMA HiddenCounts ==
  {"uri_length", "creators_qty", "royalties_qty", "signatures_qty", "signatures_counter",
   "signature_length"} \subseteq MintMembers \ ShownMembers
  BY SMT DEF MintMembers, ShownMembers

LEMMA ListBegins ==
  ASSUME NEW w, MintReady(w), AtStart, field \in CreatorLists \cup {"ROYALTIES"},
         NEW member \in {"creators_qty", "royalties_qty"}, NEW element,
         read_quantity(MintStart[field], member, element, MintAfter[field], w)
  PROVE  \/ MintStepOK(w)
         \/ /\ result' = "OK" /\ Shown' = truth' /\ ~MustRefuse(w)
            /\ InField' /\ field' = field /\ part' = "first" /\ sent' < qty'
            /\ body'[member] = qty' - sent' /\ next_param' = element
<1>1. /\ InField /\ qty = 0 /\ sent = 0
      /\ field \notin Uris /\ field \notin MintStatics /\ field # "SIGNATURES"
  BY SMT DEF AtStart, Uris, MintStatics, CreatorLists
<1>2. part = "quantity"
  BY <1>1, MintField, MintFirstParts, Zenon DEF AtStart, MintReady
<1>3. QuantityWord(w)
  BY <1>2, WordOfPart, Zenon DEF MintReady
<1>4. MustRefuse(w) <=> ~FitsU16(w)
  BY <1>2, CountIsRefused, Zenon DEF MintReady
<1>5. CASE Refuse /\ ~FitsU16(w)
  BY <1>4, <1>5, SMT DEF Refuse, MintStepOK
<1>6. CASE /\ FitsU16(w) /\ body' = [body EXCEPT ![member] = w]
           /\ next_param' = IF w = 0 THEN MintAfter[field] ELSE element
           /\ result' = "OK"
  <2>1. Shown' = truth' /\ body'[member] = w
    <3>1. member \in MintMembers \ ShownMembers
      BY HiddenCounts, Zenon
    <3>2. truth' = truth
      BY <1>3, Zenon DEF QuantityWord
    <3> QED BY <1>6, <3>1, <3>2, CountAssigned, Zenon
  <2>2. CASE w = 0 /\ NextField
    BY <1>1, <1>4, <1>6, <2>1, <2>2, MintMovesOn, Zenon DEF MintStepOK
  <2>3. CASE w > 0 /\ part' = "first" /\ qty' = w /\ UNCHANGED <<pos, len, sent, done>>
    <3>1. InField' /\ field' = field
      <4>1. part' # "end" /\ selectorIndex' = selectorIndex /\ pos' = pos
        BY <2>3, SMT DEF MintReady
      <4> QED BY <1>1, <4>1, StaysInField, Zenon
    <3>2. w # 0 /\ 0 < w /\ w - 0 = w
      BY <2>3, SMT DEF MintReady
    <3> QED BY <1>1, <1>4, <1>6, <2>1, <2>3, <3>1, <3>2, Zenon
  <2> QED BY <1>1, <1>3, <2>2, <2>3, Zenon DEF QuantityWord
<1> QED BY <1>5, <1>6, Zenon DEF read_quantity, Moves, Accept

LEMMA CreatorsQtyStep ==
  ASSUME NEW w, MintReady(w), AtStart, field \in CreatorLists
  PROVE  MintStepOK(w)
<1>1. /\ MintStart[field] = "CREATORS_QTY" /\ MintAfter[field] = "ROYALTIES_QTY"
      /\ "creators_qty" \in {"creators_qty", "royalties_qty"}
  BY SMT DEF CreatorLists, MintStart, MintAfter
<1>2. read_quantity(MintStart[field], "creators_qty", "CREATORS_ADDRESS", MintAfter[field], w)
  BY <1>1, ReadyLists, Zenon DEF AtStart
<1>3. ASSUME /\ result' = "OK" /\ Shown' = truth' /\ ~MustRefuse(w)
             /\ InField' /\ field' = field /\ part' = "first" /\ sent' < qty'
             /\ body'["creators_qty"] = qty' - sent' /\ next_param' = "CREATORS_ADDRESS"
      PROVE  MintStepOK(w)
  <2>1. AtCreator'
    BY <1>3, Zenon DEF AtCreator
  <2> QED BY <1>3, <2>1, Zenon DEF MintStepOK, MintPlace
<1> QED BY <1>1, <1>2, <1>3, ListBegins, Zenon

LEMMA RoyaltiesQtyStep ==
  ASSUME NEW w, MintReady(w), AtStart, field = "ROYALTIES"
  PROVE  MintStepOK(w)
<1>1. /\ MintStart[field] = "ROYALTIES_QTY" /\ MintAfter[field] = "SIGNATURES_QTY"
      /\ "royalties_qty" \in {"creators_qty", "royalties_qty"}
  BY SMT DEF MintStart, MintAfter
<1>2. read_quantity(MintStart[field], "royalties_qty", "ROYALTIES_ADDRESS", MintAfter[field], w)
  BY <1>1, ReadyLists, Zenon DEF AtStart
<1>3. ASSUME /\ result' = "OK" /\ Shown' = truth' /\ ~MustRefuse(w)
             /\ InField' /\ field' = field /\ part' = "first" /\ sent' < qty'
             /\ body'["royalties_qty"] = qty' - sent' /\ next_param' = "ROYALTIES_ADDRESS"
      PROVE  MintStepOK(w)
  <2>1. AtRoyalty'
    BY <1>3, Zenon DEF AtRoyalty
  <2> QED BY <1>3, <2>1, Zenon DEF MintStepOK, MintPlace
<1> QED BY <1>1, <1>2, <1>3, ListBegins, Zenon

(* The two words of a list's element: the second ends it. *)
LEMMA ElementEnds ==
  ASSUME NEW w, MintReady(w), InField, qty \in Nat, sent \in Nat, sent < qty,
         field # "SIGNATURES", EndOfElement
  PROVE  /\ sent + 1 < qty =>
              /\ InField' /\ field' = field /\ part' = "first" /\ sent' < qty'
              /\ qty' = qty /\ sent' = sent + 1
         /\ ~(sent + 1 < qty) => NextField
<1>1. CASE sent + 1 < qty
  <2>1. /\ sent' = sent + 1 /\ part' = "first" /\ UNCHANGED <<pos, len, qty, done>>
    BY <1>1, Zenon DEF EndOfElement
  <2>2. part' # "end"
    BY <2>1, SMT
  <2> QED BY <1>1, <2>1, <2>2, StaysInField, Zenon DEF MintReady
<1>2. CASE ~(sent + 1 < qty)
  BY <1>2, Zenon DEF EndOfElement
<1> QED BY <1>1, <1>2

LEMMA MintNats ==
  ASSUME NEW w, MintReady(w)
  PROVE  /\ w \in Nat /\ sent \in Nat /\ qty \in Nat /\ len \in Nat /\ done \in Nat
         /\ WordsOf(len) \in Nat
  BY WordsOfNat, Zenon DEF MintReady, TypeOK

(* The address of a creator: that of the last one is shown. *)
LEMMA CreatorAddressStep ==
  ASSUME NEW w, MintReady(w), AtCreator, part = "first"
  PROVE  MintStepOK(w)
<1>1. /\ InField /\ next_param = "CREATORS_ADDRESS" /\ body.creators_qty = qty - sent
      /\ field \in CreatorLists /\ sent < qty
      /\ w \in Nat /\ sent \in Nat /\ qty \in Nat
  BY MintNats, Zenon DEF AtCreator
<1>2. field # "ROYALTIES" /\ field # "OPERATORS"
  BY <1>1, SMT DEF CreatorLists
<1>3. FirstWord(w) /\ w \in Addresses /\ copy_address(w) = w
  <2>1. FirstWord(w)
    BY WordOfPart, Zenon DEF MintReady
  <2> QED BY <2>1, AddressesFit, Zenon DEF FirstWord
<1>4. part' = "second" /\ UNCHANGED <<pos, len, qty, sent, done>>
  BY <1>2, <1>3, Zenon DEF FirstWord
<1>5. body.creators_qty = 1 <=> sent + 1 = qty
  <2>1. qty - sent = 1 <=> sent + 1 = qty
    BY <1>1, OneFewer, Zenon
  <2> QED BY <1>1, <2>1, SMT
<1>6. ~MustRefuse(w)
  BY SMT DEF MustRefuse
<1>7. InField' /\ field' = field
  <2>1. part' # "end" /\ pos' = pos /\ selectorIndex' = selectorIndex
    BY <1>4, SMT DEF MintReady
  <2> QED BY <1>1, <2>1, StaysInField, Zenon
<1>8. ASSUME /\ result' = "OK" /\ next_param' = "CREATORS_VALUE"
             /\ Shown' = truth' /\ body'.creators_qty = body.creators_qty
      PROVE  MintStepOK(w)
  <2>1. part' # "first"
    BY <1>4, SMT
  <2>2. AtCreator'
    BY <1>1, <1>4, <1>7, <1>8, <2>1, Zenon DEF AtCreator
  <2> QED BY <1>6, <1>8, <2>2, Zenon DEF MintStepOK, MintPlace
<1>9. CASE sent + 1 # qty
  <2>1. truth' = truth
    BY <1>3, <1>9, Zenon DEF FirstWord
  <2>2. body' = body /\ result' = "OK" /\ next_param' = "CREATORS_VALUE"
    <3>1. CASE selectorIndex = "MINT_AND_TRANSFER"
      <4>1. creators_address(w, TRUE)
        BY <1>1, <3>1, ReadyCase, MintDispatch, Zenon
      <4> QED BY <1>5, <1>9, <4>1, Zenon DEF creators_address, Moves, Accept
    <3>2. CASE selectorIndex = "TRANSFER_FROM_OR_MINT"
      <4>1. creators_address(w, FALSE)
        BY <1>1, <3>2, ReadyCase, TransferDispatch, Zenon
      <4> QED BY <1>5, <1>9, <4>1, Zenon DEF creators_address, Moves, Accept
    <3> QED BY <3>1, <3>2, Zenon DEF MintReady, MintMethods
  <2>3. Shown' = truth
    BY <2>2, MintShownAfter, Zenon DEF KeptBut, MintReady
  <2> QED BY <1>8, <2>1, <2>2, <2>3, Zenon
<1>10. CASE sent + 1 = qty
  <2>1. Tell(IF field = "LAST_CREATOR" THEN w ELSE <<w>>)
    BY <1>2, <1>3, <1>10, Zenon DEF FirstWord
  <2>2. "creators_qty" \in DOMAIN body /\ "creator" \in DOMAIN body
    BY MintBody, SMT DEF MintReady, MintMembers
  <2>3. CASE selectorIndex = "MINT_AND_TRANSFER"
    <3>1. creators_address(w, TRUE)
      BY <1>1, <2>3, ReadyCase, MintDispatch, Zenon
    <3>2. /\ body' = [body EXCEPT !.creator_found = TRUE, !.creator = w]
          /\ result' = "OK" /\ next_param' = "CREATORS_VALUE"
      BY <1>3, <1>5, <1>10, <3>1, Zenon DEF creators_address, Moves, Accept
    <3>3. "creator_found" \in DOMAIN body
      BY <2>3, MintBody, Zenon DEF MintReady
    <3>4. /\ body'.creator = w /\ body'.creator_found = TRUE
          /\ \A y \in DOMAIN body \ {"creator", "creator_found"} : body'[y] = body[y]
      <4>1. "creator_found" # "creator"
        BY SMT
      <4> QED BY <2>2, <3>2, <3>3, <4>1, TwoAssigned, Zenon
    <3>5. KeptBut({"creator", "creator_found"})
      BY <3>4, Zenon DEF KeptBut
    <3>6. Shown' = [truth EXCEPT !["CREATORS"] = <<w>>]
      BY <2>3, <3>4, <3>5, MintShownAfter, Zenon DEF MintReady
    <3>7. field = "CREATORS" /\ field # "LAST_CREATOR"
      <4>1. field \notin OnlyInTransfer
        BY <1>1, <2>3, MintField, Zenon DEF MintReady
      <4> QED BY <1>1, <4>1, SMT DEF CreatorLists, OnlyInTransfer
    <3>8. "CREATORS" \in DOMAIN truth
      BY <2>3, MintShownAfter, Zenon DEF MintReady
    <3>9. body'.creators_qty = body.creators_qty
      <4>1. "creators_qty" \notin {"creator", "creator_found"}
        BY SMT
      <4> QED BY <2>2, <3>4, <4>1, Zenon
    <3> QED BY <1>8, <2>1, <3>2, <3>6, <3>7, <3>8, <3>9, Zenon DEF Tell
  <2>4. CASE selectorIndex = "TRANSFER_FROM_OR_MINT"
    <3>1. creators_address(w, FALSE)
      BY <1>1, <2>4, ReadyCase, TransferDispatch, Zenon
    <3>2. /\ body' = [body EXCEPT !["creator"] = w]
          /\ result' = "OK" /\ next_param' = "CREATORS_VALUE"
      BY <1>3, <1>5, <1>10, <3>1, Zenon DEF creators_address, Moves, Accept
    <3>3. /\ body'["creator"] = w /\ KeptBut({"creator"})
          /\ \A y \in DOMAIN body \ {"creator"} : body'[y] = body[y]
      BY <2>2, <3>2, MemberAssigned, Zenon
    <3>4. Shown' = [truth EXCEPT !["LAST_CREATOR"] = w]
      BY <2>4, <3>3, MintShownAfter, Zenon DEF MintReady
    <3>5. field = "LAST_CREATOR"
      <4>1. field \notin OnlyInMint
        BY <1>1, <2>4, MintField, Zenon DEF MintReady
      <4> QED BY <1>1, <4>1, SMT DEF CreatorLists, OnlyInMint
    <3>6. "LAST_CREATOR" \in DOMAIN truth
      <4>1. selectorIndex # "MINT_AND_TRANSFER"
        BY <2>4, SMT
      <4> QED BY <4>1, MintShownAfter, Zenon DEF MintReady
    <3>7. body'.creators_qty = body.creators_qty
      <4>1. "creators_qty" \notin {"creator"}
        BY SMT
      <4> QED BY <2>2, <3>3, <4>1, Zenon
    <3> QED BY <1>8, <2>1, <3>2, <3>4, <3>5, <3>6, <3>7, Zenon DEF Tell
  <2> QED BY <2>3, <2>4, Zenon DEF MintReady, MintMethods
<1> QED BY <1>9, <1>10

(* The value of a creator, which counts the creators down. *)
LEMMA CreatorValueStep ==
  ASSUME NEW w, MintReady(w), AtCreator, part = "second"
  PROVE  MintStepOK(w)
<1>1. /\ InField /\ body.creators_qty = qty - sent
      /\ field \in CreatorLists /\ sent < qty
      /\ w \in Nat /\ sent \in Nat /\ qty \in Nat
  BY MintNats, Zenon DEF AtCreator
<1>2. /\ field # "ROYALTIES" /\ field # "SIGNATURES" /\ MintAfter[field] = "ROYALTIES_QTY"
      /\ next_param = "CREATORS_VALUE"
  BY <1>1, SMT DEF CreatorLists, MintAfter, AtCreator
<1>3. SecondWord(w)
  BY WordOfPart, Zenon DEF MintReady
<1>4. truth' = truth /\ EndOfElement
  BY <1>2, <1>3, Zenon DEF SecondWord
<1>5. /\ body' = [body EXCEPT !["creators_qty"] = Minus1(body.creators_qty)]
      /\ next_param' = IF body'.creators_qty # 0 THEN "CREATORS_ADDRESS" ELSE "ROYALTIES_QTY"
      /\ result' = "OK"
  BY <1>2, ReadyLists, Zenon DEF creators_value, Moves, Accept
<1>6. Shown' = truth' /\ body'.creators_qty = qty - (sent + 1)
  <2>1. Shown' = truth /\ body'["creators_qty"] = Minus1(body.creators_qty)
    BY <1>5, HiddenCounts, CountAssigned, Zenon
  <2>2. Minus1(qty - sent) = qty - (sent + 1)
    <3>1. sent \in Nat /\ qty \in Nat /\ sent < qty
      BY <1>1, Zenon
    <3> QED BY <3>1, OneFewer, Zenon
  <2> QED BY <1>1, <1>4, <2>1, <2>2, Zenon
<1>7. ~MustRefuse(w)
  BY <1>2, SMT DEF MustRefuse
<1>8. CASE sent + 1 < qty
  <2>1. /\ InField' /\ field' = field /\ part' = "first" /\ sent' < qty'
        /\ qty' = qty /\ sent' = sent + 1
    BY <1>1, <1>2, <1>4, <1>8, ElementEnds, Zenon
  <2>2. next_param' = "CREATORS_ADDRESS"
    BY <1>1, <1>5, <1>6, <1>8, OneFewer, Zenon
  <2>3. AtCreator'
    BY <1>1, <1>6, <2>1, <2>2, Zenon DEF AtCreator
  <2> QED BY <1>5, <1>6, <1>7, <2>3, Zenon DEF MintStepOK, MintPlace
<1>9. CASE ~(sent + 1 < qty)
  <2>1. NextField
    BY <1>1, <1>2, <1>4, <1>9, ElementEnds, Zenon
  <2>2. next_param' = MintAfter[field]
    BY <1>1, <1>2, <1>5, <1>6, <1>9, OneFewer, Zenon
  <2> QED BY <1>1, <1>5, <1>6, <1>7, <2>1, <2>2, MintMovesOn, Zenon DEF MintStepOK
<1> QED BY <1>8, <1>9

LEMMA RoyaltyAddressStep ==
  ASSUME NEW w, MintReady(w), AtRoyalty, part = "first"
  PROVE  MintStepOK(w)
<1>1. /\ InField /\ next_param = "ROYALTIES_ADDRESS" /\ field = "ROYALTIES"
  BY Zenon DEF AtRoyalty
<1>2. FirstWord(w) /\ field # "OPERATORS"
  BY <1>1, WordOfPart, SMT DEF MintReady
<1>3. truth' = truth /\ part' = "second" /\ UNCHANGED <<pos, len, qty, sent, done>>
  BY <1>1, <1>2, Zenon DEF FirstWord
<1>4. next_param \in DOMAIN mint_skips /\ mint_skips[next_param] = "ROYALTIES_VALUE"
  BY <1>1, SMT DEF mint_skips
<1>5. result' = "OK" /\ body' = body /\ next_param' = "ROYALTIES_VALUE"
  BY <1>4, ReadyCase, Zenon DEF MintCase, Accept
<1>6. Shown' = truth'
  BY <1>3, <1>5, MintShownAfter, Zenon DEF KeptBut, MintReady
<1>7. InField' /\ field' = field
  <2>1. part' # "end" /\ pos' = pos /\ selectorIndex' = selectorIndex
    BY <1>3, SMT DEF MintReady
  <2> QED BY <1>1, <2>1, StaysInField, Zenon
<1>8. ~MustRefuse(w)
  BY SMT DEF MustRefuse
<1>9. AtRoyalty'
  <2>1. part' # "first"
    BY <1>3, SMT
  <2> QED BY <1>3, <1>5, <1>7, <2>1, Zenon DEF AtRoyalty
<1> QED BY <1>5, <1>6, <1>8, <1>9, Zenon DEF MintStepOK, MintPlace

LEMMA RoyaltyLimit == MaxRoyalty \in Nat /\ MaxRoyalty < U16
  BY Bounds, SMT DEF MaxRoyalty, ROYALTY_MAX_VALUE

(* The value of a royalty: the last one is shown, if it is not too large. *)
LEMMA RoyaltyValueStep ==
  ASSUME NEW w, MintReady(w), AtRoyalty, part = "second"
  PROVE  MintStepOK(w)
<1>1. /\ InField /\ body.royalties_qty = qty - sent
      /\ field = "ROYALTIES" /\ sent < qty
      /\ w \in Nat /\ sent \in Nat /\ qty \in Nat
  BY MintNats, Zenon DEF AtRoyalty
<1>2. /\ field # "SIGNATURES" /\ MintAfter[field] = "SIGNATURES_QTY"
      /\ next_param = "ROYALTIES_VALUE"
  BY <1>1, SMT DEF MintAfter, AtRoyalty
<1>3. SecondWord(w)
  BY WordOfPart, Zenon DEF MintReady
<1>4. EndOfElement /\ IF sent + 1 = qty THEN Tell(w) ELSE truth' = truth
  BY <1>1, <1>3, Zenon DEF SecondWord
<1>5. body.royalties_qty = 1 <=> sent + 1 = qty
  <2>1. qty - sent = 1 <=> sent + 1 = qty
    BY <1>1, OneFewer, Zenon
  <2> QED BY <1>1, <2>1, SMT
<1>6. MustRefuse(w) <=> sent + 1 = qty /\ w > MaxRoyalty
  BY <1>1, SMT DEF MustRefuse
<1>7. royalties_value(w, MaxRoyalty)
  BY <1>2, ReadyCase, Zenon DEF MintCase
<1>8. CASE body.royalties_qty = 1 /\ ~FitsU16(w) /\ Refuse
  <2>1. w > MaxRoyalty
    BY <1>1, <1>8, RoyaltyLimit, Bounds, SMT DEF FitsU16
  <2> QED BY <1>5, <1>6, <1>8, <2>1, SMT DEF Refuse, MintStepOK
<1>9. CASE body.royalties_qty = 1 /\ w > MaxRoyalty /\ result' = "ERROR"
  BY <1>5, <1>6, <1>9, SMT DEF MintStepOK
<1>10. CASE /\ body.royalties_qty = 1 => w <= MaxRoyalty
            /\ body' = [body EXCEPT !.royalties = IF body.royalties_qty = 1 THEN w ELSE @,
                                    !.royalties_qty = Minus1(@)]
            /\ next_param' = IF body'.royalties_qty # 0 THEN "ROYALTIES_ADDRESS"
                             ELSE "SIGNATURES_QTY"
            /\ result' = "OK"
  <2>1. ~MustRefuse(w)
    BY <1>1, <1>5, <1>6, <1>10, RoyaltyLimit, SMT
  <2> DEFINE v == IF body.royalties_qty = 1 THEN w ELSE body.royalties
  <2>2. {"royalties", "royalties_qty"} \subseteq DOMAIN body
    BY MintBody, SMT DEF MintReady, MintMembers
  <2>3. /\ body'.royalties = v /\ body'.royalties_qty = Minus1(body.royalties_qty)
        /\ \A y \in DOMAIN body \ {"royalties", "royalties_qty"} : body'[y] = body[y]
    <3>1. "royalties" # "royalties_qty"
      BY SMT
    <3>2. body' = [body EXCEPT !["royalties"] = v,
                               !["royalties_qty"] = Minus1(body.royalties_qty)]
      BY <1>10, <2>2, <3>1, Zenon
    <3> HIDE DEF v
    <3> QED BY <2>2, <3>1, <3>2, TwoAssigned, Zenon
  <2>4. Shown' = [truth EXCEPT !["ROYALTIES"] = v] /\ (v = body.royalties => Shown' = truth)
    <3>1. "royalties_qty" \notin ShownMembers
      BY SMT DEF ShownMembers
    <3>2. KeptBut({"royalties"}) /\ (v = body.royalties => KeptBut({}))
      BY <2>3, <3>1, Zenon DEF KeptBut
    <3> HIDE DEF v
    <3> QED BY <2>3, <3>2, MintShownAfter, Zenon DEF MintReady
  <2>5. Shown' = truth'
    <3>1. "ROYALTIES" \in DOMAIN truth
      <4>1. \/ DOMAIN Shown = {"ID", "BENEFICIARY", "CREATORS", "ROYALTIES"}
            \/ DOMAIN Shown = {"ID", "FROM", "RECIPIENT", "LAST_CREATOR", "ROYALTIES"}
        BY MintShownAfter, Zenon
      <4> QED BY <4>1, Zenon DEF MintReady
    <3> QED BY <1>1, <1>4, <1>5, <2>4, <3>1, Zenon DEF Tell
  <2>6. body'.royalties_qty = qty - (sent + 1)
    <3>1. Minus1(qty - sent) = qty - (sent + 1)
      <4>1. sent \in Nat /\ qty \in Nat /\ sent < qty
        BY <1>1, Zenon
      <4> QED BY <4>1, OneFewer, Zenon
    <3> QED BY <1>1, <2>3, <3>1, Zenon
  <2>7. CASE sent + 1 < qty
    <3>1. /\ InField' /\ field' = field /\ part' = "first" /\ sent' < qty'
          /\ qty' = qty /\ sent' = sent + 1
      BY <1>1, <1>2, <1>4, <2>7, ElementEnds, Zenon
    <3>2. next_param' = "ROYALTIES_ADDRESS"
      BY <1>1, <1>10, <2>6, <2>7, OneFewer, Zenon
    <3>3. AtRoyalty'
      BY <1>1, <2>6, <3>1, <3>2, Zenon DEF AtRoyalty
    <3> QED BY <1>10, <2>1, <2>5, <3>3, Zenon DEF MintStepOK, MintPlace
  <2>8. CASE ~(sent + 1 < qty)
    <3>1. NextField
      BY <1>1, <1>2, <1>4, <2>8, ElementEnds, Zenon
    <3>2. next_param' = MintAfter[field]
      BY <1>1, <1>2, <1>10, <2>6, <2>8, OneFewer, Zenon
    <3> QED BY <1>1, <1>10, <2>1, <2>5, <3>1, <3>2, MintMovesOn, Zenon DEF MintStepOK
  <2> QED BY <2>7, <2>8
<1> QED BY <1>7, <1>8, <1>9, <1>10, Zenon DEF royalties_value, Moves, Accept

-----------------------------------------------------------------------------
(* The signatures, which are not shown. *)

LEMMA SignaturesQtyStep ==
  ASSUME NEW w, MintReady(w), AtStart, field = "SIGNATURES"
  PROVE  MintStepOK(w)
<1>1. /\ InField /\ qty = 0 /\ sent = 0 /\ done = 0
      /\ field \notin Uris /\ field \notin MintStatics
      /\ next_param = "SIGNATURES_QTY" /\ MintAfter[field] = "UNEXPECTED_PARAMETER"
  BY SMT DEF AtStart, Uris, MintStatics, MintStart, MintAfter
<1>2. part = "quantity"
  BY <1>1, MintField, MintFirstParts, Zenon DEF AtStart, MintReady
<1>3. QuantityWord(w)
  BY <1>2, WordOfPart, Zenon DEF MintReady
<1>4. MustRefuse(w) <=> ~FitsU16(w)
  BY <1>2, CountIsRefused, Zenon DEF MintReady
<1>5. CASE Refuse /\ ~FitsU16(w)
  BY <1>4, <1>5, SMT DEF Refuse, MintStepOK
<1>6. CASE /\ FitsU16(w)
           /\ body' = [body EXCEPT !.signatures_qty = w, !.signatures_counter = w]
           /\ next_param' = IF w = 0 THEN "UNEXPECTED_PARAMETER" ELSE "SIGNATURE_OFFSET"
           /\ result' = "OK"
  <2>1. /\ body'.signatures_qty = w /\ body'.signatures_counter = w
        /\ \A y \in DOMAIN body \ {"signatures_qty", "signatures_counter"} : body'[y] = body[y]
    <3>1. /\ {"signatures_qty", "signatures_counter"} \subseteq DOMAIN body
          /\ "signatures_qty" # "signatures_counter"
      BY MintBody, SMT DEF MintReady, MintMembers
    <3> QED BY <1>6, <3>1, TwoAssigned, Zenon
  <2>2. Shown' = truth'
    <3>1. {"signatures_qty", "signatures_counter"} \cap ShownMembers = {}
      BY SMT DEF ShownMembers
    <3>2. KeptBut({})
      BY <2>1, <3>1, Zenon DEF KeptBut
    <3> QED BY <1>3, <3>2, MintShownAfter, Zenon DEF MintReady, QuantityWord
  <2>3. CASE w = 0 /\ NextField
    BY <1>1, <1>4, <1>6, <2>2, <2>3, MintMovesOn, Zenon DEF MintStepOK
  <2>4. CASE w > 0 /\ part' = "offset" /\ qty' = w /\ UNCHANGED <<pos, len, sent, done>>
    <3>1. InField' /\ field' = field
      <4>1. part' # "end" /\ selectorIndex' = selectorIndex /\ pos' = pos
        BY <2>4, SMT DEF MintReady
      <4> QED BY <1>1, <4>1, StaysInField, Zenon
    <3>2. w # 0 /\ 0 < w /\ w - 0 = w
      BY <2>4, SMT DEF MintReady
    <3>3. AtOffset'
      BY <1>1, <1>6, <2>1, <2>4, <3>1, <3>2, Zenon DEF AtOffset
    <3> QED BY <1>4, <1>6, <2>2, <3>3, Zenon DEF MintStepOK, MintPlace
  <2> QED BY <1>3, <2>3, <2>4, Zenon DEF QuantityWord
<1>7. signatures_qty(w)
  BY <1>1, ReadyLists, Zenon
<1> QED BY <1>5, <1>6, <1>7, Zenon DEF signatures_qty, Moves, Accept

LEMMA OffsetWordStep ==
  ASSUME NEW w, MintReady(w), AtOffset
  PROVE  MintStepOK(w)
<1>1. /\ InField /\ body.signatures_counter = qty - sent /\ body.signatures_qty = qty
      /\ field = "SIGNATURES" /\ sent < qty /\ done = 0 /\ next_param = "SIGNATURE_OFFSET"
      /\ part = "offset" /\ sent \in Nat /\ qty \in Nat
  BY MintNats, Zenon DEF AtOffset
<1>2. EndOfElement /\ truth' = truth
  <2>1. OffsetWord(w)
    BY <1>1, WordOfPart, Zenon DEF MintReady
  <2> QED BY <2>1, Zenon DEF OffsetWord
<1>3. /\ body' = [body EXCEPT !["signatures_counter"] = Minus1(body.signatures_counter)]
      /\ next_param' = IF body'.signatures_counter = 0 THEN "SIGNATURE_LENGTH"
                       ELSE "SIGNATURE_OFFSET"
      /\ result' = "OK"
  BY <1>1, ReadyLists, Zenon DEF signature_offset, Moves, Accept
<1>4. /\ Shown' = truth' /\ body'.signatures_counter = qty - (sent + 1)
      /\ body'.signatures_qty = qty
  <2>1. /\ Shown' = truth
        /\ body'["signatures_counter"] = Minus1(body.signatures_counter)
        /\ \A y \in DOMAIN body \ {"signatures_counter"} : body'[y] = body[y]
    BY <1>3, HiddenCounts, CountAssigned, Zenon
  <2>2. Minus1(qty - sent) = qty - (sent + 1)
    <3>1. sent \in Nat /\ qty \in Nat /\ sent < qty
      BY <1>1, Zenon
    <3> QED BY <3>1, OneFewer, Zenon
  <2>3. "signatures_qty" \in DOMAIN body \ {"signatures_counter"}
    <3>1. "signatures_qty" \in MintMembers \ {"signatures_counter"}
      BY SMT DEF MintMembers
    <3> QED BY <3>1, MintBody, Zenon DEF MintReady
  <2> QED BY <1>1, <1>2, <2>1, <2>2, <2>3, Zenon
<1>5. ~MustRefuse(w)
  BY <1>1, SMT DEF MustRefuse
<1>6. CASE sent + 1 < qty
  <2>1. sent' = sent + 1 /\ part' = "offset" /\ UNCHANGED <<pos, len, qty, done>>
    BY <1>1, <1>2, <1>6, Zenon DEF EndOfElement
  <2>2. InField' /\ field' = field
    <3>1. part' # "end" /\ selectorIndex' = selectorIndex /\ pos' = pos
      BY <2>1, SMT DEF MintReady
    <3> QED BY <1>1, <3>1, StaysInField, Zenon
  <2>3. next_param' = "SIGNATURE_OFFSET"
    BY <1>1, <1>3, <1>4, <1>6, OneFewer, Zenon
  <2>4. AtOffset'
    BY <1>1, <1>4, <1>6, <2>1, <2>2, <2>3, Zenon DEF AtOffset
  <2> QED BY <1>3, <1>4, <1>5, <2>4, Zenon DEF MintStepOK, MintPlace
<1>7. CASE ~(sent + 1 < qty)
  <2>1. part' = "length" /\ sent' = 0 /\ UNCHANGED <<pos, len, qty, done>>
    BY <1>1, <1>2, <1>7, Zenon DEF EndOfElement
  <2>2. InField' /\ field' = field
    <3>1. part' # "end" /\ selectorIndex' = selectorIndex /\ pos' = pos
      BY <2>1, SMT DEF MintReady
    <3> QED BY <1>1, <3>1, StaysInField, Zenon
  <2>3. next_param' = "SIGNATURE_LENGTH"
    BY <1>1, <1>3, <1>4, <1>7, OneFewer, Zenon
  <2>4. 0 < qty /\ qty - 0 = qty
    BY <1>1, SMT
  <2>5. AtSignature'
    BY <1>1, <1>4, <2>1, <2>2, <2>3, <2>4, Zenon DEF AtSignature
  <2> QED BY <1>3, <1>4, <1>5, <2>5, Zenon DEF MintStepOK, MintPlace
<1> QED BY <1>6, <1>7

(* A signature is not empty, by hypothesis. *)
LEMMA SignatureWordsStep ==
  ASSUME NEW w, MintReady(w), AtSignature
  PROVE  MintStepOK(w)
<1>1. /\ InField /\ body.signatures_qty = qty - done /\ field = "SIGNATURES"
      /\ sent = 0 /\ done < qty /\ next_param = "SIGNATURE_LENGTH" /\ part = "length"
      /\ w \in Nat
  BY MintNats, Zenon DEF AtSignature
<1>2. LengthWord(w)
  BY <1>1, WordOfPart, Zenon DEF MintReady
<1>3. MustRefuse(w) <=> ~FitsU16(w)
  BY <1>1, CountIsRefused, Zenon
<1>4. CASE Refuse /\ ~FitsU16(w)
  BY <1>3, <1>4, SMT DEF Refuse, MintStepOK
<1>5. CASE /\ FitsU16(w) /\ body' = [body EXCEPT !["signature_length"] = get_counter(w)]
           /\ next_param' = "SIGNATURE" /\ result' = "OK"
  <2>1. w > 0 /\ part' = "chunk" /\ len' = w /\ UNCHANGED <<pos, qty, sent, done>>
    <3>1. field \notin MayBeEmpty
      BY <1>1, SMT DEF MintReady, NoEmptyMintParts
    <3> QED BY <1>2, <3>1, Zenon DEF LengthWord
  <2>2. /\ Shown' = truth /\ body'.signature_length = get_counter(w)
        /\ \A y \in DOMAIN body \ {"signature_length"} : body'[y] = body[y]
    BY <1>5, HiddenCounts, CountAssigned, Zenon
  <2>3. Shown' = truth'
    BY <1>2, <2>2, Zenon DEF LengthWord
  <2>4. body'.signatures_qty = qty - done
    <3>1. "signatures_qty" \in DOMAIN body \ {"signature_length"}
      BY MintBody, SMT DEF MintReady, MintMembers
    <3> QED BY <1>1, <2>2, <3>1, Zenon
  <2>5. get_counter(w) = WordsOf(w) /\ 0 < WordsOf(w) /\ WordsOf(w) - 0 = WordsOf(w)
    <3>1. get_counter(w) = WordsOf(w) /\ WordsOf(w) \in Nat /\ WordsOf(w) > 0
      BY <1>1, <2>1, GetCounterRoundsUp, WordsOfNat, Zenon DEF WordsOf
    <3> QED BY <3>1, SMT
  <2>6. InField' /\ field' = field
    <3>1. part' # "end" /\ selectorIndex' = selectorIndex /\ pos' = pos
      BY <2>1, SMT DEF MintReady
    <3> QED BY <1>1, <3>1, StaysInField, Zenon
  <2>7. /\ body'.signature_length = WordsOf(len') - sent' /\ sent' < WordsOf(len')
        /\ body'.signatures_qty = qty' - done' /\ done' < qty'
    BY <1>1, <2>1, <2>2, <2>4, <2>5, Zenon
  <2>8. InSignature'
    BY <1>1, <1>5, <2>1, <2>6, <2>7, Zenon DEF InSignature, WordsOf
  <2> QED BY <1>3, <1>5, <2>3, <2>8, Zenon DEF MintStepOK, MintPlace
<1>6. signature_words(w)
  BY <1>1, ReadyLists, Zenon
<1> QED BY <1>4, <1>5, <1>6, Zenon DEF signature_words, Moves, Accept

LEMMA SignatureChunkStep ==
  ASSUME NEW w, MintReady(w), InSignature
  PROVE  MintStepOK(w)
<1>1. /\ InField /\ part = "chunk" /\ field = "SIGNATURES"
      /\ sent < WordsOf(len) /\ done < qty /\ next_param = "SIGNATURE"
      /\ body.signature_length = WordsOf(len) - sent /\ body.signatures_qty = qty - done
      /\ sent \in Nat /\ done \in Nat /\ qty \in Nat /\ WordsOf(len) \in Nat
  BY MintNats, Zenon DEF InSignature
<1>2. ChunkWord(w)
  BY <1>1, WordOfPart, Zenon DEF MintReady
<1>3. truth' = truth
  BY <1>1, <1>2, NotShown, Zenon DEF ChunkWord, Tell
<1>4. ~MustRefuse(w)
  BY <1>1, SMT DEF MustRefuse
<1> DEFINE left == Minus1(body.signature_length)
           signatures == IF left = 0 THEN Minus1(body.signatures_qty)
                         ELSE body.signatures_qty
<1>5. /\ body' = [body EXCEPT !["signature_length"] = left,
                              !["signatures_qty"] = signatures]
      /\ next_param' = IF left # 0 THEN "SIGNATURE"
                       ELSE IF signatures # 0 THEN "SIGNATURE_LENGTH"
                       ELSE "UNEXPECTED_PARAMETER"
      /\ result' = "OK"
  BY <1>1, ReadyLists, Zenon DEF signature_chunk, Moves, Accept
<1>6. left = WordsOf(len) - (sent + 1)
  <2>1. Minus1(WordsOf(len) - sent) = WordsOf(len) - (sent + 1)
    <3>1. sent \in Nat /\ WordsOf(len) \in Nat /\ sent < WordsOf(len)
      BY <1>1, Zenon
    <3> QED BY <3>1, OneFewer, Zenon
  <2> QED BY <1>1, <2>1, Zenon
<1>7. signatures = IF left = 0 THEN qty - (done + 1) ELSE qty - done
  <2>1. Minus1(qty - done) = qty - (done + 1)
    <3>1. done \in Nat /\ qty \in Nat /\ done < qty
      BY <1>1, Zenon
    <3> QED BY <3>1, OneFewer, Zenon
  <2> QED BY <1>1, <2>1, Zenon
<1> HIDE DEF left, signatures
<1>8. /\ body'.signature_length = left /\ body'.signatures_qty = signatures
      /\ Shown' = truth'
  <2>1. /\ {"signature_length", "signatures_qty"} \subseteq DOMAIN body
        /\ "signature_length" # "signatures_qty"
        /\ {"signature_length", "signatures_qty"} \cap ShownMembers = {}
    BY MintBody, SMT DEF MintReady, MintMembers, ShownMembers
  <2>2. /\ body'.signature_length = left /\ body'.signatures_qty = signatures
        /\ \A y \in DOMAIN body \ {"signature_length", "signatures_qty"} : body'[y] = body[y]
    BY <1>5, <2>1, TwoAssigned, Zenon
  <2>3. KeptBut({})
    BY <2>1, <2>2, Zenon DEF KeptBut
  <2> QED BY <1>3, <2>2, <2>3, MintShownAfter, Zenon DEF MintReady
<1>9. CASE sent + 1 < WordsOf(len)
  <2>1. sent' = sent + 1 /\ UNCHANGED <<pos, part, len, qty, done>>
    BY <1>2, <1>9, Zenon DEF ChunkWord
  <2>2. InField' /\ field' = field
    BY <1>1, <2>1, StaysInField, Zenon DEF InField, MintReady
  <2>3. left # 0
    BY <1>1, <1>6, <1>9, OneFewer, Zenon
  <2>4. InSignature'
    BY <1>1, <1>5, <1>6, <1>7, <1>8, <1>9, <2>1, <2>2, <2>3, Zenon DEF InSignature, WordsOf
  <2> QED BY <1>4, <1>5, <1>8, <2>4, Zenon DEF MintStepOK, MintPlace
<1>10. CASE ~(sent + 1 < WordsOf(len))
  <2>1. EndOfString /\ InSignatures
    BY <1>1, <1>2, <1>10, SMT DEF ChunkWord, InSignatures
  <2>2. left = 0 /\ signatures = qty - (done + 1)
    BY <1>1, <1>6, <1>7, <1>10, OneFewer, Zenon
  <2>3. CASE done + 1 < qty
    <3>1. /\ part' = "length" /\ len' = 0 /\ sent' = 0 /\ done' = done + 1
          /\ UNCHANGED <<pos, qty>>
      BY <2>1, <2>3, Zenon DEF EndOfString
    <3>2. InField' /\ field' = field
      <4>1. part' # "end" /\ selectorIndex' = selectorIndex /\ pos' = pos
        BY <3>1, SMT DEF MintReady
      <4> QED BY <1>1, <4>1, StaysInField, Zenon
    <3>3. signatures # 0
      BY <1>1, <2>2, <2>3, OneFewer, Zenon
    <3>4. AtSignature'
      BY <1>1, <1>5, <1>8, <2>2, <2>3, <3>1, <3>2, <3>3, Zenon DEF AtSignature
    <3> QED BY <1>4, <1>5, <1>8, <3>4, Zenon DEF MintStepOK, MintPlace
  <2>4. CASE ~(done + 1 < qty)
    <3>1. NextField
      BY <2>1, <2>4, Zenon DEF EndOfString
    <3>2. signatures = 0
      BY <1>1, <2>2, <2>4, OneFewer, Zenon
    <3>3. MintAfter[field] = "UNEXPECTED_PARAMETER"
      BY <1>1, SMT DEF MintAfter
    <3>4. next_param' = MintAfter[field]
      BY <1>5, <2>2, <3>2, <3>3, Zenon
    <3> QED BY <1>1, <1>4, <1>5, <1>8, <3>1, <3>4, MintMovesOn, Zenon DEF MintStepOK
  <2> QED BY <2>3, <2>4
<1> QED BY <1>9, <1>10

(* A word beyond the end is refused. *)
LEMMA MintEndStep ==
  ASSUME NEW w, MintReady(w), AtEnd
  PROVE  MintStepOK(w)
<1>1. Refuse
  BY ReadyCase, Zenon DEF AtEnd, MintCase
<1> QED BY <1>1, SMT DEF Refuse, AtEnd, MustRefuse, MintStepOK

-----------------------------------------------------------------------------
(* One step, by place. *)

LEMMA MintWordStep ==
  ASSUME NEW w, MintReady(w), MintPlace
  PROVE  MintStepOK(w)
<1>1. CASE AtStart
  <2>1. field \in DOMAIN MintStart
    BY <1>1, MintField, Zenon DEF AtStart, MintReady
  <2>2. \/ field \in MintStatics \/ field \in Uris \/ field \in CreatorLists
        \/ field = "ROYALTIES" \/ field = "SIGNATURES"
    BY <2>1, Zenon DEF MintStatics
  <2> QED BY <1>1, <2>2, MintStaticStep, UriWordsStep, CreatorsQtyStep, RoyaltiesQtyStep,
          SignaturesQtyStep, Zenon
<1>2. CASE AtCreator
  BY <1>2, CreatorAddressStep, CreatorValueStep, Zenon DEF AtCreator
<1>3. CASE AtRoyalty
  BY <1>3, RoyaltyAddressStep, RoyaltyValueStep, Zenon DEF AtRoyalty
<1> QED BY <1>1, <1>2, <1>3, UriChunkWordStep, OffsetWordStep, SignatureWordsStep,
        SignatureChunkStep, MintEndStep, Zenon DEF MintPlace

LEMMA MintStep ==
  ASSUME TypeOK, MintInv, NoEmptyMintParts, Next PROVE MintInv'
<1> SUFFICES ASSUME selectorIndex' \in MintMethods
             PROVE  (result' = "OK" => MintPlace' /\ Shown' = truth') /\ RefusedExactly'
  BY Zenon DEF MintInv
<1>1. PICK w \in WordsToSend :
        EncodeWord(w) /\ handle_provide_parameter(w) /\ refusable' = MustRefuse(w)
  BY Zenon DEF Next, Feed
<1>2. result = "OK" /\ w \in Nat
  BY <1>1, WordsAreNaturals, Zenon DEF Next, Feed
<1>3. selectorIndex' = selectorIndex
  BY <1>1, <1>2, ProvideParameterType, Zenon DEF TypeOK
<1>4. MintReady(w) /\ MintPlace
  BY <1>1, <1>2, <1>3, Zenon DEF MintReady, MintInv
<1> QED BY <1>1, <1>4, MintWordStep, Zenon DEF MintStepOK, RefusedExactly

LEMMA MintInit == Init => MintInv
<1> SUFFICES ASSUME Init, selectorIndex \in MintMethods
             PROVE  MintPlace /\ Shown = truth /\ RefusedExactly
  BY Zenon DEF MintInv
<1>1. /\ pos = 1 /\ part = "static" /\ qty = 0 /\ sent = 0 /\ done = 0
      /\ next_param = first_param[selectorIndex] /\ body = zero_body[selectorIndex]
      /\ truth = NothingKnown[selectorIndex] /\ result = "OK" /\ refusable = FALSE
  BY Zenon DEF Init, StartCalldata
<1>2. Len(Layout[selectorIndex]) \in Nat /\ Len(Layout[selectorIndex]) > 0
      /\ field = "BODY_OFFSET"
  BY <1>1, MintLength, Zenon DEF field
<1>3. AtStart
  <2>1. 1 \in 1..Len(Layout[selectorIndex])
    BY <1>2, SMT
  <2>2. /\ "BODY_OFFSET" \in DOMAIN MintStart /\ "BODY_OFFSET" \in MintStatics
        /\ "BODY_OFFSET" \notin Uris /\ MintStart["BODY_OFFSET"] = "BODY_OFFSET"
    BY SMT DEF MintStart, MintStatics, Uris, CreatorLists
  <2>3. part = FirstPart(field)
    BY <1>1, <1>2, <2>2, MintFirstParts, Zenon
  <2>4. part # "end"
    BY <1>1, SMT
  <2>5. next_param = MintStart[field]
    <3>1. first_param[selectorIndex] = "BODY_OFFSET"
      BY SMT DEF first_param, MintMethods
    <3> QED BY <1>1, <1>2, <2>2, <3>1, Zenon
  <2> QED BY <1>1, <2>1, <2>3, <2>4, <2>5, Zenon DEF AtStart, InField
<1>4. Shown = truth
  <2>1. CASE selectorIndex = "MINT_AND_TRANSFER"
    <3>1. body = zero_mint
      BY <1>1, <2>1, SMT DEF zero_body
    <3>2. truth = [ID |-> 0, BENEFICIARY |-> 0, CREATORS |-> <<>>, ROYALTIES |-> 0]
      BY <1>1, <2>1, SMT DEF NothingKnown
    <3>3. /\ body.id = 0 /\ body.beneficiary = 0 /\ body.creator_found = FALSE
          /\ body.royalties = 0
      BY <3>1, SMT DEF zero_mint
    <3>4. Found(body.creator_found, body.creator) = <<>>
      BY <3>3, Zenon DEF Found
    <3> QED BY <2>1, <3>2, <3>3, <3>4, MintShown, Zenon
  <2>2. CASE selectorIndex = "TRANSFER_FROM_OR_MINT"
    <3>1. body = zero_transfer
      BY <1>1, <2>2, SMT DEF zero_body
    <3>2. truth = [ID |-> 0, FROM |-> 0, RECIPIENT |-> 0, LAST_CREATOR |-> 0, ROYALTIES |-> 0]
      BY <1>1, <2>2, SMT DEF NothingKnown
    <3>3. /\ body.id = 0 /\ body.beneficiary = 0 /\ body.seller = 0
          /\ body.creator = 0 /\ body.royalties = 0
      BY <3>1, SMT DEF zero_transfer
    <3> QED BY <2>2, <3>2, <3>3, MintShown, Zenon
  <2> QED BY <2>1, <2>2, Zenon DEF MintMethods
<1>5. RefusedExactly
  <2>1. result # "ERROR"
    BY <1>1, SMT
  <2> QED BY <1>1, <2>1, Zenon DEF RefusedExactly
<1> QED BY <1>3, <1>4, <1>5, Zenon DEF MintPlace

LEMMA MintUnchanged == MintInv /\ UNCHANGED vars => MintInv'
<1> SUFFICES ASSUME MintInv, UNCHANGED vars PROVE MintInv'
  OBVIOUS
<1>1. /\ UNCHANGED <<selectorIndex, next_param, body, result>>
      /\ UNCHANGED <<pos, part, len, qty, sent, done, truth, refusable>>
  BY Zenon DEF vars, contextVars, context, calldataVars
<1>2. field' = field
  BY <1>1, Zenon DEF field
<1>3. selectorIndex \in MintMethods => Shown' = Shown
  BY <1>1, MintShown, MintShownNext, Zenon DEF MintMethods
<1>4. InField => InField'
  BY <1>1, Zenon DEF InField
<1>5. /\ AtStart => AtStart'
      /\ AtCreator => AtCreator'
      /\ AtRoyalty => AtRoyalty'
      /\ AtOffset => AtOffset'
      /\ AtSignature => AtSignature'
      /\ AtEnd => AtEnd'
  BY <1>1, <1>2, <1>4, Zenon
  DEF AtStart, AtCreator, AtRoyalty, AtOffset, AtSignature, AtEnd
<1>6. (InUri => InUri') /\ (InSignature => InSignature')
  BY <1>1, <1>2, <1>4, Zenon DEF InUri, InSignature, WordsOf
<1>7. MintPlace => MintPlace'
  BY <1>5, <1>6, Zenon DEF MintPlace
<1>8. RefusedExactly => RefusedExactly'
  BY <1>1, Zenon DEF RefusedExactly
<1> QED BY <1>1, <1>3, <1>7, <1>8, Zenon DEF MintInv

-----------------------------------------------------------------------------
(* What the invariant says of the two methods, in the terms of the runs.   *)

LEMMA MintCalledForStart ==
  \A f \in DOMAIN MintStart : CalledForAs(FirstPart(f), f) = MintStart[f]
<1> SUFFICES ASSUME NEW f \in DOMAIN MintStart
             PROVE  CalledForAs(FirstPart(f), f) = MintStart[f]
  OBVIOUS
<1>1. CASE f \in Uris
  BY <1>1, SMT DEF Uris, FirstPart, CalledForAs, MintStart, ByteStrings, MakeAsset,
     TakeAsset, LengthParam
<1>2. CASE f \in CreatorLists \cup {"ROYALTIES", "SIGNATURES"}
  BY <1>2, SMT DEF CreatorLists, FirstPart, CalledForAs, MintStart, ByteStrings, Lists,
     MakeAsset, TakeAsset, QuantityParam
<1>3. CASE f \in MintStatics
  BY <1>3, SMT DEF MintStatics, Uris, CreatorLists, FirstPart, CalledForAs, MintStart,
     ByteStrings, Lists, MakeAsset, TakeAsset, Renamed
<1> QED BY <1>1, <1>2, <1>3, Zenon DEF MintStatics

LEMMA MintCalledForWithin ==
  /\ \A f \in Uris : CalledForAs("chunk", f) = "WAIT_UNTIL_CREATORS"
  /\ \A f \in CreatorLists : /\ CalledForAs("first", f) = "CREATORS_ADDRESS"
                             /\ CalledForAs("second", f) = "CREATORS_VALUE"
  /\ CalledForAs("first", "ROYALTIES") = "ROYALTIES_ADDRESS"
  /\ CalledForAs("second", "ROYALTIES") = "ROYALTIES_VALUE"
  /\ CalledForAs("offset", "SIGNATURES") = "SIGNATURE_OFFSET"
  /\ CalledForAs("length", "SIGNATURES") = "SIGNATURE_LENGTH"
  /\ CalledForAs("chunk", "SIGNATURES") = "SIGNATURE"
  /\ \A f : CalledForAs("end", f) = "UNEXPECTED_PARAMETER"
<1>1. \A f \in Uris : CalledForAs("chunk", f) = "WAIT_UNTIL_CREATORS"
  BY SMT DEF CalledForAs, Uris, MakeAsset, TakeAsset, ChunkParam
<1>2. \A f \in CreatorLists : /\ CalledForAs("first", f) = "CREATORS_ADDRESS"
                              /\ CalledForAs("second", f) = "CREATORS_VALUE"
  BY SMT DEF CalledForAs, CreatorLists, MakeAsset, TakeAsset, FirstParam, SecondParam
<1>3. /\ CalledForAs("first", "ROYALTIES") = "ROYALTIES_ADDRESS"
      /\ CalledForAs("second", "ROYALTIES") = "ROYALTIES_VALUE"
      /\ CalledForAs("offset", "SIGNATURES") = "SIGNATURE_OFFSET"
  BY SMT DEF CalledForAs, MakeAsset, TakeAsset, FirstParam, SecondParam
<1>4. /\ CalledForAs("length", "SIGNATURES") = "SIGNATURE_LENGTH"
      /\ CalledForAs("chunk", "SIGNATURES") = "SIGNATURE"
      /\ \A f : CalledForAs("end", f) = "UNEXPECTED_PARAMETER"
  BY SMT DEF CalledForAs, MakeAsset, TakeAsset, LengthParam, ChunkParam
<1> QED BY <1>1, <1>2, <1>3, <1>4

LEMMA MintInStep ==
  ASSUME selectorIndex \in MintMethods, MintPlace PROVE next_param = CalledFor
<1>1. CASE AtStart
  <2>1. field \in DOMAIN MintStart
    BY <1>1, MintField, Zenon DEF AtStart
  <2> QED BY <1>1, <2>1, MintCalledForStart, Zenon DEF AtStart, CalledFor
<1>2. CASE InUri
  BY <1>2, MintCalledForWithin, Zenon DEF InUri, CalledFor
<1>3. CASE AtCreator
  <2>1. /\ part = "first" => next_param = "CREATORS_ADDRESS"
        /\ part = "second" => next_param = "CREATORS_VALUE"
    BY <1>3, SMT DEF AtCreator
  <2> QED BY <1>3, <2>1, MintCalledForWithin, Zenon DEF AtCreator, CalledFor
<1>4. CASE AtRoyalty
  <2>1. /\ part = "first" => next_param = "ROYALTIES_ADDRESS"
        /\ part = "second" => next_param = "ROYALTIES_VALUE"
    BY <1>4, SMT DEF AtRoyalty
  <2> QED BY <1>4, <2>1, MintCalledForWithin, Zenon DEF AtRoyalty, CalledFor
<1>5. CASE AtOffset \/ AtSignature \/ InSignature
  BY <1>5, MintCalledForWithin, Zenon DEF AtOffset, AtSignature, InSignature, CalledFor
<1>6. CASE AtEnd
  BY <1>6, MintCalledForWithin, Zenon DEF AtEnd, CalledFor
<1> QED BY <1>1, <1>2, <1>3, <1>4, <1>5, <1>6, Zenon DEF MintPlace

(* No parameter of the two methods is an asset. *)
LEMMA NoAssetInMint ==
  ASSUME selectorIndex \in MintMethods, MintPlace
  PROVE  next_param \notin {"MAKE_ASSET", "TAKE_ASSET"}
<1>1. CASE AtStart
  <2>1. \A f \in DOMAIN MintStart : MintStart[f] \notin {"MAKE_ASSET", "TAKE_ASSET"}
    BY SMT DEF MintStart
  <2>2. field \in DOMAIN MintStart /\ next_param = MintStart[field]
    BY <1>1, MintField, Zenon DEF AtStart
  <2> QED BY <2>1, <2>2, Zenon
<1>2. CASE ~AtStart
  <2>1. next_param \in {"WAIT_UNTIL_CREATORS", "CREATORS_ADDRESS", "CREATORS_VALUE",
          "ROYALTIES_ADDRESS", "ROYALTIES_VALUE", "SIGNATURE_OFFSET", "SIGNATURE_LENGTH",
          "SIGNATURE", "UNEXPECTED_PARAMETER"}
    BY <1>2, Zenon DEF MintPlace, InUri, AtCreator, AtRoyalty, AtOffset, AtSignature,
       InSignature, AtEnd
  <2> QED BY <2>1, SMT
<1> QED BY <1>1, <1>2

LEMMA MintCountdown ==
  ASSUME TypeOK, selectorIndex \in MintMethods, MintPlace PROVE CountdownExact
<1>1. CASE AtStart
  <2>1. part \notin {"chunk", "first", "second", "offset"} /\ ~(qty > 0)
    <3>1. field \in DOMAIN MintStart /\ part = FirstPart(field) /\ qty = 0
      BY <1>1, MintField, Zenon DEF AtStart
    <3>2. part \in {"length", "static", "quantity"}
      BY <3>1, MintFirstParts, Zenon
    <3> QED BY <3>1, <3>2, SMT
  <2> QED BY <2>1, SMT DEF CountdownExact
<1>2. CASE InUri
  BY <1>2, SMT DEF InUri, Uris, CountdownExact, WordsLeft
<1>3. CASE AtCreator
  <2>1. /\ part \in {"first", "second"} /\ field \in CreatorLists
        /\ body.creators_qty = qty - sent
    BY <1>3, Zenon DEF AtCreator
  <2>2. /\ part \notin {"chunk", "offset"}
        /\ field \notin {"OPERATORS", "ROYALTIES", "SIGNATURES"}
    BY <2>1, SMT DEF CreatorLists
  <2> QED BY <2>1, <2>2, SMT DEF CountdownExact
<1>4. CASE AtRoyalty
  BY <1>4, SMT DEF AtRoyalty, CountdownExact
<1>5. CASE AtOffset
  <2>1. /\ part = "offset" /\ field = "SIGNATURES" /\ qty - done = qty
        /\ body.signatures_counter = qty - sent /\ body.signatures_qty = qty
    <3>1. qty \in Nat /\ done = 0
      BY <1>5, Zenon DEF AtOffset, TypeOK
    <3> QED BY <1>5, <3>1, SMT DEF AtOffset
  <2> QED BY <2>1, SMT DEF CountdownExact
<1>6. CASE AtSignature
  BY <1>6, SMT DEF AtSignature, CountdownExact
<1>7. CASE InSignature
  <2>1. /\ part = "chunk" /\ field = "SIGNATURES"
        /\ body.signature_length = WordsLeft /\ body.signatures_qty = qty - done
    BY <1>7, Zenon DEF InSignature, WordsLeft
  <2> QED BY <2>1, SMT DEF CountdownExact
<1>8. CASE AtEnd
  BY <1>8, SMT DEF AtEnd, CountdownExact
<1> QED BY <1>1, <1>2, <1>3, <1>4, <1>5, <1>6, <1>7, <1>8, Zenon DEF MintPlace

LEMMA MintInvMeans ==
  ASSUME TypeOK, MintInv, selectorIndex \in MintMethods
  PROVE  InStep /\ CountdownExact /\ ShownMatchesCalldata /\ RefusedExactly
<1>1. selectorIndex # "MATCH_ORDERS"
  BY SMT DEF MintMethods
<1>2. InStep
  BY <1>1, MintInStep, NoAssetInMint, Zenon DEF MintInv, InStep
<1>3. result # "OK" => CountdownExact
  BY Zenon DEF CountdownExact
<1>4. CountdownExact
  BY <1>3, MintCountdown, Zenon DEF MintInv
<1> QED BY <1>2, <1>4, Zenon DEF MintInv, ShownMatchesCalldata

(* A mint or a transfer whose URI (of a mint) and signatures are not empty *)
(* is taken for what it is, whatever the number of its creators, royalties *)
(* and signatures and the length of each: the three nested countdowns of   *)
(* the signatures end where the calldata does, the creator and the royalty *)
(* shown are the last of their lists, and nothing is refused but a count   *)
(* or royalty that is too large and a word beyond the end.                 *)
THEOREM MintMethodsSafe ==
  NoEmptyMintParts =>
    (Spec => [](selectorIndex \in MintMethods =>
                  InStep /\ CountdownExact /\ ShownMatchesCalldata /\ RefusedExactly))
<1> SUFFICES ASSUME NoEmptyMintParts
             PROVE  Spec => [](selectorIndex \in MintMethods =>
                      InStep /\ CountdownExact /\ ShownMatchesCalldata /\ RefusedExactly)
  OBVIOUS
<1>1. Init => MintInv
  BY MintInit
<1>2. TypeOK /\ MintInv /\ [Next]_vars => MintInv'
  BY MintStep, MintUnchanged, Zenon
<1>3. TypeOK /\ MintInv =>
        (selectorIndex \in MintMethods =>
           InStep /\ CountdownExact /\ ShownMatchesCalldata /\ RefusedExactly)
  BY MintInvMeans, Zenon
<1>4. Spec => []TypeOK
  BY TypeCorrect
<1> QED BY <1>1, <1>2, <1>3, <1>4, PTL DEF Spec
=============================================================================
