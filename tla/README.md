# A verification of the Rarible plugin

The plugin turns the calldata of seven contract methods into the screens a Ledger user approves before
signing. It runs inside the Ethereum app, which calls it with one message at a time. The calldata is
never in memory as a whole: the plugin is handed one 32-byte word per call, keeps what it will show, and
finds its way through lists and byte strings by counting. What it must guarantee is that **what the user
reads is what the transaction says**; what makes that hard is that nothing tells the plugin when it has
lost its place.

All paths below are relative to the repository (`src/`, whose C files are in `src/src/`).

## 1. The system

| Component | Code | State | Operations |
|---|---|---|---|
| context and init | `rarible_plugin.h`, `contract.c`, `handle_init_contract.c` | `context_t`: `selectorIndex`, `next_param`, `sub_param`, `counter`, `max_counter`, the union `tx.body` | `handle_init_contract`: checks, `memset`, selector lookup, first parameter |
| token parsers | `handle_provide_parameter.c:168-426` | names, symbols, operator, proxies | `handle_create_token`, `handle_erc721_rarible_init` |
| mint parsers | `handle_provide_parameter.c:453-801` | id, addresses, creator, royalties, five `uint16_t` countdowns | `handle_mint_and_transfer`, `handle_transfer_from_or_mint` |
| order parsers | `handle_provide_parameter.c:41-166, 803-852` | maker and taker of one or two orders, `order_side` | `parse_asset`, `parse_order`, `handle_cancel`, `handle_match_orders` |
| dispatch of parameters | `handle_provide_parameter.c:428-452, 854-894` | `msg->result` | `handle_provide_parameter`, `handle_set_approved_for_all` |
| finalize | `handle_finalize.c` | `numScreens` | number of screens per method |
| contract id | `handle_query_contract_id.c` | none | titles |
| screens | `handle_query_contract_ui.c` | none | field of each screen, its formatting |
| dispatch of messages, entry point | `main.c` | the exception being handled | `main`, `dispatch_plugin_calls`, `CATCH`, `FINALLY` |
| token info | `handle_provide_token.c` | none | answers OK |
| semihosted printf | `dbg/printf.c`, in builds with `DEBUG=10` only | a dozen locals, two buffers | `semihosted_printf`, `prints` |
| canary and log | `dbg/debug.c`, `dbg/debug.h` | none | called by no handler |
| Ethereum app, SDK | git submodules, not in the repository | the calldata | `U2BE_from_parameter`, `copy_address`, `copy_parameter`, the loop over the calldata |

**Interactions.** The app sends `INIT_CONTRACT`, then one `PROVIDE_PARAMETER` for each word, then
`FINALIZE`, `QUERY_CONTRACT_ID` and `QUERY_CONTRACT_UI` for every screen the user looks at, in any order.
All calls share the context, which is memory of the app and survives from one transaction to the next.
There is one thread: no call interrupts another. A handler answers by `msg->result`; the app goes on only
after `OK`. An exception thrown in a handler is caught in `main.c`.

**What is hard.** There is no concurrency. The difficulty is a protocol of unbounded length whose receiver
sees one word at a time:

* every length and list size steers how many words go by before the next field: a miscount by one shifts
  every later field, and usually still without an error;
* the counters are `uint16_t` and some are decremented before they are tested;
* one counter serves seven purposes, one automaton (`parse_asset`) is nested in another (`parse_order`)
  that runs twice over two orders;
* lengths that do not fit are refused by a helper whose caller goes on regardless;
* the call after the last word does not look at where the parser stands;
* the answer of a call lies in memory of the app while the handler runs, preset before and overwritten in
  between, and an exception may leave the handler half way.

Of the debug `printf`: a loop that interprets the format with `goto`s, whose locals outlive a directive and are
shared by several, and unsigned arithmetic that wraps on purpose.

**What makes each component correct.** Parsers: in step with the calldata; counters equal to what is still
to come; what is kept is what was sent; refusals exactly of what cannot be handled; no state is waited in
for ever. Init: no field of an earlier transaction survives. Screens: every promised field is on a screen,
in a text that reads back as the value. Session: nothing is approved that was not shown.
Entry point: every call comes back with the answer of one whole handler. `printf`: what a directive prints depends on
the directive and its arguments only.

## 2. The modules

| Module | What it models |
|---|---|
| `PluginContext` | `context_t` as variables, the helpers (`get_counter`, `parse_counter`, `decrement_counter`, `copy_text`), `handle_init_contract` |
| `TokenParams` | `handle_create_token`, `handle_erc721_rarible_init` |
| `MintParams` | `handle_mint_and_transfer`, `handle_transfer_from_or_mint` |
| `OrderParams` | `parse_asset`, `parse_order`, `handle_cancel`, `handle_match_orders` |
| `ProvideParameter` | the dispatch, `handle_set_approved_for_all`, and the C types of the context |
| `AbiCalldata` | external: the wallet's encoder, which knows nothing of the plugin |
| `ParameterFeed` | the two composed by the app's loop over the words; all properties of the parsers |
| `PluginScreens` | `handle_finalize`, `handle_query_contract_id`, `handle_query_contract_ui`, `handle_provide_token`, `handle_query_ui_exception` |
| `ClearSigning` | abstract: a transaction makes claims, the user is told claims and nothing else, and signs after all of them |
| `PluginSession` | the whole plugin: transaction after transaction over one context, in the order the app calls; the refinement of `ClearSigning` |
| `PluginCalls` | abstract: every call of the plugin is one step, any message at any time |
| `PluginEntry` | `main` from the app's call to `os_lib_end`, step by step, with exceptions; the refinement of `PluginCalls` |
| `SemihostedPrintf`, `SemihostedPrintfMC` | `semihosted_printf` character by character, and a reference for what each directive prints; formats and texts for TLC |
| `ContextTypes` | proofs: one call of `handle_provide_parameter` or `handle_init_contract` keeps the context within its C types |
| `ParameterFeedTypes` | proofs: `TypeCorrect`; lemmas about the encoder |
| `TokenFeedSafety`, `MintFeedSafety`, `OrderFeedSafety` | proofs: the parsers of three, two and two methods (`TokenMethodsSafe`, `MintMethodsSafe`, `OrderMethodsSafe`); `SignaturesAreNotShown`, `LastSignatureIsNotShown` |
| `SessionSafety` | proofs: `RoyaltiesReadBack`, `ScreensTellClaims`; the parsers' properties for all seven methods; `SessionTypeCorrect`, `ReviewIsClear`, `SessionsAreClear`, `AnswersAreExact` |
| `EntrySafety` | proofs: `EntryTypeCorrect`, `CallsAppearAtomic` |
| `PrintfSafety` | proofs: `PrintfTypeCorrect`, `BufferIsHeld`, `PrintsAsAsked`; what `FlattenSeq` and `Numeral` compute |

`PluginContext` is extended by the three parser modules and by `PluginScreens`; `ProvideParameter` puts the
parsers together; `ParameterFeed` adds the encoder, `PluginSession` the screens. `PluginCalls` takes the parsers and the
screens without encoder and order; `PluginEntry` extends it by what happens inside a call.

How the state corresponds. `selectorIndex`, `next_param`, `sub_param`, `counter` and `max_counter` are the
members of `context_t` of that name; enumeration members keep their C names as strings. (In C
`BODY_OFFSET` is 0 and so is what `memset` leaves; `zero_body` and `Prepared` say the same.) `body` is the
member of the `tx.body` union that `selectorIndex` selects: no handler looks at another one, with one
exception that the model keeps, the `order_side` byte a cancel writes past its own member. A word is a
natural number; an address is its remainder modulo `AddressModulus` (2^160 in C); a text is how many
leading bytes were kept of which word. Numbers that C keeps in a `uint16_t` wrap (`Minus1`) or are
refused (`FitsU16`) where C wraps or refuses.

One case of a C `switch` is one disjunct, named after what the case does when handlers share it. The
helpers that set `msg->result` and return leave the context as the C code leaves it then: `Refuse` for an
early `return`, `parse_counter` for the one that only reports and goes on.

`AbiCalldata` walks the `Layout` of the method (its ABI): a field is a static word, a byte string, a list
or a list of byte strings. `pos`, `part`, `len`, `qty`, `sent` and `done` say where the encoder is, `truth`
what the words sent so far say of the fields that are to be shown. It is written from the contracts' ABI as
the tests of the repository exercise it, and shares no definition with the parsers except the shape of
`truth`'s texts, so that agreeing with it is something the parsers can fail to do.

A screen is a record of its title, the form of its text and the value the text spells. The forms that the
app prints (`address`, `number`) and `%s` of a text are kept as the value they print: the app's routines are
not in the repository, and a name is taken to have no zero byte inside, where C would end it. What the plugin
prints itself is modelled as it prints it: the four royalty formats digit by digit, the notices for absent
creators and operators, "True" and "False", and "-" for royalties above 100%. An exception leaves the title,
and of an address the "0x" that is written before the app's routine is called (`half_drawn`).

`PluginSession` gives the messages the order the Ethereum app gives them. `phase` is where the app is with a
transaction (`idle`, `feeding`, `finalized`, `review`, `signed`), `wanted` the method by its selector as the
README of the repository has it, `shown` how far the review is, and `told` the history of what the user has
read. `Select` is `handle_init_contract` with the app's preconditions as inputs (`compatible`: the interface
version matches, `roomy`: the context fits); `Finalize` may follow any word, as the app does not know how much
calldata a method takes; `PageForward` and `PageBack` show a screen, either as the handler draws it or with an
exception of `Exceptions` thrown in it; `Abandon` is a user who rejects or a host that is gone, at any moment
and with the context left as it is. `Told` is what a screen tells a reader who knows the fields the README
lists for the method: it finds the field by the title and reads the text back. `Claims` is what there is to
tell: the method and, of each promised field, what `truth` says.

In `PluginEntry`, `at` is where `main` is with a call: outside, dispatching, about to write the title or the text
of a screen, catching, in `FINALLY`. All handlers but `handle_query_contract_ui` throw nothing and are one step
(`Handle`); that one clears the screen and sets the result to `OK`, writes the title, then the text, and the app's
printing routines may throw instead of writing it. `LibCall` leaves in the message whatever result the app put there.
`seen` records the answer and the screen at each return to the app. What the app can see (`Visible`) is `seen` until
the handler is done or its exception caught, and the plugin's own answer and screen from then on; the context is
seen by nobody but the plugin and is its own image. That is the mapping to `PluginCalls` (`Atomic`): the last step of a
handler, or the catch, is the step of `PluginCalls`, and every other one stutters.

In `SemihostedPrintf` the locals have their C names. `format` is the rest of the format, as characters; `pc` says
where control is: at the top of the loop, at `again`, in the three loops that print a number. A text is what
memory holds; one that is given with a length is at least that long. `plan` and `given` are histories, what the
format was spelled from and the arguments that were taken. `Meaning` and the operators before it are the
reference: they look at a directive and its arguments, never at a local.

## 3. The properties

Of the parsers (`ParameterFeed`):

* `TypeOK`: the C types of the whole context; the encoder stays inside its layout.
* `InStep`: while no word was refused, `next_param` (inside an asset `sub_param`, of a match `order_side`)
  names exactly what the encoder sends next.
* `CountdownExact`: each counter is the number of words, elements or signatures still to come.
* `ShownMatchesCalldata`: what the context would show equals `truth`, at every word, not only at the end.
* `RefusedExactly`: an `ERROR` exactly for the words that have to be refused: counts a `uint16_t` cannot
  hold, royalties above the maximum, words beyond the end.
* `ParsedOrRefused` (liveness): a transaction is refused or parsed to its end.

* `SignaturesShowNothing`: once a mint or a transfer has come to its signatures it stays there, and no field for
  the screens changes any more, whatever words come.
* `LastSignatureShowsNothing`: the same of a match, from the length of the right order's signature on.

Of a call (`PluginEntry`):

* `EntryTypeOK`: the C types, under messages in any order, and no exception pending outside the catch.
* `CallsAreAtomic`: what the app can see moves by steps of `PluginCalls` only. What can break it: a result that is the app's
  preset or the handler's first assignment and not its answer, a half-written screen that comes with `OK`.
* `CallsReturn` (liveness): every call comes back.

Of `semihosted_printf`:

* `PrintfTypeOK`: the locals keep to their C types.
* `PrintedAsAsked`: whenever control is at the top of the loop, the output is what the directives so far mean, each
  on its own, and each has taken exactly its arguments. (Of `%*s` the reference has the space too many that it prints, section 6.)
* `BufferHeld`: `pcBuf` is never written beyond its 16 characters.
* `Returns` (liveness): the call returns, so each of its loops ends.

Of the sessions (`PluginSession`):

* `SessionTypeOK`: the C types again, across transactions; the review stays within the announced screens.
* `AnswersExactly`: every call is answered `OK` except unknown selectors, incompatible apps, words that have
  to be refused and screens in which an exception was thrown: no announced screen is missing, and no
  half-drawn one passes.
* `ClearSigned`: the session implements `ClearSigning`. The mapping: a transaction is `open` from the answer to
  `FINALIZE` on and `signed` after the approval; its claims and what has been told are those of the session
  while it is under review, and empty otherwise. `Finalize` is the abstract `Open`; the title and every screen
  are `Tell`; `Approve` is `Sign`; an error, a rejection or the next transaction is `Close`; all else stutters.
  What can break it: something left of an earlier transaction, a field without a screen, a screen that reads as
  another field or another value, an error that lets the review go on.

Calldata may be cut off: `handle_finalize` does not look at where the parser stands. The claims of such a
transaction are those of the words that were sent, and zero for the rest, which is what the screens show. So `ClearSigned`
holds of a transaction whose calldata is over too early, and says nothing against its being confirmed: no document of the
repository says that it should not be.
A name or symbol longer than 32 bytes is shown by its first 32 (`copy_text`), and that is what `truth` holds of it.
Of a list the last creator, operator or royalty is what is promised, as the code and the tests' screenshots have it.

## 4. The runs

| Run | Expectation | Shows |
|---|---|---|
| `feed_token` | pass | `createToken`, `__ERC721Rarible_init`, `setApprovalForAll` |
| `feed_mint` | pass | `mintAndTransfer`, `transferFromOrMint` |
| `feed_orders` | pass | `cancel`, `matchOrders` |
| `session` | pass | all seven methods and an unknown selector, transaction after transaction |
| `empty_signatures` | pass | mints and transfers with empty signatures in their lists, matches whose last signature is empty |
| `entry` | pass | `main`: atomic answers, and every call returns |
| `printf` | pass | every directive of the debug `printf`, alone and before another |
| `printf_star` | violation | `StarPadsItsSize`, the comment on `%*s`, does not hold |
| `printf_capital_x` | violation | `CapitalXIsSmall`, the comment on `%X`, does not hold |
| `empty_mint_uri` | violation | `ShownMatchesCalldata` fails when the URI of a mint is empty |
| `empty_left_signature` | violation | `ShownMatchesCalldata` fails when the left signature is empty |
| `empty_order_data` | violation | `InStep` fails when the data of an order is empty |

**Bounds.** `AddressModulus` = 100003 stands for 2^160: larger than any `uint16_t`, as there, and smaller
than some words, so that the truncation of an address is seen. `Addresses` and `Values` have values
below and above 2^16, and `Values` one above `AddressModulus`; for royalties 10000 and 10001 and 65536.
`Lengths` has 0, a short length, lengths at and just beyond a whole number of words, two words, three words,
65535 (the longest supported: 2048 words, which `feed_orders` sends in full) and 65536 (refused).
`Quantities` has none, one, several and 65536 (refused). A parser has no other dependence on its data than
these comparisons. `MayBeEmpty` names the byte strings of which an empty one is sent: in the passing runs
those of which the code handles it, in each of the violation runs one of which it does not (section 6).
`Trailing` are the words sent after the end. Deadlock is not checked in these runs: a transaction ends, when a
word has been refused.

`empty_signatures` has `Trailing` empty: after an empty signature the parser waits for 65,535 words, which TLC
would count one by one. What it would find there is proved instead, for any number of words of any values
(`SignaturesAreNotShown`, and `LastSignatureIsNotShown` of the one word that an empty last signature of a match lets through).

`session` uses fewer shapes, because the shapes are the business of the other runs, and every selector, so that
each method follows each method, itself included, at every point the one before may have been left.
`Quantities` 0 and 1 make the flags `creator_found` and `operator_found` differ between two transactions;
`Lengths` 0 and 5 do it for texts; 65536 is the word that is refused half way. The royalties in `Values` are on both sides of
each boundary between two formats: 9 and 10, 99 and 100, 10000 and (in a transfer) more, and 110 has decimals where 100 has a
zero to fill in. All others are proved (`RoyaltiesReadBack`). Deadlock is checked: there is always a next call.

`Exceptions` are the two that the catch in `main.c` matches, and `ExceptionsAssumption` and `CallsAssumption` say so. This is an
assumption about the app's printing routines, which are not in the repository: the comment by the catch says that these two
come from the screens only, not that no other one can. `AnswersExactly`, `ClearSigned`, `CallsAreAtomic` and the theorems about
them say nothing of an exception that is not matched. What would become of it is in the model: `handle_query_ui_exception` and
`Catch` leave the answer `OK`, with the screen half drawn.

`entry` has a method whose screens are an id and addresses, any of which may throw, and one whose last screen is a
notice, which may not; an unknown selector; the index beyond the last screen; and one word, as the values are the
business of the feed runs. From there any message may follow any other. Deadlock is checked.

`printf` has `ULONG` = 65536 for 2^32, as TLC's integers have 32 bits: large enough for numbers of five digits and
for a width that has wrapped to stay far from 16. `Numbers` has both sides of the sign bit, the largest number (the
search for its first digit ends only at the wrap), and 9, 10, 255, 9999 around a change of digits. `Befores` has 64,
one more than `prints` writes at once, and `Texts` one of that length, one with a zero inside and one with a byte
above 127. `Widths` end at 15: no format of the repository has a width at all, and the code compares the padding
that is left with 16, not the width, so that from 16 on what it prints is another matter. The second directive of a
format is a number in hexadecimal, a text, or a number with a width: each would show a case, a length, a fill or a
width that was left. A format does not end inside a directive, `-` stands before the width of `s` only, and `*` has no width.
Deadlock is not checked: a call that has returned does nothing more.

**Fairness.** `EntrySpec` has weak fairness of the plugin's own steps: once called, it runs, and the app calls when it
likes. `PrintfSpec` has weak fairness of the one thread that runs the call. `Spec` has `WF_vars(Feed)`: the app's loop hands over every word of the calldata it has and
stops only at a refusal. Nothing is assumed of which word comes. `SessionSpec` assumes no fairness: a user may
leave a transaction for ever.

## 5. The proofs

Assumptions: `AddressAssumption` (an address is a modulus above 2^16), `CalldataAssumption`,
`SelectorsAssumption`, `ExceptionsAssumption`, `CallsAssumption`. No bound on lengths, list sizes or values.
Of `printf`: `PrintfAssumption` (an unsigned long is wider than a `uint16_t` and has at most the 2^32 values of the
device's, hence ten digits), `TextAssumption` (a text is shorter than 2^16) and `FormatAssumption` (`WellFormed`): text between
directives has no `%` and no zero and is shorter than 2^16 (`prints` keeps a length in a `uint16_t`), the width of a number
is below 16, `%*s` has no width of its own, and what comes after `%.` and `%*` does not make another directive of them. TLC
evaluates them in `printf`.

One hypothesis, about calldata, runs through the proofs of the parsers. The ABI allows any byte string to be empty;
the code tests names and symbols, URIs (but that of a mint) and the data of assets for it, and not the five others, and
there it loses its place (section 6). The theorems are of the calldata in which none of those five is empty: `NoEmptyMintParts` (the URI of a mint, the signatures in the lists of mints and
transfers), `NoEmptyOrderParts` (the data of an order, the two signatures of a match; the right one too, as `RefusedExactly` speaks of the
words after it), `NoUntestedEmptyParts` (both, each for the
methods that are fed), `CallsKeepInStep` (the same for the methods that sessions call). The passing feed runs have it,
and the violation runs are what happens without.

**Types.**

* `ContextTypes!ProvideParameterType`: one call, with any word, from any context of the right types,
  reachable or not, gives a context of the right types. Its lemmas go handler by handler; the delicate
  ones are the lengths (a quotient by 32 of a `uint16_t` is one) and `Minus1`. `InitContractType` is the same of
  `handle_init_contract`.
* `ParameterFeedTypes!TypeCorrect`: `Spec => []TypeOK`, all seven methods, any byte strings empty. With the lemma
  above what remains is the encoder.

**The parsers.** `InStep`, `CountdownExact`, `ShownMatchesCalldata` and `RefusedExactly` are not inductive, and neither is
their conjunction: that the next parameter is right after a list ends needs the counter, that the counter is right
needs what the last length was, and that the creator shown is the last needs both. For each group of methods an
invariant describes, place by place of the calldata, what the context holds there; it implies all four.

* `TokenFeedSafety!TokenMethodsSafe` (`createToken`, `__ERC721Rarible_init`, `setApprovalForAll`; no hypothesis).
  `TokenInv` adds where the encoder can be (`EncoderOK`: the part agrees with the kind of the field, what was sent is
  less than what is to be sent, counts that are being counted fit a `uint16_t`) and what the parser remembers between
  words (`ParserOK`: `max_counter` is the number of words of the text being sent, `name_len` its length).
  `max_counter = counter` is then "this is the first chunk", which is why the right bytes are kept.
* `MintFeedSafety!MintMethodsSafe` (`mintAndTransfer`, `transferFromOrMint`). `MintInv` has eight places (`MintPlace`): a
  field about to start, inside the URI, at a creator, at a royalty, at an offset of a signature, before a
  signature, inside one, at the end. Each says what its countdown is; `signatures_qty` is `qty - done` from the
  offsets of the signatures on, while `signatures_counter` and `signature_length` count beside it. It is in the places
  that something is left to be sent, so that `Minus1` is never applied to 0, and that is what "not empty" is needed for.
* `OrderFeedSafety!OrderMethodsSafe` (`cancel`, `matchOrders`). The places of `OrderInv` are: a static word (of an order
  or of an asset in it), inside the data of an asset, inside the data or signature of an order, at the end. `OnItsSide`
  ties `order_side` to the number of the field (`SideAt`), so that the parser of an order, gone through twice, keeps a
  maker as that of its own order. `sub_param` at the start of the second asset is what the end of the first one has to leave.
* `SessionSafety!ParsersStayInStep`, `CountersAreExact`, `ShownIsCalldata`, `RefusalsAreExact`: the four properties as the
  runs have them, of all seven methods, from the conjunction of the three invariants (`ParsersInv`): each of them is
  about its own methods, and no step changes the method.
* `MintFeedSafety!SignaturesAreNotShown`: `SignaturesShowNothing` without any hypothesis, empty signatures and trailing
  words included. From the type invariant: one lemma for the four cases that count signatures (each changes three
  fields, none of them shown, and leads to another of the four or to the end), one per method that no other case is enabled.

* `OrderFeedSafety!LastSignatureIsNotShown`: `LastSignatureShowsNothing` in the same way: of the cases of `parse_order` only the last
  two are enabled, and what they change of the body is `order_side`.

**The screens and the sessions.**

* `SessionSafety!RoyaltiesReadBack` and `ScreensTellClaims`: the screens as functions of the context. One
  lemma per form of text (it reads back as the value) and one per method (its titles name its fields, one
  each; that is where a title used twice, or a screen too few, would stop the proof).
* `SessionSafety!SessionTypeCorrect`: the invariant `SessionInv` adds to the types what each phase knows
  (`wanted = selectorIndex` from the first word on, nothing told before the review, as many screens as the
  method has) and that a flag is sent as 0 or 1 (`FlagOK`).
* `SessionSafety!ReviewIsClear`: `ClearSigned` for all seven methods, under the condition that while a
  transaction is fed `ShownMatchesCalldata` holds. `ReviewInv` says that from `FINALIZE` on the context holds what the
  calldata said and that every screen up to `shown` has been told. One lemma maps each action to its abstract step.
* `SessionSafety!SessionsAreClear`: the condition is discharged, and `ClearSigned` holds of sessions of all seven methods
  and unknown selectors, under `CallsKeepInStep`. `FeedInv` carries `ParsersInv` from one transaction into the next:
  after `Select` the plugin is in an initial state of `ParameterFeed` whatever it was in before, which is what the
  `memset` is for. `TokenSessionsAreClear` is the case that needs no hypothesis about the calldata.
* `SessionSafety!AnswersAreExact`: `AnswersExactly`. `AnswersInv` adds that in the course of a transaction the last
  answer was `OK`. That a screen is there when asked for comes from `ScreensTellClaims` (as many as announced), that a word is refused only
  when it has to be from `RefusedExactly` after the step.

**The entry point.**

* `EntrySafety!EntryTypeCorrect`: `EntryTypeOK`, which is inductive given the two theorems of `ContextTypes`: messages come
  in any order, so nothing but the types can be known of the context.
* `EntrySafety!CallsAppearAtomic`: `CallsAreAtomic`, for any words, any screens asked for, the exceptions that are caught. `EntryInv`
  says what holds within a call: until the handler is done the app has what it had; a handler that got past the
  clearing of the screen was asked for a screen there is; what a throw leaves is that screen's title. Then every step
  is a step of `PluginCalls` or none, and the step of a handler is that handler's: the `Same...` lemmas show, operator by
  operator, that the instance of it under the mapping is the operator itself.

**The debug `printf`.** In `PrintfSafety`:

* Induction over data. The library's induction theorems take an operator, which the provers cannot instantiate; taking a set
  instead makes them first-order. `InductionOnNat` (a set with 0 and every successor has all naturals: else the members below
  a number that is not in it would be a finite set mapped one to one into itself without 0), `LeastOfNat` and
  `StrongInduction` are proved from the library's facts on finite sets. From them: the recursive functions of
  `FlattenSeq` and `Numeral` exist and are unique, and so have the equations one reads off them (`FlattenAppend`,
  `FlattenCons`, `NumeralUnfold`); a number whose numeral begins with that of another is no smaller
  (`PrefixNotGreater`); a numeral has no more digits than that of a greater number (`NumeralGrows`), and at most ten (`NumeralIsShort`).
* `PrintsAll`: the chunks of 63 that `prints` sends are the text, if it has no zero in it.
* `PrintfInv`, the inductive invariant. Between directives it is `PrintedAsAsked`. Inside one (`Reading`) the output is
  that of the directives before and the text before this one, and the rest of the format is a suffix of this one's
  spelling and the format of the others: a flag and the rest (`AtFlag`), some digits of the width, of which the numeral of
  `ulCount` is the prefix already read (`InWidth`), or the last character behind a size (`AtText`). Each says what the
  locals are, and this is what an earlier directive could have spoilt. While a number is written (`InNumber`): the magnitude and the sign,
  `ulIdx` is a power of the base; before the padding `ulCount` is the width less the digits found so far, modulo 2^32
  (`Scaling`); then `pcBuf` is what stands before the number and its first digits (`Emitting`).
* The steps. That the width is read right needs `PrefixNotGreater`: a number of which only some digits have been read is
  no greater than the width, so that it neither wraps nor looks like no width. That the search for the first digit
  ends at the right power needs `ScaledIsProduct`: the division by the base gives back `ulIdx` exactly when the
  product did not wrap. That the padding is right needs `LeftIs`: what is left of the width, wrapped or not, is
  between 2 and 15 exactly when there is something to pad.
* `PrintfInvariant`, and from it `PrintfTypeCorrect`, `BufferIsHeld` and `PrintsAsAsked`: formats of any number of
  directives, in any order, flags and widths on any of them (more than the run has), all numbers of an unsigned long.

**Only model-checked.** `ParsedOrRefused`, `CallsReturn` and `Returns`: liveness under fairness is beyond the prover. What
becomes of a transaction after a byte string that was not to be empty, except that of the signatures of a mint or a transfer and
of the last one of a match nothing is shown.

Not modelled: `dbg/debug.c` and `dbg/debug.h` (a log and a check of the stack canary that no handler calls), the
launch of the Ethereum app from the dashboard (`call_app_ethereum`: nothing of the plugin runs), the branches
`default:` of switches over `selectorIndex`, which `handle_init_contract` never leaves outside the enumeration,
ABI encodings whose contents are not in the order of the arguments (the plugin skips every offset), and the tests,
build scripts and submodules.

## 6. Findings

Three byte strings that the ABI allows to be empty lose the parser's place; each is shown by a violation run.
Two more do the same where nothing that is shown comes after them, and are recorded after the list.

* `handle_provide_parameter.c:668`: the URI counter of a mint is decremented before it is tested and wraps
  to 65,535; creators and royalties are skipped and the screens show none. The transfer handler tests first.
* `handle_provide_parameter.c:147`: an empty signature of the left order is waited for; the right maker is
  swallowed and the next word is kept as the right maker.
* `handle_provide_parameter.c:128`: the same for empty order data, whose successor is the signature length.

Without an effect on what is shown:

* A signature in the list of a mint or a transfer, whose counter wraps (`empty_signatures`, `SignaturesAreNotShown`).
* The signature of the right order of a match. It is waited for at the end of the calldata, so that a match that ends there is
  confirmed with the parser still in `SIGNATURE`, and one word too many is taken instead of refused; the next one is refused.
  The test "Match Orders from Etherscan" (`tests/src/match_orders.test.js:96`) sends such a match with one more word after it, and
  is accepted for this reason only. A parser that tested for the empty signature would refuse that word, and the test with
  it. `RefusedExactly` and `AnswersExactly` are checked and proved of right signatures that are not empty;
  `empty_signatures` and `LastSignatureIsNotShown` show that the makers and takers are right with an empty one too.

Two comments of the debug `printf` say other than the code:

* `dbg/printf.c:331` has `%*s` pad with `ulStrlen` spaces; the loop prints one before it tests, and so one more.
* `dbg/printf.c:420` has `%X` print lower case letters; `case 'X'` sets `ulCap`, and they are capitals.

Two further readings of the code are not disagreements with its documents and are kept as they are: a
transfer without creators shows the zero address where a mint shows "No Creators", and a transfer accepts
royalties above 100% and shows "-" for them where a mint refuses them.

## 7. Plan

Done: the parsers with their runs, the screens and sessions with theirs, both abstract specifications and their
refinements, the entry point, the debug `printf`; and proved: the types of every part, the four properties of the parsers
for all seven methods, both refinements, the answers, and what `printf` prints. Every invariant the passing runs check
is a theorem. What is left, should the code change:

1. Formats that the repository does not use: widths of 16 and more, for which the code compares what is left of the width with
   the size of `pcBuf` and so pads or not by the number's length; a format that ends inside a directive.
2. Calldata whose byte strings are empty, once the parsers test for it: the hypotheses of section 5 can then go, the
   violation runs become passing ones, and the places of `MintInv` and `OrderInv` in question lose a case. The word after an empty
   right signature that a test sends would then have to be allowed for, in the parser and in `MustRefuse`.
3. The order of the contents of dynamic arguments (the plugin skips every offset), if a wallet is found that does not send
   them in the order of the arguments.
