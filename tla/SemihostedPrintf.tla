-------------------------- MODULE SemihostedPrintf --------------------------
(***************************************************************************)
(* semihosted_printf, the PRINTF of the debug build for the emulator       *)
(* (DEBUG=10 in the Makefile): a loop over the format that keeps what a    *)
(* directive asks for in a dozen locals, reset at each `%', and jumps back *)
(* to `again' for every character of it.                                   *)
(*                                                                         *)
(* A character is a string of length one, NUL the terminator; a text is    *)
(* what the memory holds up to and without its terminator.  unsigned long  *)
(* has ULONG values, 2^32 on the device.                                   *)
(***************************************************************************)
EXTENDS Integers, Sequences, SequencesExt

CONSTANTS
  ULONG,    \* the values of an unsigned long are 0 .. ULONG - 1
  Plans,    \* the formats printed, as the sequences of what they ask for
  Numbers,  \* the numbers given to print
  Sizes,    \* the lengths given with ".*" and "*"
  Texts     \* the texts, and memory to dump, given to print

USHORT == 65536    \* the size of prints is a uint16_t

(* unsigned long is wider than uint16_t and no wider than on the device. *)
ASSUME PrintfAssumption ==
  /\ ULONG \in Nat /\ ULONG >= USHORT /\ (ULONG - 1) \div USHORT < USHORT
  /\ Numbers \subseteq 0..(ULONG - 1) /\ Sizes \subseteq 0..(ULONG - 1)

VARIABLES
  plan,    \* history: what this call is asked to print
  given,   \* history: for each directive so far, the arguments va_arg took
  pc,      \* "scan" (top of the loop), "again", "convert", "pad", "digits", "done"
  format,  \* the rest of the format
  out,     \* what debug_write was given
  ulIdx, ulValue, ulCount, ulBase, ulNeg, ulStrlen, ulCap, cFill, cStrlenSet,
  pcBuf    \* pcBuf[0] .. pcBuf[ulPos - 1]

numberLocals == <<ulIdx, ulValue, ulBase, ulNeg, pcBuf>>
textLocals   == <<ulStrlen, cStrlenSet>>
flagLocals   == <<ulCount, cFill, ulCap>>
locals       == <<numberLocals, textLocals, flagLocals>>
printfVars   == <<plan, given, pc, format, out, locals>>

PcBufSize == 16
BufSize   == 64       \* buf of prints

g_pcHex ==
  <<"0", "1", "2", "3", "4", "5", "6", "7", "8", "9", "a", "b", "c", "d", "e", "f">>
g_pcHex_cap ==
  <<"0", "1", "2", "3", "4", "5", "6", "7", "8", "9", "A", "B", "C", "D", "E", "F">>
Capital == {"A", "B", "C", "D", "E", "F"}
Decimal == {g_pcHex[i] : i \in 1..10}
DigitValue(c) == (CHOOSE i \in 1..10 : g_pcHex[i] = c) - 1

(* The bytes of the characters that texts are made of here. *)
Ascii == [NUL |-> 0, k |-> 107, z |-> 122, tilde |-> 126, xe3 |-> 227]

ERROR     == <<"E", "R", "R", "O", "R">>
Spaces(n) == [i \in 1..n |-> " "]
Zeros(n)  == [i \in 1..n |-> "0"]

-----------------------------------------------------------------------------
(* The format of a plan.  An item is the text before a directive and the   *)
(* directive: `flag' ("" for none, "-" or "0"), `width' (0 for none) and   *)
(* `conv'.  Every format ends with "\n".                                   *)

Spelled ==
  [s |-> <<"s">>, h |-> <<"h">>, H |-> <<"H">>, c |-> <<"c">>, d |-> <<"d">>,
   u |-> <<"u">>, x |-> <<"x">>, X |-> <<"X">>, p |-> <<"p">>, percent |-> <<"%">>,
   dot_s |-> <<".", "*", "s">>, dot_h |-> <<".", "*", "h">>, dot_H |-> <<".", "*", "H">>,
   star_s |-> <<"*", "s">>, dot |-> <<".">>, star |-> <<"*">>, q |-> <<"q">>]

(* The digits of n, most significant first: what a numeral is, and not how *)
(* semihosted_printf comes to it.                                          *)
Numeral(n, base, digits) ==
  LET numeral[m \in 0..n] ==
        IF m < base THEN <<digits[m + 1]>>
        ELSE Append(numeral[m \div base], digits[(m % base) + 1])
  IN numeral[n]

Spelling(item) ==
  item.before \o <<"%">> \o (IF item.flag = "" THEN <<>> ELSE <<item.flag>>)
  \o (IF item.width = 0 THEN <<>> ELSE Numeral(item.width, 10, g_pcHex))
  \o Spelled[item.conv]
FormatOf(items) == FlattenSeq([i \in 1..Len(items) |-> Spelling(items[i])]) \o <<"\n">>

NumberConversions == {"d", "u", "x", "X", "p"}

(* The items are what their format asks for: a text between directives has *)
(* no directive in it and fits into one call of prints, numbers are no     *)
(* wider than pcBuf takes, "%*s" has no width of its own, and what comes   *)
(* behind "%." and "%*" does not make another directive of them.           *)
WellFormed(items) ==
  /\ items \in Seq([before : Seq(STRING \ {"%", "NUL"}), flag : {"", "-", "0"},
                    width : 0..(ULONG - 1), conv : DOMAIN Spelled])
  /\ \A i \in 1..Len(items) :
       LET item == items[i]
           next == Head(FormatOf(SubSeq(items, i + 1, Len(items))))
       IN /\ Len(item.before) < USHORT
          /\ item.conv \in NumberConversions => item.width < PcBufSize
          /\ item.conv = "star_s" => item.width = 0
          /\ item.conv = "dot" => next # "*"
          /\ item.conv = "star" => next # "s"

ASSUME FormatAssumption == \A items \in Plans : WellFormed(items)

ASSUME TextAssumption ==
  \A text \in Texts : text \in Seq(DOMAIN Ascii) /\ Len(text) < USHORT

-----------------------------------------------------------------------------
UpTo(c, s) ==
  IF \E i \in 1..Len(s) : s[i] = c
  THEN SubSeq(s, 1, SelectInSeq(s, LAMBDA e : e = c) - 1) ELSE s

strlen(s) == Len(UpTo("NUL", s))

(* The characters go out in chunks of a buffer, each as a string of C: of  *)
(* one that holds a NUL the rest is lost.                                  *)
prints(s) ==
  LET size      == Len(s) % USHORT
      room      == BufSize - 1
      lower(a, b) == IF a < b THEN a ELSE b
      chunk(i)  == SubSeq(s, (i - 1) * room + 1, lower(i * room, size))
  IN FlattenSeq([i \in 1..((size + room - 1) \div room) |-> UpTo("NUL", chunk(i))])

(* va_arg *)
Take(kind, value) ==
  given' = [given EXCEPT ![Len(given)] = Append(@, [kind |-> kind, value |-> value])]

(* A mutation: the case of the digits is left as the last directive set it. *)
ScanKeepingCase ==
  /\ pc = "scan" /\ format # <<>>
  /\ LET text == UpTo("%", format)
     IN /\ out' = out \o prints(text)
        /\ ulIdx' = Len(text)
        /\ IF Len(text) = Len(format)
           THEN /\ pc' = "scan" /\ format' = <<>>
                /\ UNCHANGED <<given, ulBase, textLocals, ulCount, cFill>>
           ELSE /\ pc' = "again" /\ format' = SubSeq(format, Len(text) + 2, Len(format))
                /\ given' = Append(given, <<>>)
                /\ ulCount' = 0 /\ cFill' = " " /\ ulStrlen' = 0 /\ cStrlenSet' = 0
                /\ ulBase' = 10
  /\ UNCHANGED <<plan, ulValue, ulNeg, pcBuf, ulCap>>

(* Up to the next directive, which finds the locals reset. *)
Scan ==
  /\ pc = "scan" /\ format # <<>>
  /\ LET text == UpTo("%", format)
     IN /\ out' = out \o prints(text)
        /\ ulIdx' = Len(text)
        /\ IF Len(text) = Len(format)
           THEN /\ pc' = "scan" /\ format' = <<>>
                /\ UNCHANGED <<given, ulBase, textLocals, flagLocals>>
           ELSE /\ pc' = "again" /\ format' = SubSeq(format, Len(text) + 2, Len(format))
                /\ given' = Append(given, <<>>)
                /\ ulCount' = 0 /\ cFill' = " " /\ ulStrlen' = 0 /\ cStrlenSet' = 0
                /\ ulCap' = 0 /\ ulBase' = 10
  /\ UNCHANGED <<plan, ulValue, ulNeg, pcBuf>>

Return ==
  /\ pc = "scan" /\ format = <<>>
  /\ pc' = "done" /\ UNCHANGED <<plan, given, format, out, locals>>

(* The next character of the format, which is skipped. *)
Reads(c) == pc = "again" /\ format # <<>> /\ Head(format) = c /\ format' = Tail(format)

Digit(c) ==
  /\ Reads(c)
  /\ cFill' = IF c = "0" /\ ulCount = 0 THEN "0" ELSE cFill
  /\ ulCount' = (ulCount * 10 + DigitValue(c)) % ULONG
  /\ UNCHANGED <<plan, given, pc, out, numberLocals, textLocals, ulCap>>

Minus ==
  /\ Reads("-")
  /\ cStrlenSet' = 0
  /\ UNCHANGED <<plan, given, pc, out, numberLocals, ulStrlen, flagLocals>>

(* ".*s", ".*h" and ".*H": the character after the `*' is not skipped. *)
Dot ==
  /\ pc = "again" /\ Len(format) > 2 /\ format[1] = "."
  /\ format[2] = "*" /\ format[3] \in {"s", "h", "H"}
  /\ format' = SubSeq(format, 3, Len(format))
  /\ \E n \in Sizes : ulStrlen' = n /\ Take("size", n)
  /\ cStrlenSet' = 1
  /\ UNCHANGED <<plan, pc, out, numberLocals, flagLocals>>

Star ==
  /\ Reads("*") /\ Len(format) > 1 /\ format[2] = "s"
  /\ \E n \in Sizes : ulStrlen' = n /\ Take("size", n)
  /\ cStrlenSet' = 2
  /\ UNCHANGED <<plan, pc, out, numberLocals, flagLocals>>

(* What the loops leave in ulIdx, ulCount and ulStrlen, %c in ulValue and  *)
(* %h and %H in ulBase and ulCap is not kept: what comes next sets all of  *)
(* them anew.                                                              *)
Printed(text) ==
  /\ out' = out \o text
  /\ pc' = "scan"
  /\ UNCHANGED <<plan, numberLocals, textLocals, flagLocals>>

Char ==
  /\ Reads("c")
  /\ \E c \in DOMAIN Ascii : Take("char", c) /\ Printed(prints(<<c>>))

Percent == Reads("%") /\ Printed(<<"%">>) /\ UNCHANGED given

Known == Decimal \cup {".", "*", "-", "c", "d", "H", "h", "s", "u", "X", "x", "p", "%"}

(* `error:' and `default:' *)
Unknown ==
  /\ pc = "again" /\ format # <<>> /\ format' = Tail(format)
  /\ \/ Head(format) \notin Known
     \/ format[1] = "." /\ ~(Len(format) > 2 /\ format[2] = "*" /\ format[3] \in {"s", "h", "H"})
     \/ format[1] = "*" /\ ~(Len(format) > 1 /\ format[2] = "s")
  /\ Printed(ERROR) /\ UNCHANGED given

(* s_pad *)
Padding(length) == Spaces(IF ulCount > length THEN ulCount - length ELSE 0)

(* A text that is given has the length that is given with it. *)
Holds(text, n) == cStrlenSet = 1 => n >= ulStrlen

LengthOf(text) == IF cStrlenSet = 1 THEN ulStrlen ELSE strlen(text)

(* "%s", padded behind to its width. *)
Text ==
  /\ Reads("s") /\ cStrlenSet # 2
  /\ \E text \in Texts :
       /\ Holds(text, strlen(text))
       /\ Take("text", text)
       /\ Printed(prints(SubSeq(text, 1, LengthOf(text))) \o Padding(LengthOf(text)))

(* The nibbles of each byte.  ulCount counts the bytes, so that no width   *)
(* is left to pad to.                                                      *)
Dump(c, digits) ==
  /\ Reads(c)
  /\ \E text \in Texts :
       /\ Holds(text, Len(text))
       /\ Take("text", text)
       /\ Printed(FlattenSeq(
            [i \in 1..LengthOf(text) |->
               <<digits[Ascii[text[i]] \div 16 + 1], digits[(Ascii[text[i]] % 16) + 1]>>]))

(* "%*s" takes an empty text only, and prints spaces for it; ulIdx is      *)
(* still the length of the text before the directive.                      *)
StarText ==
  /\ Reads("s") /\ cStrlenSet = 2
  /\ \E text \in Texts :
       /\ Take("text", text)
       /\ Printed(IF strlen(text) = 0 THEN Spaces(ulStrlen + 1) \o Padding(ulIdx)
                  ELSE ERROR)

(* "%d": the value as a long, its sign apart.  "%u", "%x", "%X", "%p".     *)
Number(c, base, cap) ==
  /\ Reads(c)
  /\ \E n \in Numbers :
       /\ Take("number", n)
       /\ ulNeg' = (c = "d" /\ n >= ULONG \div 2)
       /\ ulValue' = IF ulNeg' THEN (-n) % ULONG ELSE n
  /\ ulIdx' = 1 /\ ulBase' = base /\ ulCap' = cap /\ pcBuf' = <<>>
  /\ pc' = "convert"
  /\ UNCHANGED <<plan, out, textLocals, ulCount, cFill>>

NumberDirective ==
  \/ Number("d", 10, ulCap) \/ Number("u", 10, ulCap)
  \/ Number("x", 16, ulCap) \/ Number("p", 16, ulCap) \/ Number("X", 16, 1)

Directive ==
  \/ \E c \in Decimal : Digit(c)
  \/ Minus \/ Dot \/ Star \/ Char \/ Percent \/ Unknown
  \/ Text \/ Dump("h", g_pcHex) \/ Dump("H", g_pcHex_cap) \/ StarText
  \/ NumberDirective

-----------------------------------------------------------------------------
(* convert *)

(* A mutation: the width is kept from wrapping, and the product is not. *)
ScaleWrapping ==
  /\ pc = "convert"
  /\ LET scaled == (ulIdx * ulBase) % ULONG
     IN IF scaled <= ulValue
        THEN /\ ulIdx' = scaled /\ UNCHANGED pc
             /\ ulCount' = IF ulCount > 0 THEN ulCount - 1 ELSE 0
        ELSE pc' = "pad" /\ UNCHANGED <<ulIdx, ulCount>>
  /\ UNCHANGED <<plan, given, format, out, ulValue, ulBase, ulNeg, pcBuf, textLocals,
                 cFill, ulCap>>

(* A mutation: the digits are not taken off the width. *)
ScaleUncounted ==
  /\ pc = "convert"
  /\ LET scaled == (ulIdx * ulBase) % ULONG
     IN IF scaled <= ulValue /\ scaled \div ulBase = ulIdx
        THEN ulIdx' = scaled /\ UNCHANGED pc
        ELSE pc' = "pad" /\ UNCHANGED ulIdx
  /\ UNCHANGED <<plan, given, format, out, ulValue, ulCount, ulBase, ulNeg, pcBuf,
                 textLocals, cFill, ulCap>>

(* A mutation: the width is a number below zero when the digits are more.  *)
ScaleSigned ==
  /\ pc = "convert"
  /\ LET scaled == (ulIdx * ulBase) % ULONG
     IN IF scaled <= ulValue /\ scaled \div ulBase = ulIdx
        THEN ulIdx' = scaled /\ ulCount' = ulCount - 1 /\ UNCHANGED pc
        ELSE pc' = "pad" /\ UNCHANGED <<ulIdx, ulCount>>
  /\ UNCHANGED <<plan, given, format, out, ulValue, ulBase, ulNeg, pcBuf, textLocals,
                 cFill, ulCap>>

(* ulIdx becomes the power of the base of the first digit; each digit is   *)
(* one less to pad.                                                        *)
Scale ==
  /\ pc = "convert"
  /\ LET scaled == (ulIdx * ulBase) % ULONG
     IN IF scaled <= ulValue /\ scaled \div ulBase = ulIdx
        THEN ulIdx' = scaled /\ ulCount' = (ulCount - 1) % ULONG /\ UNCHANGED pc
        ELSE pc' = "pad" /\ UNCHANGED <<ulIdx, ulCount>>
  /\ UNCHANGED <<plan, given, format, out, ulValue, ulBase, ulNeg, pcBuf, textLocals,
                 cFill, ulCap>>

(* The sign stands before zeros and behind spaces.  What is left of        *)
(* ulCount, wrapped around if the number is longer than its width, counts  *)
(* the last digit too.                                                     *)
Pad ==
  /\ pc = "pad"
  /\ LET left  == IF ulNeg THEN (ulCount - 1) % ULONG ELSE ulCount
         sign  == IF ulNeg THEN <<"-">> ELSE <<>>
         fill  == [i \in 1..(left - 1) |-> cFill]
     IN /\ ulCount' = IF left > 1 /\ left < PcBufSize THEN 0 ELSE left
        /\ pcBuf' = IF ~(left > 1 /\ left < PcBufSize) THEN sign
                    ELSE IF cFill = "0" THEN sign \o fill ELSE fill \o sign
  /\ ulNeg' = (ulNeg /\ cFill # "0")
  /\ pc' = "digits"
  /\ UNCHANGED <<plan, given, format, out, ulIdx, ulValue, ulBase, textLocals, cFill, ulCap>>

EmitDigit ==
  /\ pc = "digits" /\ ulIdx # 0
  /\ LET digits == IF ulCap = 0 THEN g_pcHex ELSE g_pcHex_cap
     IN pcBuf' = Append(pcBuf, digits[((ulValue \div ulIdx) % ulBase) + 1])
  /\ ulIdx' = ulIdx \div ulBase
  /\ UNCHANGED <<plan, given, pc, format, out, ulValue, ulBase, ulNeg, textLocals, flagLocals>>

EndNumber ==
  /\ pc = "digits" /\ ulIdx = 0
  /\ Printed(prints(pcBuf)) /\ UNCHANGED <<given, format>>

-----------------------------------------------------------------------------
PrintfInit ==
  /\ plan \in Plans /\ format = FormatOf(plan)
  /\ given = <<>> /\ out = <<>> /\ pc = "scan"
  /\ ulIdx = 0 /\ ulValue = 0 /\ ulCount = 0 /\ ulBase = 10 /\ ulNeg = FALSE
  /\ ulStrlen = 0 /\ ulCap = 0 /\ cFill = " " /\ cStrlenSet = 0 /\ pcBuf = <<>>

PrintfNext == Scan \/ Directive \/ Scale \/ Pad \/ EmitDigit \/ EndNumber \/ Return

(* Nothing interrupts the call. *)
PrintfSpec == PrintfInit /\ [][PrintfNext]_printfVars /\ WF_printfVars(PrintfNext)
-----------------------------------------------------------------------------
(* What a directive means, whatever was printed before it. *)

NumberMeaning(item, n) ==
  LET negative  == item.conv = "d" /\ n >= ULONG \div 2
      sign      == IF negative THEN <<"-">> ELSE <<>>
      magnitude == IF negative THEN ULONG - n ELSE n
      numeral   == IF item.conv = "X" THEN Numeral(magnitude, 16, g_pcHex_cap)
                   ELSE Numeral(magnitude, IF item.conv \in {"x", "p"} THEN 16 ELSE 10, g_pcHex)
      missing   == item.width - Len(sign \o numeral)
  IN IF item.flag = "0" THEN sign \o Zeros(missing) \o numeral
                        ELSE Spaces(missing) \o sign \o numeral

TextMeaning(item, text) == text \o Spaces(item.width - Len(text))

(* 0x100 + a byte is a 1 and the two digits of the byte. *)
DumpMeaning(text, digits) ==
  FlattenSeq([i \in 1..Len(text) |-> Tail(Numeral(256 + Ascii[text[i]], 16, digits))])

(* The arguments a directive takes, in their order. *)
Takes ==
  [s |-> <<"text">>, h |-> <<"text">>, H |-> <<"text">>, c |-> <<"char">>,
   d |-> <<"number">>, u |-> <<"number">>, x |-> <<"number">>, X |-> <<"number">>,
   p |-> <<"number">>, percent |-> <<>>, dot |-> <<>>, star |-> <<>>, q |-> <<>>,
   dot_s |-> <<"size", "text">>, dot_h |-> <<"size", "text">>, dot_H |-> <<"size", "text">>,
   star_s |-> <<"size", "text">>]

(* args: the arguments by their order.  "%*s" is taken to print a space    *)
(* more than it is given, as it does.                                      *)
Meaning(item, args) ==
  CASE item.conv \in {"d", "u", "x", "X", "p"} -> NumberMeaning(item, args[1])
    [] item.conv = "c" -> IF args[1] = "NUL" THEN <<>> ELSE <<args[1]>>
    [] item.conv = "percent" -> <<"%">>
    [] item.conv = "s" -> TextMeaning(item, UpTo("NUL", args[1]))
    [] item.conv = "dot_s" -> TextMeaning(item, SubSeq(args[2], 1, args[1]))
    [] item.conv = "h" -> DumpMeaning(UpTo("NUL", args[1]), g_pcHex)
    [] item.conv = "H" -> DumpMeaning(UpTo("NUL", args[1]), g_pcHex_cap)
    [] item.conv = "dot_h" -> DumpMeaning(SubSeq(args[2], 1, args[1]), g_pcHex)
    [] item.conv = "dot_H" -> DumpMeaning(SubSeq(args[2], 1, args[1]), g_pcHex_cap)
    [] item.conv = "star_s" -> IF strlen(args[2]) = 0 THEN Spaces(args[1] + 1) ELSE ERROR
    [] item.conv \in {"dot", "star", "q"} -> ERROR

Values(i) == [j \in 1..Len(given[i]) |-> given[i][j].value]
Kinds(i)  == [j \in 1..Len(given[i]) |-> given[i][j].kind]
Served(k) == FlattenSeq([i \in 1..k |-> plan[i].before \o Meaning(plan[i], Values(i))])

(* The first k directives and what stands before each have been printed,   *)
(* from the arguments they take, and the rest of the format is to come.    *)
UpToDirective(k) ==
  /\ \A i \in 1..k : Kinds(i) = Takes[plan[i].conv]
  /\ \/ format = FormatOf(SubSeq(plan, k + 1, Len(plan))) /\ out = Served(k)
     \/ k = Len(plan) /\ format = <<>> /\ out = Served(k) \o <<"\n">>

-----------------------------------------------------------------------------
(* The locals keep to their C types. *)
PrintfTypeOK ==
  /\ pc \in {"scan", "again", "convert", "pad", "digits", "done"}
  /\ ulIdx \in 0..(ULONG - 1) /\ ulValue \in 0..(ULONG - 1)
  /\ ulCount \in 0..(ULONG - 1) /\ ulStrlen \in 0..(ULONG - 1)
  /\ ulBase \in {10, 16} /\ ulNeg \in BOOLEAN /\ ulCap \in {0, 1}
  /\ cFill \in {" ", "0"} /\ cStrlenSet \in {0, 1, 2}

(* After each directive the output is what it and those before it mean,    *)
(* each on its own: no width, fill, case, length, sign or argument of one  *)
(* is used by another.                                                     *)
PrintedAsAsked == pc \in {"scan", "done"} => UpToDirective(Len(given))

(* A number of any width below 16 fits into pcBuf, sign and fill included. *)
BufferHeld == Len(pcBuf) <= PcBufSize

(* What the comment on "%*s" says: as many spaces as it is given. *)
StarPadsItsSize ==
  pc = "done" /\ Len(plan) = 1 /\ plan[1].conv = "star_s" /\ strlen(Values(1)[2]) = 0
    => out = plan[1].before \o Spaces(Values(1)[1]) \o <<"\n">>

(* What the comment on "%X" says: its digits are those of "%x". *)
CapitalXIsSmall ==
  pc = "done" /\ (\A i \in 1..Len(plan) : plan[i].conv \in {"x", "X", "p"})
    => \A i \in 1..Len(out) : out[i] \notin Capital

(* The call returns: in particular the search for the first digit of a     *)
(* number ends although the power of the base wraps.                       *)
Returns == <>(pc = "done")
=============================================================================
