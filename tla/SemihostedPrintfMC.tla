------------------------- MODULE SemihostedPrintfMC -------------------------
(***************************************************************************)
(* Formats, texts and bounds for SemihostedPrintf: every directive at      *)
(* every width, with and without text before it, followed by one whose     *)
(* output would tell what it left behind.                                  *)
(***************************************************************************)
EXTENDS SemihostedPrintf

CONSTANTS Widths, Befores  \* widths of directives, lengths of the texts between them

Repeat(c, n) == [i \in 1..n |-> c]

Item(before, flag, width, conv) ==
  [before |-> before, flag |-> flag, width |-> width, conv |-> conv]

NumberItems ==
  {Item(Repeat("k", n), flag, width, conv) :
     n \in Befores, flag \in {"", "0"}, width \in Widths, conv \in {"d", "u", "x", "X", "p"}}
TextItems ==
  {Item(Repeat("k", n), flag, width, conv) :
     n \in Befores, flag \in {"", "-"}, width \in Widths, conv \in {"s", "dot_s"}}
PlainItems ==
  {Item(Repeat("k", n), "", 0, conv) :
     n \in Befores, conv \in {"c", "percent", "h", "H", "dot_h", "dot_H", "star_s", "q", "dot", "star"}}

(* What a width, a fill, a case, a sign or a length left behind would spoil. *)
Probes == {Item(<<>>, "", 0, "x"), Item(<<"z">>, "", 0, "s"), Item(<<>>, "", 4, "d")}

AllDirectives == {<<first, probe>> : first \in NumberItems \cup TextItems \cup PlainItems,
                                     probe \in Probes}

SomeTexts ==
  {<<>>, <<"k", "tilde", "z">>, <<"NUL", "k">>, <<"xe3", "k", "NUL", "z">>, Repeat("z", 64)}

(* What "%X" and "%*s" print, for the runs about the comments on them. *)
CapitalX  == {<<Item(<<>>, "", 0, "X")>>}
StarSizes == {<<Item(Repeat("k", n), "", 0, "star_s")>> : n \in Befores}
=============================================================================
