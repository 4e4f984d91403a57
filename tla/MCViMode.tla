------------------------------ MODULE MCViMode ------------------------------
(***************************************************************************)
(* Vi mode for TLC: lines with words, punctuation, blanks at either end    *)
(* and a pair of brackets.                                                 *)
(***************************************************************************)
EXTENDS ViMode

MCOther == [a |-> "A", A |-> "a"]
MCBracket == "(" :> 1 @@ ")" :> -1

\* Motions on many lines; words and the end of the line; searching; brackets,
\* marks and columns; commands without motions; inserting.
MCUses == {
  [lines |-> UNION {[1 .. n -> {"a", ".", " "}] : n \in 0 .. 4}, motions |-> {"w", "b"}, changers |-> {}],
  [lines |-> {<<"a", "a", " ", "a">>, <<" ", ".", "a", " ">>},
   motions |-> {"w", "b", "e", "W"}, changers |-> {"d", "c", "y"}],
  [lines |-> {<<"a", " ", "a", "a">>}, motions |-> {"f", "T", ";", ","}, changers |-> {"d"}],
  [lines |-> {<<"(", "a", ")", "a">>}, motions |-> {"%", "|", "0", "goto"}, changers |-> {"d", "y", "D"}],
  [lines |-> {<<"a", " ", "A">>}, motions |-> {"h", "l"}, changers |-> {"x", "X", "r", "~", "p", "P", "D", "Y"}],
  [lines |-> {<<" ", "a">>}, motions |-> {"l", "$", "^"}, changers |-> {"i", "I", "a", "A", "R", "C", "s", "S"}]}

=============================================================================
