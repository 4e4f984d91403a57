----------------------------- MODULE MCDisplay -----------------------------
(***************************************************************************)
(* The display for TLC: a screen of three columns, three kinds of          *)
(* terminal, and prompts of one cell, of one cell between two invisible    *)
(* characters, and of more cells than a row has.                           *)
(***************************************************************************)
EXTENDS Display

Terminal(wraps, edits, clears) ==
  [wraps |-> wraps, inserts |-> edits, deletes |-> edits, clears |-> clears]
MCTerminals == {Terminal(TRUE, TRUE, TRUE), Terminal(TRUE, FALSE, TRUE), Terminal(FALSE, FALSE, FALSE)}

MCPrompts == {<<">">>, <<"esc", ">", "esc">>, <<"esc", "p", "esc", "q", "r", ">">>}
MCMessages == {<<"?", ":">>}

\* Every line of at most three letters, and some that wrap or are not drawn as
\* they are typed.
MCLines ==
  UNION {[1 .. n -> {"a", "b"}] : n \in 0 .. 3}
  \cup {<<"b", "b", "a", "b", "a">>, <<"a", "b", "ctl", "a">>,
        <<"ctl">>, <<"a", "ctl">>, <<"nl">>, <<"a", "nl", "b">>}

=============================================================================
