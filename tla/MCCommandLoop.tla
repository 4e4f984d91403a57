---------------------------- MODULE MCCommandLoop ----------------------------
(***************************************************************************)
(* CommandLoop for TLC, with three keymaps: one to define and call macros, *)
(* one where sequences shadow shorter ones, and one that kills and yanks.  *)
(***************************************************************************)
EXTENDS CommandLoop

Cmd(name) == [cmd |-> name, text |-> <<>>]

Macros ==
  "a" :> Cmd("self-insert") @@ "(" :> Cmd("start-kbd-macro") @@ ")" :> Cmd("end-kbd-macro")
  @@ "e" :> Cmd("call-last-kbd-macro") @@ "2" :> Cmd("digit-argument")

Sequences ==
  <<"a">> :> Cmd("self-insert") @@ <<"p">> :> Cmd("left")
  @@ <<"p", "p", "a">> :> Cmd("abort") @@ <<"p", "(">> :> Cmd("start-kbd-macro")
  @@ <<"q", ")">> :> Cmd("end-kbd-macro") @@ <<"e">> :> Cmd("call-last-kbd-macro")
  @@ <<"m">> :> [cmd |-> "macro", text |-> <<"p", "m">>]

KillKeys ==
  "a" :> Cmd("self-insert") @@ "k" :> Cmd("kill-line") @@ "u" :> Cmd("unix-line-discard")
  @@ "w" :> Cmd("kill-whole-line") @@ "y" :> Cmd("yank") @@ "o" :> Cmd("yank-pop")
  @@ "l" :> Cmd("left") @@ "g" :> Cmd("abort")

Single(map) == [s \in {<<key>> : key \in DOMAIN map} |-> map[s[1]]]

MCKey == DOMAIN Macros \cup DOMAIN KillKeys \cup {"p", "q", "m"}
MCDigit == "2" :> 2
MCKeymaps == {Single(Macros), Sequences, Single(KillKeys)}
MCLines == {<<"k", "l", "a">>}

=============================================================================
