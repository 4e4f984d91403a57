---------------------------- MODULE MCCompletion ----------------------------
(***************************************************************************)
(* Completion for TLC: three trees of names, lines that end in the middle  *)
(* of a word or go on behind it, and the settings one or two at a time.    *)
(***************************************************************************)
EXTENDS Completion

File(names) == [n \in names |-> "file"]
MCTrees == {
  <<>> :> (File({<<"a", "b">>, <<"a", "b", "c">>, <<".", "h">>, <<".">>}) @@ <<"d">> :> "dir")
    @@ <<"d", "/">> :> (File({<<"a">>, <<"b">>}) @@ <<"l">> :> "link"),
  <<>> :> (File({<<"a", "b">>}) @@ <<"A", "b">> :> "dir" @@ <<"a", "c">> :> "link" @@ <<"b">> :> "link"),
  <<>> :> (File({<<".", "h">>, <<".", "b">>}) @@ <<".">> :> "dir" @@ <<".", ".">> :> "dir")}

At(l, p) == [line |-> l, point |-> p]
MCLines == {
  At(<<>>, 0), At(<<"a">>, 1), At(<<"A">>, 1), At(<<"b">>, 1), At(<<" ", "a", "b">>, 2), At(<<"'", "a">>, 2),
  At(<<"'", "d">>, 2), At(<<"d", "/", "b", " ">>, 2), At(<<"d", "/">>, 1), At(<<"d", "/", "l">>, 3), At(<<".">>, 1)}

Default == [fold |-> FALSE, hidden |-> TRUE, skip |-> FALSE, markdirs |-> TRUE, marklinks |-> FALSE,
            all |-> FALSE, unmodified |-> FALSE, prefix |-> FALSE, across |-> FALSE, query |-> 100]
MCSettings == {
  Default, [Default EXCEPT !.fold = TRUE], [Default EXCEPT !.hidden = FALSE, !.markdirs = FALSE],
  [Default EXCEPT !.skip = TRUE], [Default EXCEPT !.marklinks = TRUE, !.unmodified = TRUE],
  [Default EXCEPT !.all = TRUE, !.across = TRUE], [Default EXCEPT !.all = TRUE, !.query = 3],
  [Default EXCEPT !.prefix = TRUE], [Default EXCEPT !.prefix = TRUE, !.all = TRUE]}

Chars == <<" ", "'", ".", "/", "A", "a", "b", "c", "d", "h", "l">>
MCRank == [c \in ToSet(Chars) |-> CHOOSE i \in 1 .. Len(Chars) : Chars[i] = c]
MCLower == [c \in ToSet(Chars) |-> IF c = "A" THEN "a" ELSE c]
=============================================================================
