--------------------------- MODULE HistoryExpansion ---------------------------
(***************************************************************************)
(* History expansion (histexpand.c): !, ^ and what follows them in a line, *)
(* as an application uses it that expands every line it reads and adds it  *)
(* to the history (examples/histexamp.c).                                  *)
(*                                                                         *)
(* A line is a sequence of characters, because what is an event, a word    *)
(* designator, a modifier or quoted hangs on single characters.  Places in *)
(* a line are counted from 0, as in the code.                              *)
(***************************************************************************)
EXTENDS Integers, SequencesExt

CONSTANTS
  Digit,    \* the digits and their values
  Comment,  \* history_comment_char
  Sessions, \* names of sessions, and history_quotes_inhibit_expansion in each
  Histories(_),   \* the histories a session may begin with
  Requests(_, _)  \* what its n-th line may ask for: see Meaning

VARIABLES
  session,  \* its name and setting, and how many lines were typed
  history,  \* the lines of the history list
  memory,   \* search_string, search_match, subst_lhs, subst_rhs
  answer    \* the last request and what history_expand made of it

expandVars == <<session, history, memory, answer>>

Dollar == 36   \* '$', as a number of a word: the last one

\* What Op makes of a value.
With(value, Op(_)) == Op(value)

-----------------------------------------------------------------------------
(* Characters *)

Nul == "nul"
Ch(s, i) == IF 0 <= i /\ i < Len(s) THEN s[i + 1] ELSE Nul
Part(s, i, j) == SubSeq(s, i + 1, j)
Until(s, i, P(_)) ==
  CHOOSE j \in i .. Len(s) : (j = Len(s) \/ P(j)) /\ \A k \in i .. j - 1 : ~P(k)
LastOf(s, c) == CHOOSE j \in 0 .. Len(s) - 1 : Ch(s, j) = c /\ \A k \in j + 1 .. Len(s) : Ch(s, k) # c
Has(s, c) == c \in ToSet(s)

Quotes == {"\"", "'", "back"}
Operators == {"<", ">", ";", "&", "|"}
Delimiters == Operators \cup {" ", "(", ")"}
Globs == {"<", ">", "$", "!", "@", "?", "+", "*"}

DigitsEnd(s, i) == Until(s, i, LAMBDA j : Ch(s, j) \notin DOMAIN Digit)
Number(s, i, j) == FoldLeft(LAMBDA n, c : 10 * n + Digit[c], 0, Part(s, i, j))

-----------------------------------------------------------------------------
(* Words, as the shell would split them *)

\* The part of history_tokenize_word after get_word: quotes, backslashes and
\* parentheses hide what ends a word.  A line that ends in a backslash is read
\* beyond its end.
RECURSIVE GetWord(_, _, _, _)
GetWord(s, i, delimiter, nest) ==
  LET c == Ch(s, i)
      opens == delimiter = Nul /\ c \in Globs /\ Ch(s, i + 1) = "("
  IN
  CASE c = Nul -> i
    [] c = "\\" /\ delimiter # "'" -> GetWord(s, i + 2, delimiter, nest)
    [] nest > 0 /\ c = "(" -> GetWord(s, i + 1, delimiter, nest + 1)
    [] nest > 0 /\ c = ")" -> GetWord(s, i + 1, IF nest = 1 THEN Nul ELSE delimiter, nest - 1)
    [] nest = 0 /\ c = delimiter /\ c # Nul -> GetWord(s, i + 1, Nul, 0)
    [] opens -> GetWord(s, i + 2, ")", 1)
    [] ~opens /\ delimiter = Nul /\ c \in Delimiters -> i
    [] OTHER -> GetWord(s, i + 1, IF delimiter = Nul /\ c \in Quotes THEN c ELSE delimiter, nest)

\* A separator, or a redirection with its descriptor.
OperatorEnd(s, i) ==
  LET c == Ch(s, i)
      peek == Ch(s, i + 1)
      end == DigitsEnd(s, i + 2)
  IN  CASE peek = c -> IF c = "<" /\ Ch(s, i + 2) \in {"-", "<"} THEN i + 3 ELSE i + 2
        [] peek = "&" /\ c \in {"<", ">"} -> IF Ch(s, end) = "-" THEN end + 1 ELSE end
        [] (peek = ">" /\ c = "&") \/ (peek = "|" /\ c = ">") -> i + 2
        [] peek = "(" /\ c \in {"<", ">"} -> GetWord(s, i + 2, ")", 1)
        [] OTHER -> i + 1

\* history_tokenize_word.
WordEnd(s, i) ==
  LET j == DigitsEnd(s, i) IN
  CASE Ch(s, i) \in {"(", ")"} -> i + 1
    [] j > i /\ j = Len(s) -> j
    [] (j = i \/ Ch(s, j) \in {"<", ">"}) /\ Ch(s, j) \in Operators -> OperatorEnd(s, j)
    [] OTHER -> GetWord(s, j, Nul, 0)

\* history_tokenize_internal: where the words lie.
RECURSIVE PlacesTo(_, _, _)
PlacesTo(s, at, e) ==
  With(Until(s, e, LAMBDA j : Ch(s, j) # " "), LAMBDA b :
    IF b = Len(s) \/ Ch(s, b) = Comment THEN at
    ELSE With(Min({WordEnd(s, b), Len(s)}), LAMBDA end : PlacesTo(s, Append(at, <<b, end>>), end)))
Places(s) == PlacesTo(s, <<>>, 0)
Parts(s, at) == [k \in DOMAIN at |-> Part(s, at[k][1], at[k][2])]
Words(s) == Parts(s, Places(s))

\* history_find_word.
FindWord(s, i) ==
  With({w \in ToSet(Places(s)) : w[1] <= i /\ i < w[2]}, LAMBDA here :
    FlattenSeq([k \in 1 .. Cardinality(here) |-> LET w == CHOOSE v \in here : TRUE IN Part(s, w[1], w[2])]))

\* Mutated form: without the blanks.
RunTogether(ws) == FlattenSeq(ws)

\* Words with a blank between them.
Joined(ws) == FlattenSeq([k \in DOMAIN ws |-> IF k < Len(ws) THEN Append(ws[k], " ") ELSE ws[k]])

\* history_arg_extract: the words from first to end, or none.  -1 is the word
\* before the last.
ArgExtract(first, end, ws) ==
  LET n == Len(ws)
      right == IF end < 0 THEN n + end - 1 ELSE end
      to == 1 + IF right = Dollar THEN n - 1 ELSE right
      from == IF first = Dollar THEN n - 1 ELSE first
  IN  IF n = 0 \/ from >= n \/ to > n \/ from < 0 \/ to < 0 \/ from > to THEN {}
      ELSE {Joined(SubSeq(ws, from + 1, to))}

-----------------------------------------------------------------------------
(* Events *)

\* Where string lies in line; history_search finds the last place in a line.
Occurrences(string, line) ==
  {j \in 0 .. Len(line) - Len(string) : Part(line, j, j + Len(string)) = string}
Matching(lines, string, anywhere) ==
  IF string = <<>> THEN {}
  ELSE {n \in DOMAIN lines : IF anywhere THEN Occurrences(string, lines[n]) # {}
                                         ELSE 0 \in Occurrences(string, lines[n])}

\* Where the string of an event ends: ? and the line's end for one that may lie
\* anywhere, else also blanks, colons, a quote and what begins a word designator.
StringEnd(s, k, anywhere, quote) ==
  Until(s, k, LAMBDA j : IF anywhere THEN Ch(s, j) = "?"
                         ELSE \/ Ch(s, j) \in {" ", ":", "^", "$", "*", "%", quote}
                              \/ Ch(s, j) = "-" /\ j > k)

\* get_history_event: the line, none if there is none; where the event ends;
\* and what is remembered.
Got(line, at, m) == [line |-> line, at |-> at, memory |-> m]
Entry(lines, n) == {lines[k] : k \in {n} \cap DOMAIN lines}
SearchEvent(s, k, end, anywhere, lines, m) ==
  LET given == Part(s, k, end)
      string == IF given = <<>> /\ anywhere THEN m.search ELSE given
      at == IF anywhere /\ Ch(s, end) = "?" THEN end + 1 ELSE end
      remembered(line) ==
        IF ~anywhere THEN m
        ELSE [m EXCEPT !.search = string, !.match = FindWord(line, Max(Occurrences(string, line)))]
  IN  With(Matching(lines, string, anywhere), LAMBDA found :
        IF found = {} THEN Got({}, at, m) ELSE Got({lines[Max(found)]}, at, remembered(lines[Max(found)])))
HistoryEvent(s, i, quote, lines, m) ==
  LET back == Ch(s, i + 1) = "-" /\ Ch(s, i + 2) \in DOMAIN Digit
      d == IF back THEN i + 2 ELSE i + 1
      n == Number(s, d, DigitsEnd(s, d))
      anywhere == Ch(s, i + 1) = "?"
      k == IF anywhere THEN i + 2 ELSE i + 1
  IN  IF Ch(s, i + 1) = "!" THEN Got(Entry(lines, Len(lines)), i + 2, m)
      ELSE IF Ch(s, d) \in DOMAIN Digit
        THEN Got(Entry(lines, IF back THEN Len(lines) + 1 - n ELSE n), DigitsEnd(s, d), m)
      ELSE SearchEvent(s, k, StringEnd(s, k, anywhere, quote), anywhere, lines, m)

-----------------------------------------------------------------------------
(* Word designators: get_history_word_specifier *)

NoSpec(i) == [kind |-> "none", text |-> <<>>, at |-> i]
Chosen(text, i) == [kind |-> "text", text |-> text, at |-> i]
BadSpec(i) == [kind |-> "error", text |-> <<>>, at |-> i]

LastSpec(s, i, first) ==
  CASE Ch(s, i) = "^" -> <<1, i + 1>>
    [] Ch(s, i) = "*" -> <<Dollar, i + 1>>
    [] Ch(s, i) # "-" -> <<first, i>>
    [] Ch(s, i + 1) \in DOMAIN Digit ->
         <<Number(s, i + 1, DigitsEnd(s, i + 1)), DigitsEnd(s, i + 1)>>
    [] Ch(s, i + 1) = "$" -> <<Dollar, i + 2>>
    [] Ch(s, i + 1) = "^" -> <<1, i + 2>>
    [] OTHER -> <<-1, i + 1>>
OneOf(texts, i) == IF texts = {} THEN BadSpec(i) ELSE Chosen(CHOOSE t \in texts : TRUE, i)
Extent(first, end, ws) ==
  OneOf(IF end[1] >= first \/ end[1] < 0 THEN ArgExtract(first, end[1], ws) ELSE {}, end[2])
FirstSpec(s, i, expected) ==
  CASE Ch(s, i) = "-" -> <<0, i>>
    [] Ch(s, i) = "^" -> <<1, i + 1>>
    [] Ch(s, i) \in DOMAIN Digit /\ expected -> <<Number(s, i, DigitsEnd(s, i)), DigitsEnd(s, i)>>
    [] OTHER -> <<-1, i>>
SpecIn(s, i, k, ws, m) ==
  With(FirstSpec(s, k, k > i), LAMBDA first :
    CASE Ch(s, k) = "%" -> Chosen(m.match, k + 1)
      [] Ch(s, k) = "*" -> Chosen(FlattenSeq(SetToSeq(ArgExtract(1, Dollar, ws))), k + 1)
      [] Ch(s, k) = "$" -> IF ws = <<>> THEN NoSpec(k + 1) ELSE Chosen(Last(ws), k + 1)
      [] Ch(s, k) \notin {"%", "*", "$"} ->
           IF first[1] = -1 THEN NoSpec(i) ELSE Extent(first[1], LastSpec(s, first[2], first[1]), ws))
WordSpec(s, i, line, m) == SpecIn(s, i, IF Ch(s, i) = ":" THEN i + 1 ELSE i, Words(line), m)

-----------------------------------------------------------------------------
(* Modifiers.  st is how far the loop of history_expand_internal has come. *)

\* get_subst_pattern: up to the delimiter, which a backslash may quote.
RECURSIVE PatternEnd(_, _, _)
PatternEnd(s, i, delimiter) ==
  CASE Ch(s, i) \in {Nul, delimiter} -> Min({i, Len(s)})
    [] Ch(s, i) = "\\" /\ Ch(s, i + 1) = delimiter -> PatternEnd(s, i + 2, delimiter)
    [] OTHER -> PatternEnd(s, i + 1, delimiter)
Unquoted(t, delimiter) ==
  FlattenSeq([k \in DOMAIN t |->
    IF t[k] = "\\" /\ k < Len(t) /\ t[k + 1] = delimiter THEN <<>> ELSE <<t[k]>>])
Pattern(s, i, delimiter) == Unquoted(Part(s, i, PatternEnd(s, i, delimiter)), delimiter)
Behind(s, i, delimiter) == Min({PatternEnd(s, i, delimiter) + 1, Len(s)})

\* postproc_subst_rhs: & stands for the text to be replaced.
WithLhs(rhs, lhs) ==
  FlattenSeq([k \in DOMAIN rhs |->
    CASE rhs[k] = "&" /\ (k = 1 \/ rhs[k - 1] # "\\") -> lhs
      [] rhs[k] = "\\" /\ k < Len(rhs) /\ rhs[k + 1] = "&" -> <<>>
      [] OTHER -> <<rhs[k]>>])

\* :s reads its two strings; an empty first one is the one before, or else the
\* string searched for.  (Without either, an & in the second is copied from a null
\* pointer.)
Remember(m, lhs, rhs) == [m EXCEPT !.lhs = lhs, !.rhs = WithLhs(rhs, lhs)]
Lhs(given, m) == IF given # <<>> THEN given ELSE IF m.lhs # <<>> THEN m.lhs ELSE m.search
Patterns(s, i, m) ==
  With(Behind(s, i + 1, Ch(s, i)), LAMBDA middle :
    [memory |-> Remember(m, Lhs(Pattern(s, i + 1, Ch(s, i)), m), Pattern(s, middle, Ch(s, i))),
     at |-> Behind(s, middle, Ch(s, i))])

\* Mutated form: every other match of one character is skipped.
OnePast(b, rhs) == b + Len(rhs) + 1

\* The place the search for the next occurrence begins at.
Past(b, rhs) == b + Len(rhs)

\* The loop that replaces lhs by rhs in t from si on: every one, the first one of
\* each word, or the first one.  we is the end of the last word looked at.
LiesAt(t, b, string) == b + Len(string) <= Len(t) /\ Part(t, b, b + Len(string)) = string
RECURSIVE Replace(_, _, _, _, _, _)
ReplaceFrom(t, b, e, lhs, rhs, how) ==
  LET new == Part(t, 0, b) \o rhs \o Part(t, b + Len(lhs), Len(t))
  IN  IF ~LiesAt(t, b, lhs) THEN Replace(t, b + 1, e, lhs, rhs, how)
      ELSE IF ~how.all /\ ~how.words THEN [text |-> new, failed |-> FALSE]
      ELSE [Replace(new, IF how.all THEN Past(b, rhs) ELSE e + 1, e, lhs, rhs, how) EXCEPT !.failed = FALSE]
Replace(t, si, we, lhs, rhs, how) ==
  IF si + Len(lhs) > Len(t) THEN [text |-> t, failed |-> TRUE]
  ELSE IF ~how.words \/ si <= we THEN ReplaceFrom(t, si, we, lhs, rhs, how)
  ELSE With(Until(t, si, LAMBDA j : Ch(t, j) # " "), LAMBDA b : ReplaceFrom(t, b, WordEnd(t, b), lhs, rhs, how))

Fails(st, kind) == [st EXCEPT !.error = kind]
SubstitutedBy(st, r) ==
  CASE st.memory.lhs = <<>> -> Fails(st, "no previous substitution")
    [] st.memory.lhs # <<>> /\ r.failed -> Fails(st, "substitution failed")
    [] OTHER -> [st EXCEPT !.text = r.text, !.all = FALSE]
Substituted(st) ==
  SubstitutedBy(st, Replace(st.text, 0, 0, st.memory.lhs, st.memory.rhs, [all |-> st.all, words |-> st.words]))
Substitute(s, st) ==
  IF Ch(s, st.at + 1) = "s" /\ Ch(s, st.at + 2) = Nul THEN [st EXCEPT !.at = @ + 2]
  ELSE Substituted(IF Ch(s, st.at + 1) = "&" THEN [st EXCEPT !.at = @ + 2]
                   ELSE With(Patterns(s, st.at + 2, st.memory), LAMBDA p :
                          [st EXCEPT !.at = p.at, !.memory = p.memory]))

After(t, c) == IF Has(t, c) THEN Part(t, LastOf(t, c) + 1, Len(t)) ELSE t
Before(t, c) == IF Has(t, c) THEN Part(t, 0, LastOf(t, c)) ELSE t
Suffix(t) == IF Has(t, ".") THEN Part(t, LastOf(t, "."), Len(t)) ELSE t
Flagged(s, st) ==
  CASE Ch(s, st.at + 1) \in {"g", "a"} -> [st EXCEPT !.all = TRUE, !.at = @ + 1]
    [] Ch(s, st.at + 1) = "G" -> [st EXCEPT !.words = TRUE, !.at = @ + 1]
    [] OTHER -> st
Modified(s, st) ==
  LET c == Ch(s, st.at + 1)
      on == [st EXCEPT !.at = @ + 2]
  IN  CASE c \in {"q", "x"} -> [on EXCEPT !.quote = c]
        [] c = "p" -> [on EXCEPT !.show = TRUE]
        [] c = "t" -> [on EXCEPT !.text = After(@, "/")]
        [] c = "h" -> [on EXCEPT !.text = Before(@, "/")]
        [] c = "r" -> [on EXCEPT !.text = Before(@, ".")]
        [] c = "e" -> [on EXCEPT !.text = Suffix(@)]
        [] c \in {"s", "&"} -> Substitute(s, st)
        [] OTHER -> Fails(st, "unrecognized history modifier")
RECURSIVE Modify(_, _)
Modify(s, st) ==
  IF Ch(s, st.at) # ":" \/ st.error # "none" THEN st ELSE Modify(s, Modified(s, Flagged(s, st)))

\* sh_single_quote and quote_breaks.
Quoted(t, breaks) ==
  LET put(c) == CASE c = "'" -> <<"'", "\\", "'", "'">>
                  [] c = " " /\ breaks -> <<"'", " ", "'">>
                  [] OTHER -> <<c>>
  IN  <<"'">> \o FlattenSeq([k \in DOMAIN t |-> put(t[k])]) \o <<"'">>

\* history_expand_internal, from the expansion character at i.
Start(at, text, m) ==
  [at |-> at, text |-> text, memory |-> m, all |-> FALSE, words |-> FALSE, quote |-> Nul,
   show |-> FALSE, error |-> "none"]
EventAt(s, i, quote, m, current) ==
  CASE Ch(s, i + 1) \in {":", "$", "*", "%", "^"} -> Got(Entry(history, Len(history)), i + 1, m)
    [] Ch(s, i + 1) = "#" -> Got({current}, i + 2, m)
    [] OTHER -> HistoryEvent(s, i, quote, history, m)
SelectedFrom(s, event, line) ==
  With(WordSpec(s, event.at, line, event.memory), LAMBDA spec :
    IF spec.kind = "error" THEN Fails(Start(spec.at, <<>>, event.memory), "bad word specifier")
    ELSE Modify(s, Start(spec.at, IF spec.kind = "none" THEN line ELSE spec.text, event.memory)))
Internal(s, i, quote, m, current) ==
  With(EventAt(s, i, quote, m, current), LAMBDA event :
    IF event.line = {} THEN Fails(Start(i, <<>>, event.memory), "event not found")
    ELSE With(SelectedFrom(s, event, CHOOSE l \in event.line : TRUE), LAMBDA end :
           [end EXCEPT !.text = IF end.quote = Nul THEN @ ELSE Quoted(@, end.quote = "x")]))

-----------------------------------------------------------------------------
(* The line: history_expand *)

\* history_no_expand_chars, of those the terminal can send in a line.
NoExpand == {" ", "=", Nul}

\* An expansion begins at i, inside double quotes or not.
Expands(s, i, dquote) ==
  Ch(s, i) = "!" /\ Ch(s, i + 1) \notin NoExpand /\ ~(dquote /\ Ch(s, i + 1) = "\"")
Commented(s, i) == Ch(s, i) = Comment /\ (i = 0 \/ Ch(s, i - 1) \in Delimiters)

\* hist_string_extract_single_quoted, after the quote at i.  In $'...' a backslash
\* hides the next character.
RECURSIVE QuoteEnd(_, _, _)
QuoteEnd(s, i, ansi) ==
  CASE Ch(s, i) \in {Nul, "'"} -> i
    [] ansi /\ Ch(s, i) = "\\" /\ Ch(s, i + 1) # Nul -> QuoteEnd(s, i + 2, ansi)
    [] OTHER -> QuoteEnd(s, i + 1, ansi)
SingleEnd(s, i) == QuoteEnd(s, i + 1, Ch(s, i - 1) = "$")

\* Mutated form: a double quote begins a quoted text, but does not end it.
Entered(dquote) == TRUE

\* A double quote.
Crossed(dquote) == ~dquote

\* The first scan: is there an expansion from i on?  A quoted string that is not
\* closed is read beyond its end.
RECURSIVE Found(_, _, _)
Found(s, i, dquote) ==
  LET c == Ch(s, i)
      next == Ch(s, i + 1)
  IN  IF i >= Len(s) \/ (~dquote /\ Commented(s, i)) THEN FALSE
      ELSE IF c = "!" THEN Expands(s, i, dquote) \/ Found(s, i + 1, dquote)
      ELSE IF c = "\\" /\ ((dquote /\ next = "\"") \/ (session.inhibit /\ next \in {"'", "!"}))
        THEN Found(s, i + 2, dquote)
      ELSE IF session.inhibit /\ c = "\"" THEN Found(s, i + 1, Crossed(dquote))
      ELSE IF session.inhibit /\ c = "'" /\ ~dquote THEN Found(s, SingleEnd(s, i) + 1, dquote)
      ELSE Found(s, i + 1, dquote)

\* The second scan copies the line from i on and expands.
RECURSIVE Copy(_, _, _)
Copy(s, i, st) ==
  LET c == Ch(s, i)
      put(st1, n) == Copy(s, i + n, [st1 EXCEPT !.out = @ \o Part(s, i, Min({i + n, Len(s)}))])
      quote == CASE st.squote -> "'" [] ~st.squote /\ st.dquote -> "\"" [] OTHER -> Nul
  IN  IF i >= Len(s) \/ st.error # "none" THEN st
      ELSE IF c = "!" /\ Expands(s, i, st.dquote)
        THEN With(Internal(s, i, quote, st.memory, st.out), LAMBDA e :
               Copy(s, e.at, [st EXCEPT !.out = @ \o e.text, !.memory = e.memory, !.modified = TRUE,
                                        !.show = @ \/ e.show, !.error = e.error]))
      ELSE IF Commented(s, i) /\ ~(st.dquote /\ session.inhibit) THEN put(st, Len(s) - i)
      ELSE IF c = "\\" THEN put(st, 2)
      ELSE IF c = "\"" THEN put([st EXCEPT !.dquote = ~@], 1)
      ELSE IF c = "'" /\ st.squote THEN put([st EXCEPT !.squote = FALSE], 1)
      ELSE IF c = "'" /\ ~st.dquote /\ session.inhibit THEN put(st, SingleEnd(s, i) + 1 - i)
      ELSE IF c = "'" /\ ~st.dquote THEN put([st EXCEPT !.squote = TRUE], 1)
      ELSE put(st, 1)
Copied(s, m) ==
  Copy(s, 0, [out |-> <<>>, dquote |-> FALSE, squote |-> FALSE, memory |-> m,
              modified |-> FALSE, show |-> FALSE, error |-> "none"])

\* history_expand: the text, what it returns, and why it failed.
Quick(s) == Ch(s, 0) = "^"
Result(r, text, m, error) == [r |-> r, text |-> text, memory |-> m, error |-> error]
Expand(s) ==
  IF ~Quick(s) /\ ~Found(s, 0, FALSE) THEN Result(0, s, memory, "none")
  ELSE With(Copied(IF Quick(s) THEN <<"!", "!", ":", "s">> \o s ELSE s, memory), LAMBDA st :
         IF st.error # "none" THEN Result(-1, <<>>, st.memory, st.error)
         ELSE Result(IF st.show THEN 2 ELSE IF st.modified THEN 1 ELSE 0, st.out, st.memory, "none"))

-----------------------------------------------------------------------------
(* What is typed.  A request is a sequence of items: text, or an expansion *)
(* with an event, a word designator and modifiers, which may be hidden by  *)
(* a backslash or single quotes.  The text of a raw one is any text.       *)

Num(n) == CHOOSE d \in DOMAIN Digit : Digit[d] = n
EventText(e) ==
  CASE e.kind = "previous" -> <<"!", "!">>
    [] e.kind = "implied" -> <<"!">>
    [] e.kind = "number" -> <<"!", Num(e.n)>>
    [] e.kind = "back" -> <<"!", "-", Num(e.n)>>
    [] e.kind = "prefix" -> <<"!">> \o e.string
    [] e.kind = "inside" -> <<"!", "?">> \o e.string \o <<"?">>
    [] e.kind = "so far" -> <<"!", "#">>
WordText(w) ==
  CASE w.kind = "whole" -> <<>>
    [] w.kind = "nth" -> <<":", Num(w.n)>>
    [] w.kind = "first" -> <<"^">>
    [] w.kind = "last" -> <<"$">>
    [] w.kind = "match" -> <<"%">>
    [] w.kind = "all" -> <<"*">>
    [] w.kind = "range" -> <<":", Num(w.n), "-", Num(w.to)>>
    [] w.kind = "from" -> <<":", Num(w.n), "*">>
    [] w.kind = "but last" -> <<":", Num(w.n), "-">>
LhsMark == "lhs"   \* in the second string of :s, the first one
Escaped(t, delimiter) ==
  FlattenSeq([k \in DOMAIN t |-> CASE t[k] = LhsMark -> <<"&">>
                                   [] t[k] \in {delimiter, "&"} -> <<"\\", t[k]>>
                                   [] OTHER -> <<t[k]>>])
Slashed(t, delimiter) ==
  FlattenSeq([k \in DOMAIN t |-> IF t[k] = delimiter THEN <<"\\", t[k]>> ELSE <<t[k]>>])
SubstText(m, delimiter) ==
  <<delimiter>> \o Slashed(m.lhs, delimiter) \o <<delimiter>> \o Escaped(m.rhs, delimiter) \o <<delimiter>>
ModText(m) ==
  CASE m.kind = "substitute" -> <<":">> \o m.flag \o <<"s">> \o SubstText(m, "/")
    [] m.kind = "again" -> <<":">> \o m.flag \o <<"&">>
    [] OTHER -> <<":", m.kind>>
ExpansionText(x) ==
  IF x.event.kind = "quick" THEN SubstText(x.mods[1], "^")
  ELSE EventText(x.event) \o WordText(x.word) \o FlattenSeq([k \in DOMAIN x.mods |-> ModText(x.mods[k])])
ItemText(item) ==
  CASE item.kind \in {"text", "raw"} -> item.chars
    [] item.kind = "expansion" -> ExpansionText(item)
    [] item.kind = "escaped" -> <<"\\">> \o ExpansionText(item)
    [] item.kind = "single" -> <<"'">> \o ExpansionText(item) \o <<"'">>
Unparse(x) == FlattenSeq([k \in DOMAIN x |-> ItemText(x[k])])

-----------------------------------------------------------------------------
(* The session: histexamp.c *)

ExpandInit ==
  \E of \in Sessions :
    /\ session = [name |-> of[1], inhibit |-> of[2], typed |-> 0]
    /\ history \in Histories(of[1])
    /\ memory = [search |-> <<>>, match |-> <<>>, lhs |-> <<>>, rhs |-> <<>>]
    /\ answer = [request |-> <<>>, result |-> Result(0, <<>>, memory, "none")]

\* What was expanded becomes an entry, unless it failed or is only to be shown.
Typed(x) ==
  \E result \in {Expand(Unparse(x))} :
    /\ answer' = [request |-> x, result |-> result]
    /\ memory' = result.memory
    /\ history' = IF result.r \in {0, 1} THEN Append(history, result.text) ELSE history
    /\ session' = [session EXCEPT !.typed = @ + 1]
ExpandNext == \E x \in Requests(session.name, session.typed + 1) : Typed(x)

ExpandSpec == ExpandInit /\ [][ExpandNext]_expandVars

-----------------------------------------------------------------------------
(* What a request means, without its text *)

\* The words of a line: what lies between blanks outside double quotes; a
\* semicolon is a word.
Outside(s, i) == Cardinality({j \in 0 .. i - 1 : Ch(s, j) = "\""}) % 2 = 0
Alone(s, i) == Ch(s, i) = ";" /\ Outside(s, i)
Between(s, i) == i \in {-1, Len(s)} \/ Alone(s, i) \/ (Ch(s, i) = " " /\ Outside(s, i))
LiesBetween(s, between) ==
  {<<i, i + 1>> : i \in {j \in between : Alone(s, j)}}
    \cup {<<w[1] + 1, w[2]>> : w \in {v \in between \X between :
             v[1] + 1 < v[2] /\ \A i \in v[1] + 1 .. v[2] - 1 : i \notin between}}
Lies(s) == LiesBetween(s, {i \in -1 .. Len(s) : Between(s, i)})
Split(s) == Parts(s, SetToSortSeq(Lies(s), LAMBDA v, w : v[1] < w[1]))
WordAt(s, i) == FlattenSeq(SetToSeq({Part(s, w[1], w[2]) : w \in {v \in Lies(s) : v[1] <= i /\ i < v[2]}}))

LastIn(line, string) == Max({j \in 0 .. Len(line) : LiesAt(line, j, string)})
MeantSearch(anywhere, string, m) ==
  With({k \in DOMAIN history : string # <<>> /\ \E j \in 0 .. Len(history[k]) :
                                  LiesAt(history[k], j, string) /\ (anywhere \/ j = 0)}, LAMBDA having :
    IF having = {} THEN [lines |-> {}, memory |-> m]
    ELSE With(history[Max(having)], LAMBDA line :
           [lines |-> {line},
            memory |-> IF ~anywhere THEN m
                       ELSE [m EXCEPT !.search = string, !.match = WordAt(line, LastIn(line, string))]]))
MeantEvent(e, m, sofar) ==
  LET n == Len(history) IN
  CASE e.kind \in {"previous", "implied", "quick"} -> [lines |-> Entry(history, n), memory |-> m]
    [] e.kind = "number" -> [lines |-> Entry(history, e.n), memory |-> m]
    [] e.kind = "back" -> [lines |-> Entry(history, n + 1 - e.n), memory |-> m]
    [] e.kind = "so far" -> [lines |-> {sofar}, memory |-> m]
    [] e.kind \in {"prefix", "inside"} ->
         MeantSearch(e.kind = "inside", IF e.kind = "inside" /\ e.string = <<>> THEN m.search ELSE e.string, m)

\* The words from .. to, counted from 0, if there are such.
Some(ws, from, to) ==
  IF from \in 0 .. Len(ws) - 1 /\ to \in from - 1 .. Len(ws) - 1 THEN {Joined(SubSeq(ws, from + 1, to + 1))} ELSE {}
MeantIn(w, line, ws, m) ==
  LET end == Len(ws) - 1
  IN  CASE w.kind = "whole" -> {line}
        [] w.kind = "nth" -> Some(ws, w.n, w.n)
        [] w.kind = "first" -> Some(ws, 1, 1)
        [] w.kind = "last" -> Some(ws, end, end)
        [] w.kind = "match" -> {m.match}
        [] w.kind = "all" -> {Joined(SubSeq(ws, 2, end + 1))}
        [] w.kind = "range" -> IF w.n <= w.to THEN Some(ws, w.n, w.to) ELSE {}
        [] w.kind = "from" -> Some(ws, w.n, end)
        [] w.kind = "but last" -> Some(ws, w.n, end - 1)
MeantWord(w, line, m) == MeantIn(w, line, Split(line), m)

\* The places where lhs is replaced: the first, all from the left on that do not
\* overlap, or the first in each word.
Apart(at, lhs) ==
  CHOOSE all \in SUBSET at : \A j \in at : j \in all <=> \A k \in all : k < j => k + Len(lhs) <= j
FirstOf(at, w, lhs) ==
  LET inside == {j \in at : w[1] <= j /\ j + Len(lhs) <= w[2]} IN IF inside = {} THEN {} ELSE {Min(inside)}
Replaced(t, at, lhs, flag) ==
  CASE flag = <<>> -> {Min(at)}
    [] flag = <<"g">> -> Apart(at, lhs)
    [] flag = <<"G">> -> UNION {FirstOf(at, w, lhs) : w \in Lies(t)}
ReplacedBy(t, at, lhs, rhs) ==
  FlattenSeq([k \in DOMAIN t |->
    IF k - 1 \in at THEN rhs
    ELSE IF \E j \in at : j < k /\ k <= j + Len(lhs) THEN <<>> ELSE <<t[k]>>])
Put(lhs, rhs) == FlattenSeq([k \in DOMAIN rhs |-> IF rhs[k] = LhsMark THEN lhs ELSE <<rhs[k]>>])

\* :G, with which the manual has s done once in each word, does so only when both
\* strings have one length and the first word does not begin with the first one.
\* Else the code goes on from where the word ended before it was changed, and for
\* the first word from its second character, so that it passes over words or
\* replaces twice in one, in what it has just put there too: only the line before
\* the first place replaced is sure, with one character put there, and loose says so.
Loosely(at, flag, m) == flag = <<"G">> /\ (Len(m.rhs) # Len(m.lhs) \/ 0 \in at)
MeantText(text, m, loose) == [text |-> text, memory |-> m, show |-> FALSE, loose |-> loose, error |-> "none"]
SubstMeant(t, at, flag, m) ==
  IF Loosely(at, flag, m) THEN MeantText(Part(t, 0, Min(at)) \o Part(m.rhs, 0, Min({1, Len(m.rhs)})), m, TRUE)
  ELSE MeantText(ReplacedBy(t, Replaced(t, at, m.lhs, flag), m.lhs, m.rhs), m, FALSE)
MeantSubst(t, flag, m) ==
  With({j \in 0 .. Len(t) : LiesAt(t, j, m.lhs)}, LAMBDA at :
    IF m.lhs # <<>> /\ at # {} THEN SubstMeant(t, at, flag, m)
    ELSE [MeantText(t, m, FALSE) EXCEPT
            !.error = IF m.lhs = <<>> THEN "no previous substitution" ELSE "substitution failed"])

\* What lies before the last c, behind it, or from it on.
LastCut(t, c, kind) ==
  LET cut == {k \in DOMAIN t : t[k] = c} IN
  CASE cut = {} -> t
    [] cut # {} /\ kind \in {"h", "r"} -> SubSeq(t, 1, Max(cut) - 1)
    [] cut # {} /\ kind = "t" -> SubSeq(t, Max(cut) + 1, Len(t))
    [] cut # {} /\ kind = "e" -> SubSeq(t, Max(cut), Len(t))
MeantMod(mod, t, m) ==
  CASE mod.kind = "again" -> MeantSubst(t, mod.flag, m)
    [] mod.kind = "substitute" ->
         MeantSubst(t, mod.flag, [m EXCEPT !.lhs = Lhs(mod.lhs, m), !.rhs = Put(Lhs(mod.lhs, m), mod.rhs)])
    [] mod.kind = "p" -> [MeantText(t, m, FALSE) EXCEPT !.show = TRUE]
    [] OTHER -> MeantText(LastCut(t, IF mod.kind \in {"h", "t"} THEN "/" ELSE ".", mod.kind), m, FALSE)

\* Modifiers apply one after the other, until one fails.  (:G is the last one of
\* its request.)
Failed(m, kind) == [MeantText(<<>>, m, FALSE) EXCEPT !.error = kind]
MeantMods(text, mods, m) ==
  FoldLeft(LAMBDA st, mod : IF st.error # "none" THEN st
                            ELSE [MeantMod(mod, st.text, st.memory) EXCEPT !.show = @ \/ st.show],
           MeantText(text, m, FALSE), mods)
MeantExpansion(x, m, sofar) ==
  With(MeantEvent(x.event, m, sofar), LAMBDA event :
    IF event.lines = {} THEN Failed(event.memory, "event not found")
    ELSE With(UNION {MeantWord(x.word, line, event.memory) : line \in event.lines}, LAMBDA chosen :
           IF chosen = {} THEN Failed(event.memory, "bad word specifier")
           ELSE MeantMods(CHOOSE t \in chosen : TRUE, x.mods, event.memory)))

\* What the k-th item adds to the line, and whether it is expanded: one in single
\* quotes unless they are to inhibit it and stand outside double quotes.
InDoubleQuotes(x, k) ==
  FoldLeft(LAMBDA n, item : n + IF item.kind = "text" THEN Cardinality({i \in DOMAIN item.chars : item.chars[i] = "\""}) ELSE 0,
           0, SubSeq(x, 1, k - 1)) % 2 = 1
IsExpanded(x, k) ==
  \/ x[k].kind = "expansion"
  \/ x[k].kind = "single" /\ (~session.inhibit \/ InDoubleQuotes(x, k))
MeantItem(st, x, k) ==
  LET quote == IF x[k].kind = "single" THEN <<"'">> ELSE <<>>
  IN  IF st.error # "none" THEN st
      ELSE IF ~IsExpanded(x, k) THEN [st EXCEPT !.text = IF st.loose THEN @ ELSE @ \o ItemText(x[k])]
      ELSE With(MeantExpansion(x[k], st.memory, st.text \o quote), LAMBDA e :
             [text |-> CASE st.loose -> st.text
                         [] ~st.loose /\ e.loose -> st.text \o quote \o e.text
                         [] OTHER -> st.text \o quote \o e.text \o quote,
              memory |-> e.memory, show |-> st.show \/ e.show, loose |-> st.loose \/ e.loose,
              error |-> e.error])
ResultMeant(x, st) ==
  IF st.error # "none" THEN Result(-1, <<>>, st.memory, st.error)
  ELSE Result(IF st.show THEN 2 ELSE IF \E k \in DOMAIN x : IsExpanded(x, k) THEN 1 ELSE 0,
              st.text, st.memory, "none")
Meaning(x) ==
  With(FoldLeft(LAMBDA st, k : MeantItem(st, x, k), MeantText(<<>>, memory, FALSE), [k \in DOMAIN x |-> k]), LAMBDA st :
    [result |-> ResultMeant(x, st), loose |-> st.loose /\ st.error = "none"])

\* A loose meaning gives the beginning of the text.
MeansIt(result, meaning) ==
  \/ result = meaning.result
  \/ /\ meaning.loose /\ IsPrefix(meaning.result.text, result.text)
     /\ result = [meaning.result EXCEPT !.text = result.text]

-----------------------------------------------------------------------------
(* Properties *)

\* A line is expanded to what was asked: to the words of the event that the
\* designators choose, changed by the modifiers one after the other, with all
\* that stands around the expansions kept; what earlier lines searched for and
\* substituted is taken up; and a line that asks for nothing fails for the right
\* reason and is not added to the history (history_expand).  Of :G it claims what
\* the manual says only where the code does it; else (Loosely) no more than that the
\* line is right up to the first place replaced, and the memory and the failure.
IsRaw(x) == \E k \in DOMAIN x : x[k].kind = "raw"
ExpansionMeans ==
  [][IsRaw(answer'.request) \/
       (/\ MeansIt(answer'.result, Meaning(answer'.request))
        /\ history' = history \o IF answer'.result.r \in {0, 1} THEN <<answer'.result.text>> ELSE <<>>)]_expandVars

\* Where the first scan of a line finds nothing to expand, the second would find
\* nothing either: the two follow the same rules for quotes, comments and what
\* may stand behind the !.  With quotes that inhibit expansion they differ over a
\* backslash before a backslash or a double quote, which only the second passes.
ScanPassesOver(line) ==
  session.inhibit /\ \E i \in 0 .. Len(line) : Ch(line, i) = "\\" /\ Ch(line, i + 1) \in {"\\", "\""}
ScansAgree ==
  [][With(Unparse(answer'.request), LAMBDA line :
       \/ Quick(line) \/ Found(line, 0, FALSE) \/ ScanPassesOver(line)
       \/ With(Copied(line, memory), LAMBDA st : ~st.modified /\ st.out = line))]_expandVars

\* The words of a line lie in it one after the other with nothing but blanks
\* between them, up to a comment; and joined by blanks, as words taken from the
\* history are, they are the same words again (history_tokenize).
WordsKeptIn(s, at) ==
  LET end(k) == IF k = 0 THEN 0 ELSE at[k][2]
  IN  /\ \A k \in DOMAIN at : /\ end(k - 1) <= at[k][1] /\ at[k][1] < at[k][2]
                             /\ ToSet(Part(s, end(k - 1), at[k][1])) \subseteq {" "}
      /\ Ch(s, Until(s, end(Len(at)), LAMBDA j : Ch(s, j) # " ")) \in {Nul, Comment}
      /\ Words(Joined(Parts(s, at))) = Parts(s, at)
WordsKept == \A n \in DOMAIN history : WordsKeptIn(history[n], Places(history[n]))
=============================================================================
