----------------------------- MODULE Completion -----------------------------
(***************************************************************************)
(* Readline's completion of file names (complete.c): the word before point *)
(* is found, the directory is read entry by entry, the common beginning of *)
(* the matches replaces the word, the matches are listed, or each of them  *)
(* is offered in turn (menu-complete).  The program installs no completion *)
(* function, no quote characters and no hooks; names have no ~, quotes or  *)
(* word break characters in them.                                          *)
(***************************************************************************)
EXTENDS Integers, FiniteSets, SequencesExt

CONSTANTS
  Trees,      \* what the directories hold: directory -> name -> kind
  Lines,      \* [line, point]: what the user has typed
  Settings,   \* the variables of the init file
  Breaks,     \* rl_completer_word_break_characters
  Quotes,     \* rl_basic_quote_characters
  Rank,       \* the collating order of the characters
  Lower,      \* _rl_to_lower
  Columns, Height,  \* of the screen
  MaxLine     \* bound on the length of a line that is completed

VARIABLES
  tree,
  set,        \* the settings
  text,       \* [line, point]
  last,       \* rl_last_func
  changed,    \* completion_changed_buffer
  failed,     \* last_completion_failed
  resized,    \* _rl_caught_signal: a SIGWINCH is pending
  work,       \* the completion at work: its word and what was read so far
  menu,       \* the matches of menu-complete and old-menu-complete
  list,       \* the list of matches being shown
  phase       \* "key", "reading", "query", "listing" or "more"

completionVars == <<tree, set, text, last, changed, failed, resized, work, menu, list, phase>>

Char == DOMAIN Rank
Names == Seq(Char \ {"/"}) \ {<<>>}

\* A directory has finitely many names, none of them empty or with a slash in it.
\* No two characters collate alike, and only . is folded to ., only / to /.
ASSUME CompletionAssumption ==
  /\ Columns \in Nat /\ Height \in Nat \ {0, 1} /\ MaxLine \in Nat
  /\ {" ", ".", "/"} \cup Quotes \subseteq Char
  /\ Rank \in [Char -> Int] /\ \A c, d \in Char : Rank[c] = Rank[d] => c = d
  /\ Lower \in [Char -> Char] /\ \A c \in Char, d \in {".", "/"} : Lower[c] = Lower[d] => c = d
  /\ \A t \in Trees : \A d \in DOMAIN t :
       d \in Seq(Char) /\ IsFiniteSet(DOMAIN t[d]) /\ DOMAIN t[d] \subseteq Names
  /\ Lines \subseteq [line : Seq(Char), point : Nat] /\ \A t \in Lines : t.point <= Len(t.line)
  /\ \A s \in Settings : s.query \in Int

-----------------------------------------------------------------------------
(* Words, names and matches *)

Starts(s, t) == Len(s) <= Len(t) /\ SubSeq(t, 1, Len(s)) = s
Fold(s) == [i \in 1 .. Len(s) |-> IF set.fold THEN Lower[s[i]] ELSE s[i]]
LastIn(s, S) == CHOOSE i \in 0 .. Len(s) :
                  (i = 0 \/ s[i] \in S) /\ \A j \in i + 1 .. Len(s) : s[j] \notin S

\* _rl_find_completion_word: the word begins behind the last word break.
WordStart(t) == LastIn(SubSeq(t.line, 1, t.point), Breaks)
Delimiter(t) ==
  LET s == WordStart(t)
  IN  IF s > 0 /\ s < t.point /\ t.line[s] \in Quotes THEN <<t.line[s]>> ELSE <<>>

\* rl_filename_completion_function splits the word at its last slash.
DirOf(word) == SubSeq(word, 1, LastIn(word, {"/"}))
FileOf(word) == SubSeq(word, LastIn(word, {"/"}) + 1, Len(word))

\* An entry is a match if it begins with the file name (complete_fncmp); without
\* a file name every entry is but . and .., and hidden ones when they are off.
IsMatch(name, file) ==
  IF file = <<>> THEN name \notin {<<".">>, <<".", ".">>} /\ (set.hidden \/ name[1] # ".")
  ELSE Starts(Fold(file), Fold(name))

Candidates(word) ==
  IF DirOf(word) \notin DOMAIN tree THEN {}
  ELSE {DirOf(word) \o name : name \in {n \in DOMAIN tree[DirOf(word)] : IsMatch(n, FileOf(word))}}

KindOf(path) ==
  IF DirOf(path) \in DOMAIN tree /\ FileOf(path) \in DOMAIN tree[DirOf(path)]
    THEN tree[DirOf(path)][FileOf(path)] ELSE "none"

Before(a, b) ==
  \E n \in 0 .. Len(a) :
    /\ Starts(SubSeq(a, 1, n), b)
    /\ \/ n = Len(a) /\ n < Len(b)
       \/ n < Len(a) /\ n < Len(b) /\ Rank[a[n + 1]] < Rank[b[n + 1]]

\* remove_duplicate_matches leaves them sorted: the i-th has i - 1 before it.
Sorted(S) ==
  [i \in 1 .. Cardinality(S) |-> CHOOSE s \in S : Cardinality({t \in S : Before(t, s)}) = i - 1]

\* How far all of the matches are the same.
Common(S) ==
  CHOOSE n \in 0 .. Len(CHOOSE s \in S : TRUE) :
    /\ \A s, t \in S : Len(s) >= n /\ Fold(SubSeq(s, 1, n)) = Fold(SubSeq(t, 1, n))
    /\ \E s, t \in S : Len(s) = n \/ Fold(SubSeq(s, 1, n + 1)) # Fold(SubSeq(t, 1, n + 1))

\* Mutated form: the common beginning is taken from the first match whatever the
\* user typed, and one character too far.
CommonLong(S, word) ==
  LET first == Sorted(S)[1] IN SubSeq(first, 1, Common(S) + IF Len(first) > Common(S) THEN 1 ELSE 0)

\* compute_lcd_of_matches: with case folding, that of a match which begins as
\* the user typed it if there is one.
CommonBeginning(S, word) ==
  LET low == Common(S)
      typed == {s \in S : /\ Len(word) <= low => Starts(word, s)
                          /\ Len(word) > low => Starts(SubSeq(word, 1, low), s)}
  IN  IF low = 0 /\ word # <<>> THEN word
      ELSE SubSeq(Sorted(IF set.fold /\ typed # {} THEN typed ELSE S)[1], 1, low)

\* matches: matches[0] and the rest; a single match is matches[0] alone.
Matches(S, word) ==
  IF Cardinality(S) = 1 THEN <<CHOOSE s \in S : TRUE>>
  ELSE <<CommonBeginning(S, word)>> \o Sorted(S)

-----------------------------------------------------------------------------
(* The line *)

Splice(t, from, upto, new) ==
  [line |-> SubSeq(t.line, 1, from) \o new \o SubSeq(t.line, upto + 1, Len(t.line)),
   point |-> from + Len(new)]

\* insert_match, with skip-completed-text: what already follows is not inserted.
Agree(t, new, start) ==
  CHOOSE n \in 0 .. Len(new) :
    /\ Starts(SubSeq(new, 1, n), SubSeq(t.line, start + 1, Len(t.line)))
    /\ n = Len(new) \/ ~Starts(SubSeq(new, 1, n + 1), SubSeq(t.line, start + 1, Len(t.line)))
InsertMatch(t, new, start) ==
  LET n == IF set.skip THEN Agree(t, new, start) ELSE 0
      from == start + n
  IN  Splice(t, from, IF from < t.point THEN t.point ELSE from, SubSeq(new, n + 1, Len(new)))

Next1(t) == IF t.point < Len(t.line) THEN t.line[t.point + 1] ELSE "nul"

\* append_to_match: a slash behind a directory, the delimiter or a space at the
\* end of the line behind a file.
Append1(t, name, delim, nontrivial) ==
  LET kind == KindOf(name)
      dir == kind = "dir" \/ (kind = "link" /\ (set.marklinks \/ ~nontrivial))
      slashed == t.point > 0 /\ t.point = Len(t.line) /\ t.line[t.point] = "/"
  IN  IF dir THEN IF set.markdirs /\ ~slashed /\ Next1(t) # "/" THEN Splice(t, t.point, t.point, <<"/">>)
                  ELSE t
      ELSE IF kind = "link" \/ t.point # Len(t.line) THEN t
      ELSE Splice(t, t.point, t.point, IF delim # <<>> THEN delim ELSE <<" ">>)

\* insert_all_matches
InsertAll(t, matches, start) ==
  LET names == IF Len(matches) = 1 THEN matches ELSE Tail(matches)
  IN  Splice(t, start, t.point, FlattenSeq([i \in 1 .. Len(names) |-> Append(names[i], " ")]))

-----------------------------------------------------------------------------
(* The list of matches *)

Least(S) == CHOOSE x \in S : \A y \in S : x <= y
Greatest(S) == CHOOSE x \in S : \A y \in S : x >= y

\* printable_part: what follows the last slash that does not end the name.
Printable(name) == SubSeq(name, LastIn(Front(name), {"/"}) + 1, Len(name))

\* How many columns of matches there are, each two wider than the widest.
Limit(names) ==
  LET width == 2 + Greatest({Len(Printable(names[i])) : i \in DOMAIN names})
      fit == Columns \div width
  IN  IF fit = 0 THEN 1 ELSE IF fit # 1 /\ fit * width = Columns THEN fit - 1 ELSE fit

\* rl_display_match_list: the matches go down the columns, or across the rows;
\* a row has as many as there are, at most limit.
Rows(n, limit) ==
  LET count == (n + limit - 1) \div limit
      there(i) == IF set.across THEN n - (i - 1) * limit ELSE (n - i) \div count + 1
      Row(i) == [j \in 1 .. Least({limit, there(i)}) |->
                   IF set.across THEN (i - 1) * limit + j ELSE i + (j - 1) * count]
  IN  [i \in 1 .. count |-> Row(i)]

Nothing == [names |-> <<>>, rows |-> <<>>, printed |-> <<>>, lines |-> 0, since |-> 0]

\* display_matches: a single match is a row of its own, and the user is asked
\* when there are many.
Display(matches) ==
  LET names == IF Len(matches) = 1 THEN matches ELSE Tail(matches)
      many == Len(matches) > 1 /\ set.query > 0 /\ Len(names) >= set.query
  IN  /\ list' = [Nothing EXCEPT !.names = names,
                                 !.rows = IF Len(matches) = 1 THEN <<<<1>>>> ELSE Rows(Len(names), Limit(names))]
      /\ phase' = IF many THEN "query" ELSE "listing"

-----------------------------------------------------------------------------
(* The commands *)

NoWork == [what |-> "none", start |-> 0, word |-> <<>>, delim |-> <<>>, before |-> [line |-> <<>>, point |-> 0],
           unread |-> {}, found |-> {}, cut |-> FALSE, failed |-> FALSE, step |-> 0]
NoMenu == [matches |-> <<>>, index |-> 0, word |-> <<>>, start |-> 0, delim |-> <<>>, full |-> FALSE]

CompletionInit ==
  /\ tree \in Trees /\ set \in Settings /\ text \in Lines
  /\ last = "none" /\ changed = FALSE /\ failed = FALSE /\ resized = FALSE
  /\ work = NoWork /\ menu = NoMenu /\ list = Nothing /\ phase = "key"

\* Any other command: the user has typed another line.  What is left of the
\* completion is not read any more.
Other ==
  /\ phase = "key"
  /\ text' \in Lines /\ last' = "none"
  /\ work' = NoWork /\ menu' = NoMenu /\ list' = Nothing
  /\ UNCHANGED <<tree, set, changed, failed, resized, phase>>

\* The beginning of rl_complete_internal, and of the menu commands when they do
\* not go on with their matches: only then are those read again.
Begin(command, what, step) ==
  LET start == WordStart(text)
      word == SubSeq(text.line, start + 1, text.point)
  IN  /\ Len(text.line) <= MaxLine
      /\ last' = command
      /\ work' = [NoWork EXCEPT !.what = what, !.start = start, !.word = word, !.step = step,
                                !.delim = Delimiter(text), !.before = text, !.failed = failed,
                                !.unread = Candidates(word)]
      /\ phase' = "reading"
      /\ list' = Nothing /\ menu' = NoMenu
      /\ UNCHANGED <<tree, set, text, changed, failed, resized>>

\* rl_complete
Mode ==
  IF last = "complete" /\ ~changed THEN "list"
  ELSE IF set.all THEN "all" ELSE IF set.unmodified THEN "unmodified" ELSE "insert"

Complete == phase = "key" /\ Begin("complete", Mode, 0)
PossibleCompletions == phase = "key" /\ Begin("possible", "list", 0)
InsertCompletions == phase = "key" /\ Begin("insert", "each", 0)

\* A SIGWINCH arrives.
Catch ==
  /\ phase = "reading" /\ ~resized /\ ~work.cut
  /\ resized' = TRUE
  /\ UNCHANGED <<tree, set, text, last, changed, failed, work, menu, list, phase>>

\* rl_completion_matches takes the next match.  After a signal the matches so far
\* are freed, and the list goes on with this one.
ReadMatch ==
  /\ phase = "reading"
  /\ \E name \in work.unread :
       work' = [work EXCEPT !.unread = @ \ {name}, !.cut = @ \/ resized,
                            !.found = IF resized THEN {name} ELSE @ \cup {name}]
  /\ resized' = FALSE
  /\ UNCHANGED <<tree, set, text, last, changed, failed, menu, list, phase>>

\* gen_completion_matches: a signal after the last match frees them all.
ReadAll == phase = "reading" /\ work.unread = {} /\ resized' = FALSE /\ UNCHANGED <<tree, set, last>>
NoMatches == work.found = {} \/ resized

\* rl_complete_internal without matches.
Fail ==
  /\ ReadAll /\ NoMatches
  /\ phase' = "key" /\ changed' = FALSE /\ work' = [work EXCEPT !.cut = @ \/ resized]
  /\ IF work.what \in {"menu", "old"}
       THEN menu' = NoMenu /\ UNCHANGED failed
       ELSE failed' = TRUE /\ UNCHANGED menu
  /\ UNCHANGED <<text, list>>

Insert(matches) ==
  LET new == IF matches[1] = <<>> THEN text ELSE InsertMatch(text, matches[1], work.start)
  IN  IF Len(matches) = 1 THEN Append1(new, matches[1], work.delim, matches[1] # work.word) ELSE new

\* The switch of rl_complete_internal.
Do(matches) ==
  LET single == Len(matches) = 1
      shows == \/ work.what = "all" /\ ~single
               \/ work.what = "unmodified" /\ ~single /\ matches[1] = work.word
               \/ work.what = "list" /\ ~(single /\ work.failed /\ matches[1] # <<>>)
  IN  /\ failed' = IF matches[1] = <<>> THEN failed ELSE FALSE
      /\ text' = CASE work.what = "each" -> InsertAll(text, matches, work.start)
                   [] work.what = "list" /\ shows -> text
                   [] OTHER -> Insert(matches)
      /\ IF shows THEN Display(matches) /\ UNCHANGED changed
         ELSE /\ phase' = "key" /\ UNCHANGED list
              /\ changed' = (text'.line # work.before.line)
      /\ UNCHANGED menu

CompleteInternal ==
  /\ ReadAll /\ ~NoMatches /\ work.what \notin {"menu", "old"}
  /\ Do(Matches(work.found, work.word)) /\ UNCHANGED work

\* Mutated form: the matches are counted without matches[0].
OfferShort(m, step, t, old) ==
  [index |-> (m.index + step) % (IF Len(m.matches) > 1 THEN Len(m.matches) - 1 ELSE 1), text |-> t]

\* The end of rl_old_menu_complete and of rl_menu_complete: the next match, or
\* at index 0 the word as it was typed (old) or the common beginning.
Offer(m, step, t, old) ==
  LET index == (m.index + step) % Len(m.matches)
      name == m.matches[index + 1]
      new == InsertMatch(t, IF index = 0 /\ Len(m.matches) > 1 /\ old THEN m.word ELSE name, m.start)
  IN  [index |-> index,
       text |-> IF index = 0 /\ Len(m.matches) > 1 THEN new
                ELSE Append1(new, name, m.delim, name # m.word)]

Offered(m, step, t, old) ==
  LET o == Offer(m, step, t, old)
  IN  /\ text' = o.text /\ menu' = [m EXCEPT !.index = o.index]
      /\ changed' = TRUE /\ phase' = "key"

OldMenuComplete ==
  /\ phase = "key"
  /\ IF last # "old" THEN Begin("old", "old", 1)
     ELSE /\ IF menu.matches = <<>> THEN changed' = FALSE /\ UNCHANGED <<text, menu, phase>>
             ELSE Offered(menu, 1, text, TRUE)
          /\ UNCHANGED <<tree, set, last, failed, resized, work, list>>

\* rl_menu_complete and rl_backward_menu_complete
MenuComplete ==
  /\ phase = "key"
  /\ \E step \in {-1, 1} :
       IF last # "menu" \/ menu.full THEN Begin("menu", "menu", step)
       ELSE /\ IF menu.matches = <<>> THEN changed' = FALSE /\ UNCHANGED <<text, menu, phase>>
               ELSE Offered(menu, step, text, FALSE)
            /\ UNCHANGED <<tree, set, last, failed, resized, work, list>>

NewMenu(matches) ==
  [NoMenu EXCEPT !.matches = matches, !.word = work.word, !.start = work.start, !.delim = work.delim]

OldMenuBegins ==
  /\ ReadAll /\ ~NoMatches /\ work.what = "old"
  /\ LET m == NewMenu(Matches(work.found, work.word))
     IN  IF Len(m.matches) > 1 /\ set.all
           THEN menu' = m /\ Display(m.matches) /\ UNCHANGED <<text, changed>>
           ELSE Offered(m, 1, text, TRUE) /\ UNCHANGED list
  /\ UNCHANGED <<failed, work>>

\* The matches are shown first, the common beginning is offered first, a single
\* match is completed, or the first match is offered.
MenuBegins ==
  /\ ReadAll /\ ~NoMatches /\ work.what = "menu"
  /\ LET m == NewMenu(Matches(work.found, work.word))
         first == m.matches[1]
         new == IF first = <<>> THEN text ELSE InsertMatch(text, first, m.start)
         alters == IF first = <<>> THEN changed ELSE first # m.word
     IN  CASE Len(m.matches) = 1 ->
                /\ text' = Append1(new, first, m.delim, first # m.word)
                /\ menu' = [m EXCEPT !.full = TRUE] /\ changed' = alters
                /\ phase' = "key" /\ UNCHANGED list
           [] Len(m.matches) > 1 /\ set.all ->
                text' = new /\ menu' = m /\ changed' = alters /\ Display(m.matches)
           [] Len(m.matches) > 1 /\ ~set.all /\ set.prefix ->
                text' = new /\ menu' = m /\ changed' = alters /\ phase' = "key" /\ UNCHANGED list
           [] OTHER -> Offered(m, work.step, new, FALSE) /\ UNCHANGED list
  /\ UNCHANGED <<failed, work>>

\* What the command does once the list has been shown.
TooMany == set.query > 0 /\ Len(menu.matches) >= set.query
AfterList ==
  CASE work.what = "old" -> Offered(menu, 1, text, TRUE)
    [] work.what = "menu" /\ TooMany ->
         menu' = [NoMenu EXCEPT !.full = TRUE] /\ phase' = "key" /\ UNCHANGED <<text, changed>>
    [] work.what = "menu" /\ ~TooMany /\ set.prefix ->
         phase' = "key" /\ UNCHANGED <<text, menu, changed>>
    [] work.what = "menu" /\ ~TooMany /\ ~set.prefix -> Offered(menu, work.step, text, FALSE)
    [] OTHER -> /\ phase' = "key" /\ UNCHANGED <<text, menu>>
                /\ changed' = (text.line # work.before.line)

\* A row is printed; the pager stops when the screen is full.
PrintRow ==
  /\ phase = "listing" /\ list.rows # <<>>
  /\ list' = [list EXCEPT !.rows = Tail(@), !.printed = @ \o Head(list.rows),
                          !.lines = @ + 1, !.since = @ + 1]
  /\ phase' = IF list.lines + 1 >= Height - 1 /\ Tail(list.rows) # <<>> THEN "more" ELSE "listing"
  /\ UNCHANGED <<tree, set, text, last, changed, failed, resized, work, menu>>

ListEnds ==
  /\ phase = "listing" /\ list.rows = <<>>
  /\ AfterList
  /\ UNCHANGED <<tree, set, last, failed, resized, work, list>>

\* get_y_or_n: another key rings the bell.
AnswerNo ==
  /\ phase \in {"query", "more"}
  /\ AfterList
  /\ UNCHANGED <<tree, set, last, failed, resized, work, list>>

AnswerYes ==
  /\ phase \in {"query", "more"}
  /\ phase' = "listing" /\ list' = [list EXCEPT !.lines = 0, !.since = 0]
  /\ UNCHANGED <<tree, set, text, last, changed, failed, resized, work, menu>>

AnswerNewline ==
  /\ phase = "more"
  /\ phase' = "listing" /\ list' = [list EXCEPT !.lines = @ - 1, !.since = 0]
  /\ UNCHANGED <<tree, set, text, last, changed, failed, resized, work, menu>>

\* C-g: _rl_abort_internal
AnswerAbort ==
  /\ phase \in {"query", "more"}
  /\ phase' = "key" /\ last' = "none"
  /\ UNCHANGED <<tree, set, text, changed, failed, resized, work, menu, list>>

CompletionNext ==
  \/ Other \/ Complete \/ PossibleCompletions \/ InsertCompletions
  \/ OldMenuComplete \/ MenuComplete
  \/ Catch \/ ReadMatch \/ Fail \/ CompleteInternal \/ OldMenuBegins \/ MenuBegins
  \/ PrintRow \/ ListEnds \/ AnswerNo \/ AnswerYes \/ AnswerNewline \/ AnswerAbort

CompletionSpec == CompletionInit /\ [][CompletionNext]_completionVars

-----------------------------------------------------------------------------
(* Properties *)

From(s, n) == SubSeq(s, n + 1, Len(s))
WordNow == SubSeq(text.line, work.start + 1, text.point)

\* What is around the word stays: text before it, and what followed the cursor,
\* which with skip-completed-text may have become a part of the word.
RestKept ==
  /\ SubSeq(text.line, 1, work.start) = SubSeq(work.before.line, 1, work.start)
  /\ LET old == From(work.before.line, work.before.point)
         new == From(text.line, text.point)
     IN  old = new \/ (set.skip /\ \E n \in 0 .. Len(old) : new = From(old, n))

Dots == {DirOf(work.word) \o name : name \in {<<".">>, <<".", ".">>}}

\* Completion never decides for the user: every name that the word could have
\* become is still possible (and no other, but for . and .. when every name
\* begins with a dot), no longer beginning is common to them, and only a single
\* name is ended with a slash or a space.
NothingExcluded ==
  phase = "key" /\ last = "complete" /\ work.what \in {"insert", "all", "unmodified"} /\ ~work.cut =>
    LET C == Candidates(work.word)
    IN  /\ RestKept
        /\ C = {} => text = work.before
        /\ \A name \in C : C = {name} =>
             \E end \in {<<>>, <<"/">>, <<" ">>, work.delim} : WordNow = name \o end
        /\ Cardinality(C) > 1 =>
             /\ C \subseteq Candidates(WordNow) /\ Candidates(WordNow) \subseteq C \cup Dots
             /\ \A c \in DOMAIN Rank \ {"/"} : Candidates(Append(WordNow, c)) # C

\* Menu completion comes back: behind the last match the word is as it was typed
\* (old-menu-complete) or their common beginning, and a match that is offered
\* stands in its place with everything else as it was.  With skip-completed-text
\* what a match shared with the text behind it is gone.
MenuComesBack ==
  phase = "key" /\ last \in {"old", "menu"} /\ Len(menu.matches) > 1 =>
    /\ RestKept
    /\ menu.index = 0 /\ last = "old" /\ ~set.skip => text = work.before
    /\ menu.index = 0 /\ last = "menu" => WordNow = menu.matches[1]
    /\ menu.index # 0 => \E end \in {<<>>, <<"/">>, <<" ">>, work.delim} :
                           WordNow = menu.matches[menu.index + 1] \o end

\* A list that was not given up holds every match once, and no match leaves the
\* screen before a key was pressed.
EveryMatchListed ==
  /\ list.since <= Height - 1
  /\ phase = "listing" /\ list.rows = <<>> =>
       /\ Len(list.printed) = Len(list.names) /\ ToSet(list.printed) = DOMAIN list.names
       /\ work.cut \/ ToSet(list.names) = Candidates(work.word)

\* What completion makes of the word, and what it lists.
CompletionInvariant == NothingExcluded /\ EveryMatchListed
=============================================================================
