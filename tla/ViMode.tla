------------------------------- MODULE ViMode -------------------------------
(***************************************************************************)
(* Readline's vi mode (vi_mode.c): the motions, the commands d, c and y    *)
(* that take a motion, the commands that change the line or begin to       *)
(* insert, replace mode, marks, undo, and . which repeats the last change  *)
(* from what the library has remembered of it.                             *)
(*                                                                         *)
(* A command is one step with all its keys: its count, its motion, and the *)
(* character of f, t, r and of the marks.  The keys typed in insertion and replace *)
(* mode are steps of their own.                                            *)
(***************************************************************************)
EXTENDS Integers, SequencesExt

CONSTANTS
  Letter,      \* characters of identifiers
  Other,       \* _rl_to_upper of lower case letters and the reverse, for ~
  Bracket,     \* rl_vi_bracktype: the brackets, 1 opens what -1 closes
  Uses,        \* [lines, motions, changers]: where editing begins, and the keys used
  Keys,        \* the characters typed and searched for
  Counts,      \* the counts given; 1 is none
  MarkName,    \* the names of marks
  MergeLimit,  \* the longest record a typed character is merged into, 20
  MaxText,     \* bound on the length of the line
  MaxCommands  \* bound on the commands that change, repeat or undo

VARIABLES
  use,      \* one of Uses
  ed,       \* the line, point, mark, undo list, open groups, newest kill
  mem,      \* what vi mode remembers between commands
  mode,     \* _rl_keymap: "insertion", "movement" or "replace"
  done,     \* RL_STATE_VICMDONCE
  base,     \* the line when the undo list was last empty
  change,   \* the last change, and whether it was made in an ordinary way
  said,     \* what the last command was, for the properties
  commands

vars == <<use, ed, mem, mode, done, base, change, said, commands>>

ASSUME ViAssumption == MergeLimit \in Nat /\ MaxText \in Nat /\ MaxCommands \in Nat

-----------------------------------------------------------------------------
(* Characters and runs of them *)

Nul == "nul"
Ch(t, p) == IF 0 <= p /\ p < Len(t) THEN t[p + 1] ELSE Nul

Blank(c) == c = " "
Ident(c) == c \in Letter
Punct(c) == c # Nul /\ ~Blank(c) /\ ~Ident(c)
Black(c) == c # Nul /\ ~Blank(c)

\* The run of characters like the one at p, for w, b and e, and for W, B and E.
Kind(t, p) == {c \in ToSet(t) : IF Ident(Ch(t, p)) THEN Ident(c) ELSE Punct(c)}
Blacks(t) == {c \in ToSet(t) : Black(c)}
Blanks == {" "}

\* The first place at or behind p whose character is not in S; and the place
\* where the run of characters in S that ends before p begins.
Over(t, p, S) == CHOOSE q \in p .. Len(t) : (q = Len(t) \/ t[q + 1] \notin S)
                                            /\ \A i \in p + 1 .. q : t[i] \in S
Back(t, p, S) == CHOOSE q \in 0 .. p : (q = 0 \/ t[q] \notin S)
                                       /\ \A i \in q + 1 .. p : t[i] \in S

Clip(n, t) == IF n > Len(t) THEN Len(t) ELSE IF n < 0 THEN 0 ELSE n
Least(a, b) == IF a < b THEN a ELSE b
Most(a, b) == IF a > b THEN a ELSE b
Repeat(F(_), n, x) == FoldLeft(LAMBDA y, i : F(y), x, [i \in 1 .. n |-> i])

-----------------------------------------------------------------------------
(* Words.  Each operator is one round of the loop of its function. *)

\* rl_vi_fword, rl_vi_fWord: to the beginning of the next word.
NextWord(t, p, big) ==
  IF p >= Len(t) - 1 THEN p
  ELSE Over(t, Over(t, p, IF big THEN Blacks(t) ELSE Kind(t, p)), Blanks)

\* rl_vi_eword, rl_vi_eWord: to the last character of a word, or behind the
\* blanks at the end of the line.
Behind(t, q, big) == Over(t, q, IF big THEN Blacks(t) ELSE Kind(t, q)) - 1
EndFrom(t, q, big) == IF q = Len(t) THEN q ELSE Behind(t, q, big)
EndWord(t, p, big) ==
  IF p >= Len(t) - 1 THEN p
  ELSE EndFrom(t, Over(t, IF Blank(Ch(t, p)) THEN p ELSE p + 1, Blanks), big)

\* Back over blanks until one is not blank, or to the beginning.
BackBlanks(t, p) == IF Blank(Ch(t, p)) THEN Most(Back(t, p, Blanks) - 1, 0) ELSE p

\* The loop that ends rl_vi_bword and rl_vi_bWord goes back while the characters
\* are in S, and one forward again unless it has come to the beginning of the line.
RunBefore(p, begins) == IF p = 0 \/ begins <= 1 THEN 0 ELSE begins

\* A point at the beginning of a word is moved to the blank before it.
ToBlank(t, p) == IF ~Blank(Ch(t, p)) /\ Blank(Ch(t, p - 1)) THEN p - 1 ELSE p

\* rl_vi_bWord.
WordBefore(t, p) == RunBefore(p, Back(t, p, Blacks(t)))
BackBig(t, p) == IF p = 0 THEN 0 ELSE WordBefore(t, BackBlanks(t, ToBlank(t, p)))

\* rl_vi_bword.
ToOther(t, p) == IF p > 0 /\ Ident(Ch(t, p)) # Ident(Ch(t, p - 1)) THEN p - 1 ELSE p
RunOf(t, p) == RunBefore(p, Back(t, p, Kind(t, p)))
BackSmall(t, p) ==
  IF p = 0 THEN 0 ELSE RunOf(t, BackBlanks(t, ToOther(t, ToBlank(t, p))))

BackWord(t, p, big) == IF big THEN BackBig(t, p) ELSE BackSmall(t, p)

-----------------------------------------------------------------------------
(* Other motions *)

\* rl_forward_char in movement mode stops on the last character.
Right(t, p, count) ==
  IF p + count >= Len(t) THEN Most(Len(t) - 1, 0) ELSE p + count

\* rl_vi_column.
Column(t, count) == IF count > Len(t) THEN Len(t) ELSE Right(t, 0, count - 1)

\* _rl_char_search_internal: the count-th place, or the last one there is.
Places(t, p, dir, c) ==
  {q \in 0 .. Len(t) - 1 : t[q + 1] = c /\ IF dir > 0 THEN q > p ELSE q < p}
Nearer(S, dir, q) == {r \in S : IF dir > 0 THEN r <= q ELSE r >= q}
CountTh(S, dir, count) ==
  CHOOSE q \in S : Cardinality(Nearer(S, dir, q)) = Least(count, Cardinality(S))
Beside(q, dir) == CASE dir = 1 -> q - 1 [] dir = -1 -> q + 1 [] OTHER -> q
Search(p, S, dir, count) == IF S = {} THEN p ELSE Beside(CountTh(S, dir, count), dir)

\* rl_vi_match: the bracket at the point, or the first one behind it, and its
\* partner.
Brackets(t, p) == {q \in p .. Len(t) - 1 : t[q + 1] \in DOMAIN Bracket}
Weight(c, b) == CASE c \notin DOMAIN Bracket -> 0 [] Bracket[c] = b -> 1
                  [] Bracket[c] = -b -> -1 [] OTHER -> 0
Sum(t, b) == FoldLeft(LAMBDA n, c : n + Weight(c, b), 0, t)
Partners(t, q, b) ==
  IF b > 0 THEN {r \in q + 1 .. Len(t) - 1 : Sum(SubSeq(t, q + 1, r + 1), b) = 0}
           ELSE {r \in 0 .. q - 1 : Sum(SubSeq(t, r + 1, q + 1), b) = 0}
FirstOf(S) == CHOOSE q \in S : \A r \in S : q <= r
LastOf(S) == CHOOSE q \in S : \A r \in S : q >= r
Nearest(S, q, b) == CASE S = {} -> q [] b > 0 -> FirstOf(S) [] OTHER -> LastOf(S)
Partner(t, q, b) == Nearest(Partners(t, q, b), q, b)
\* A closing bracket has a partner only for a point that is on it: when it is the
\* first one ahead the point is put back.  When there is no partner for an opening
\* bracket ahead the motion fails too, but the point stays on the bracket.
MatchFrom(t, p, q) ==
  IF q > p /\ Bracket[Ch(t, q)] < 0 THEN p ELSE Partner(t, q, Bracket[Ch(t, q)])
Match(t, p) ==
  IF Brackets(t, p) = {} THEN p ELSE MatchFrom(t, p, FirstOf(Brackets(t, p)))

-----------------------------------------------------------------------------
(* The line, its undo list and the newest kill: text.c, undo.c, kill.c *)

AddUndo(e, what, start, end, text) ==
  [e EXCEPT !.undo = <<[what |-> what, start |-> start, end |-> end, text |-> text]>> \o @]

BeginGroup(e) == [AddUndo(e, "begin", 0, 0, <<>>) EXCEPT !.level = @ + 1]
EndGroup(e) == [AddUndo(e, "end", 0, 0, <<>>) EXCEPT !.level = @ - 1]

With(t, at, new) == SubSeq(t, 1, at) \o new \o SubSeq(t, at + 1, Len(t))
Without(t, from, to) == SubSeq(t, 1, from) \o SubSeq(t, to + 1, Len(t))

\* rl_insert_text.
Merges(e, t) == /\ Len(t) = 1 /\ e.undo # <<>>
                /\ LET r == e.undo[1] IN r.what = "insert" /\ r.end = e.point
                                         /\ r.end - r.start < MergeLimit
Noted(e, t) == IF Merges(e, t) THEN [e EXCEPT !.undo[1].end = @ + 1]
               ELSE AddUndo(e, "insert", e.point, e.point + Len(t), <<>>)
InsertText(e, t) ==
  IF t = <<>> THEN e
  ELSE [Noted(e, t) EXCEPT !.text = With(@, e.point, t), !.point = @ + Len(t)]

\* rl_delete_text: the point stays where it is.
DeleteText(e, from, to) ==
  [AddUndo(e, "delete", from, to, SubSeq(e.text, from + 1, to))
     EXCEPT !.text = Without(@, from, to), !.mark = Clip(@, Without(e.text, from, to))]

\* rl_kill_text: vi mode joins no kills.
KillText(e, from, to) ==
  IF from = to THEN e
  ELSE [DeleteText(e, from, to) EXCEPT !.kill = <<SubSeq(e.text, from + 1, to)>>]

\* One round of the loop of rl_do_undo.
Unmade(e, r) ==
  CASE r.what = "delete" ->
         [e EXCEPT !.text = With(@, Clip(r.start, @), r.text),
                   !.point = Clip(r.start, e.text) + Len(r.text), !.mark = Clip(@, e.text)]
    [] r.what = "insert" ->
         [e EXCEPT !.text = Without(@, r.start, r.end), !.point = r.start,
                   !.mark = Clip(@, Without(e.text, r.start, r.end))]
    [] OTHER -> e
Waiting(w, what) == CASE what = "end" -> w + 1 [] what = "begin" /\ w > 0 -> w - 1 [] OTHER -> w
UndoRound(s) ==
  [e |-> [Unmade(s.e, s.e.undo[1]) EXCEPT !.undo = Tail(@)],
   waiting |-> Waiting(s.waiting, s.e.undo[1].what),
   stop |-> Waiting(s.waiting, s.e.undo[1].what) = 0]
UndoStep(s) == IF s.stop \/ s.e.undo = <<>> THEN s ELSE UndoRound(s)

\* rl_do_undo: one record, or a group from its end to its beginning.
DoUndo(e) == Repeat(UndoStep, Len(e.undo), [e |-> e, waiting |-> 0, stop |-> FALSE]).e

\* rl_undo_command and rl_revert_line.
Undo(e, count) == Repeat(DoUndo, count, e)
Revert(e) == IF e.undo = <<>> THEN e
             ELSE [Repeat(DoUndo, Len(e.undo), e) EXCEPT !.point = 0, !.mark = 0]

-----------------------------------------------------------------------------
(* Where a motion goes *)

Dir == [t |-> 1, T |-> -1, f |-> 2, F |-> -2]

\* rl_vi_char_search notes the direction and the character; while a command is
\* repeated the character is the one noted last.
Searched(m, mot, redo) ==
  CASE mot.key \in DOMAIN Dir ->
         [m EXCEPT !.dir = Dir[mot.key], !.orig = Dir[mot.key],
                   !.target = IF redo THEN @ ELSE mot.letter]
    [] mot.key = ";" /\ m.orig # 0 -> [m EXCEPT !.dir = m.orig]
    [] mot.key = "," /\ m.orig # 0 -> [m EXCEPT !.dir = -m.orig]
    [] OTHER -> m

\* rl_vi_goto_mark.
MarkPlace(e, m, name, t, p) ==
  CASE name = "goto" -> Clip(e.mark, t)
    [] name # "goto" /\ m.marks[name] # -1 -> Clip(m.marks[name], t)
    [] OTHER -> p

\* The function of the key, with the argument count.
Goes(e, m, mot, count, t, p) ==
  CASE mot.key = "h" -> Most(p - count, 0)
    [] mot.key \in {"l", " "} -> Right(t, p, count)
    [] mot.key \in {"w", "W"} -> Repeat(LAMBDA q : NextWord(t, q, mot.key = "W"), count, p)
    [] mot.key \in {"e", "E"} -> Repeat(LAMBDA q : EndWord(t, q, mot.key = "E"), count, p)
    [] mot.key \in {"b", "B"} -> Repeat(LAMBDA q : BackWord(t, q, mot.key = "B"), count, p)
    [] mot.key = "0" -> 0
    [] mot.key = "$" -> Len(t)
    [] mot.key = "^" -> Over(t, 0, Blanks)
    [] mot.key = "|" -> Column(t, count)
    [] mot.key = "%" -> Match(t, p)
    [] mot.key = "goto" -> MarkPlace(e, m, mot.letter, t, p)
    [] OTHER -> IF m.orig = 0 THEN p ELSE Search(p, Places(t, p, m.dir, m.target), m.dir, count)

-----------------------------------------------------------------------------
(* d, c and y.  r is the state they work on: [ed, mem, mode]. *)

IsWord(mot) == mot.key \in {"w", "W"}

\* rl_domove_motion_callback: a blank is appended while the motion is made, so
\* that it can go behind the last character.
Landing(e, m, mot, count) ==
  Clip(Goes([e EXCEPT !.mark = e.point], m, mot, count, Append(e.text, " "), e.point), e.text)

\* _rl_vi_domove_motion_cleanup: w goes to the next word; a command takes what
\* lies before it, and c only the word.
BeforeNext(t, p, mot, start) ==
  IF IsWord(mot) /\ p < Len(t) /\ p > start /\ ~Blank(Ch(t, p)) THEN p - 1 ELSE p
LastBlack(t, start, p) == Most(start, BackBlanks(t, p))
ThisWord(t, q, start) ==
  CASE q = start -> Least(q + 1, Len(t))
    [] q # start /\ q < Len(t) - 1 /\ ~Blank(Ch(t, q)) -> q + 1
    [] OTHER -> q
Taken(t, p, key, mot, start) ==
  IF key = "c" /\ IsWord(mot) /\ p >= start THEN ThisWord(t, LastBlack(t, start, p), start) ELSE p

\* The motions that do not take the character they land on.
Short(op) == {" ", "l", "|", "h", "^", "0", "b", "B", "F", "T", "goto"}
             \cup (CASE op = "c" -> {"w", "W"} [] op = "y" -> {"%"} [] OTHER -> {})
Reach(op, t, mot, start, from, to) ==
  IF mot.key \notin Short(op) /\ from >= start /\ to < Len(t) THEN to + 1 ELSE to

\* rl_vi_start_inserting.
StartInserting(r, key, count) ==
  [ed |-> BeginGroup(r.ed), mode |-> "insertion",
   mem |-> [r.mem EXCEPT !.last = key, !.repeat = count, !.before = key]]

\* vi_delete_dispatch, vi_change_dispatch and vi_yank_dispatch.
Deletes(r, from, to) == [r EXCEPT !.ed = [KillText(r.ed, from, to) EXCEPT !.point = from]]

Changes(r, key, count, from, to) ==
  StartInserting([r EXCEPT !.ed = [KillText(BeginGroup(r.ed), from, to) EXCEPT !.point = from],
                           !.mem.doing = @ \/ key = "c"], key, count)

RedoChange(e, from, to, text) ==
  IF text = <<>> THEN [DeleteText(e, from, to) EXCEPT !.point = from]
  ELSE EndGroup(InsertText([DeleteText(BeginGroup(e), from, to) EXCEPT !.point = from], text))

\* Mutated form: the text that was killed to be copied is not put back.
YanksAway(r, start, from, to) ==
  [r EXCEPT !.ed = [EndGroup(KillText(BeginGroup(r.ed), from, to)) EXCEPT !.point = start]]

Yanks(r, start, from, to) ==
  [r EXCEPT !.ed = [DoUndo(EndGroup(KillText(BeginGroup(r.ed), from, to))) EXCEPT !.point = start]]

\* vidomove_dispatch.
Dispatch(r, op, key, count, start, from, to, redo) ==
  CASE op = "d" -> Deletes(r, from, to)
    [] op = "y" -> Yanks(r, start, from, to)
    [] op = "c" /\ redo -> [r EXCEPT !.ed = RedoChange(r.ed, from, to, r.mem.buffer)]
    [] OTHER -> Changes(r, key, count, from, to)

Between(r, op, key, count, redo, start, from, to) ==
  Dispatch([r EXCEPT !.ed.mark = to], op, key, count, start, from, to, redo)
Extent(r, op, key, mot, count, redo, start, p) ==
  Between(r, op, key, count, redo, start, Least(start, p),
          Reach(op, r.ed.text, mot, start, Least(start, p), Most(start, p)))

\* No change in position means the command failed, but for c.
Cleanup(r, op, key, mot, count, redo, start, p) ==
  IF p = start
    THEN IF op = "c" THEN Extent(r, op, key, mot, count, redo, start, start)
                     ELSE [r EXCEPT !.ed.mark = start]
    ELSE Extent(r, op, key, mot, count, redo, start,
                Taken(r.ed.text, BeforeNext(r.ed.text, p, mot, start), key, mot, start))

MotionCallback(r, op, key, mot, count, redo) ==
  LET m == Searched([r.mem EXCEPT !.motion = mot.key], mot, redo)
  IN  Cleanup([r EXCEPT !.mem = m], op, key, mot, count, redo, r.ed.point,
              Landing(r.ed, m, mot, count))

\* dd, cc and yy: the whole line.
WholeLine(r, op, count, redo) ==
  Dispatch([r EXCEPT !.ed.mark = Len(r.ed.text), !.mem.motion = op], op, op, count,
           r.ed.point, 0, Len(r.ed.text), redo)

\* What rl_vi_delete_to, rl_vi_change_to and rl_vi_yank_to do alike; D, C and Y
\* go to the end of the line.
Line == [key |-> "line", letter |-> Nul]
ToEnd == [key |-> "$", letter |-> Nul]
Operate(r, op, key, mot, count, redo) ==
  CASE key # op -> MotionCallback(r, op, key, ToEnd, count, redo)
    [] key = op /\ mot.key \in {"line", op} -> WholeLine(r, op, count, redo)
    [] OTHER -> MotionCallback(r, op, key, mot, count, redo)

DeleteTo(r, key, mot, count, redo) == Operate(r, "d", key, mot, count, redo)
YankTo(r, key, mot, count, redo) == Operate(r, "y", key, mot, count, redo)

\* rl_vi_subst: s changes the character at the point and S the line.
ChangeTo(r, key, mot, count, redo) ==
  CASE key = "s" -> Operate(r, "c", "c", [key |-> "l", letter |-> Nul], count, redo)
    [] key = "S" -> Operate(r, "c", "c", Line, count, redo)
    [] OTHER -> Operate(r, "c", key, mot, count, redo)

-----------------------------------------------------------------------------
(* Commands without a motion *)

\* rl_vi_check.
Check(e) == IF e.point > 0 /\ e.point = Len(e.text) THEN [e EXCEPT !.point = @ - 1] ELSE e

\* rl_vi_delete and rl_vi_rubout.
ViDelete(e, count) ==
  IF e.text = <<>> THEN e
  ELSE Check(KillText(e, e.point, Least(e.point + count, Len(e.text))))
ViRubout(e, count) ==
  [KillText(e, Most(e.point - count, 0), e.point) EXCEPT !.point = Most(@ - count, 0)]

\* The character at the point is replaced: it is deleted, the point may have
\* retreated at the end of the line, and the new one is inserted.
Advanced(e, p) == IF e.point < p THEN [e EXCEPT !.point = Least(@ + 1, Len(e.text))] ELSE e
Replaced(e, c) == InsertText(Advanced(ViDelete(e, 1), e.point), <<c>>)

\* _rl_vi_change_char.
ChangeChar(e, count, c) ==
  LET all == Repeat(LAMBDA d : IF d.point < Len(d.text) THEN Replaced(d, c) ELSE d,
                    count, BeginGroup(e))
  IN  EndGroup([all EXCEPT !.point = Most(@ - 1, 0)])

\* _rl_vi_change_mbchar_case: characters without case are passed over.
ChangeOne(e) ==
  CASE e.point >= Len(e.text) -> e
    [] e.point < Len(e.text) /\ Ch(e.text, e.point) \in DOMAIN Other ->
         Check(EndGroup(Replaced(BeginGroup(e), Other[Ch(e.text, e.point)])))
    [] OTHER -> [e EXCEPT !.point = Right(e.text, @, 1)]
ChangeCase(e, count) == Repeat(ChangeOne, count, e)

\* rl_yank and rl_vi_put.
YankText(e) == InsertText([e EXCEPT !.mark = e.point], e.kill[1])
Put(e, key, count) ==
  LET at == IF key = "p" /\ e.point + 1 <= Len(e.text) THEN [e EXCEPT !.point = @ + 1] ELSE e
  IN  LET put == Repeat(YankText, count, at) IN [put EXCEPT !.point = Most(@ - 1, 0)]

\* rl_vi_replace.
Replace(r) == [StartInserting(r, "R", 1) EXCEPT !.mode = "replace", !.mem.replaced = 0]

\* i, I, a and A.
PlaceFor(e, key) ==
  CASE key = "I" -> 0 [] key = "A" -> Len(e.text)
    [] key = "a" -> Least(e.point + 1, Len(e.text)) [] OTHER -> e.point
Insert(r, key) == StartInserting([r EXCEPT !.ed.point = PlaceFor(r.ed, key)], key, 1)

\* _rl_vi_stuff_insert and _rl_vi_replace_insert.
StuffInsert(e, count, text) == EndGroup(Repeat(LAMBDA d : InsertText(d, text), count, BeginGroup(e)))
Overwritten(e, text) ==
  EndGroup(InsertText(DeleteText(BeginGroup(e), e.point, Least(e.point + Len(text), Len(e.text))), text))
ReplaceInsert(e, count, text) ==
  EndGroup(Repeat(LAMBDA d : Overwritten(d, text), count, BeginGroup(e)))

\* A command that changes the line, by its key.
Changers == {"x", "X", "r", "~", "p", "P", "d", "D", "c", "C", "y", "Y", "s", "S", "R", "i", "I", "a", "A"}
Run(r, key, mot, count, c, redo) ==
  CASE key = "x" -> [r EXCEPT !.ed = ViDelete(r.ed, count)]
    [] key = "X" -> [r EXCEPT !.ed = ViRubout(r.ed, count)]
    [] key = "r" -> [r EXCEPT !.ed = ChangeChar(r.ed, count, c), !.mem.replacement = c]
    [] key = "~" -> [r EXCEPT !.ed = ChangeCase(r.ed, count)]
    [] key \in {"p", "P"} -> [r EXCEPT !.ed = Put(r.ed, key, count)]
    [] key \in {"d", "D"} -> DeleteTo(r, key, mot, count, redo)
    [] key \in {"y", "Y"} -> YankTo(r, key, mot, count, redo)
    [] key \in {"c", "C", "s", "S"} -> ChangeTo(r, key, mot, count, redo)
    [] key = "R" -> Replace(r)
    [] OTHER -> Insert(r, key)

\* The end of _rl_dispatch_subseq and rl_internal_char_cleanup: what can be
\* repeated is noted, and in movement mode the point goes back on a character.
Noting(r, key, count) ==
  IF r.mode # "movement" THEN r
  ELSE [r EXCEPT !.mem.last = key, !.mem.repeat = count, !.ed = Check(r.ed)]

-----------------------------------------------------------------------------
(* Leaving insertion and replace mode *)

\* _rl_vi_save_insert and _rl_vi_save_replace.
SaveInsert(e) == IF e.undo # <<>> /\ e.undo[1].what = "insert"
                   THEN SubSeq(e.text, e.undo[1].start + 1, e.undo[1].end) ELSE <<>>
SaveReplace(e, n) ==
  CASE n <= 0 -> <<>>
    [] n > 0 /\ e.point - n + 1 < 0 -> SubSeq(e.text, 1, e.point)
    [] OTHER -> SubSeq(e.text, e.point - n + 2, Least(e.point + 1, Len(e.text)))

Inserters == {"i", "a", "I", "A"}
Saved(e, m) ==
  CASE m.doing /\ m.before = "R" -> SaveReplace(e, m.replaced)
    [] m.doing /\ m.before # "R" -> SaveInsert(e)
    [] ~m.doing /\ e.undo # <<>> /\ m.before \in Inserters -> SaveInsert(e)
    [] OTHER -> m.buffer
Ended(e, m) == IF m.doing \/ (m.before = "C" /\ m.before \notin Inserters) THEN EndGroup(e) ELSE e

\* Mutated form: the groups that commands have opened stay open.
CloseNone(e) == e

CloseGroups(e) == Repeat(EndGroup, Most(e.level, 0), e)

\* _rl_vi_done_inserting.
DoneInserting(r) ==
  [r EXCEPT !.ed = CloseGroups(Ended(r.ed, r.mem)),
            !.mem.buffer = Saved(r.ed, r.mem), !.mem.doing = FALSE]

-----------------------------------------------------------------------------
(* Actions *)

State == [ed |-> ed, mem |-> mem, mode |-> mode]
Becomes(r) ==
  /\ ed' = r.ed /\ mem' = r.mem /\ mode' = r.mode
  /\ Len(r.ed.text) <= MaxText

Quiet == [what |-> "none"]
Says(s) == said' = s
Counted == commands < MaxCommands /\ commands' = commands + 1

NoMotion == [key |-> "none", letter |-> Nul]
AllMotions ==
  {[key |-> k, letter |-> c] : k \in use.motions \cap DOMAIN Dir, c \in Keys}
    \cup {[key |-> "goto", letter |-> n] : n \in IF "goto" \in use.motions THEN MarkName \cup {"goto"} ELSE {}}
    \cup {[key |-> k, letter |-> Nul] : k \in use.motions \ (DOMAIN Dir \cup {"goto"})}

\* A count before 0 makes a number; other motions take none.
Argument(mot) == IF mot.key \in {"0", "$", "^", "%", "goto"} THEN {1} ELSE Counts

Init ==
  /\ use \in Uses
  /\ \E t \in use.lines, k \in {<<>>} \cup {<<<<c>>>> : c \in Keys} :
       /\ ed = [text |-> t, point |-> 0, mark |-> Len(t), undo |-> <<>>, level |-> 0, kill |-> k]
       /\ base = t
  /\ mem = [last |-> "i", repeat |-> 1, motion |-> "none", buffer |-> <<>>, doing |-> FALSE,
            before |-> "i", replaced |-> 0, dir |-> 0, orig |-> 0, target |-> Nul,
            replacement |-> Nul, marks |-> [n \in MarkName |-> -1], uneven |-> FALSE]
  /\ mode = "movement" /\ done = TRUE
  /\ change = [key |-> "none", mot |-> NoMotion, count |-> 1, arg |-> Nul, typed |-> <<>>,
               open |-> FALSE, exact |-> FALSE]
  /\ said = Quiet /\ commands = 0

\* A motion by itself.
Motion ==
  \E mot \in AllMotions : \E count \in Argument(mot) :
    LET m == Searched(mem, mot, FALSE)
    IN  /\ mode = "movement"
        /\ mem' = m
        /\ ed' = Check([ed EXCEPT !.point = Goes(ed, m, mot, count, ed.text, ed.point)])
        /\ Says(Quiet)
        /\ UNCHANGED <<use, mode, done, base, change, commands>>

\* The motions and arguments of a command.
Takes(key) == CASE key \in {"d", "c", "y"} -> AllMotions \cup {Line}
                [] OTHER -> {NoMotion}
Args(key) == IF key = "r" THEN Keys ELSE {Nul}
CountsOf(key, mot) ==
  CASE key \in {"D", "C", "Y", "S", "R"} \cup Inserters \/ mot.key = "line" -> {1}
    [] key \in {"d", "c", "y"} -> Argument(mot)
    [] OTHER -> Counts

\* A command that changes the line, copies from it, or begins to insert.
Change(key) ==
  \E mot \in Takes(key), c \in Args(key) : \E count \in CountsOf(key, mot) :
    /\ mode = "movement" /\ Counted
    /\ key \in {"p", "P"} => ed.kill # <<>>
    /\ Becomes(Noting(Run(State, key, mot, count, c, FALSE), key, count))
    /\ change' = [key |-> key, mot |-> mot, count |-> count, arg |-> c, typed |-> <<>>,
                  open |-> mode' # "movement", exact |-> key # "C"]
    /\ Says(IF key \in {"y", "Y"} THEN [what |-> "yank", key |-> key, mot |-> mot, count |-> count]
                                  ELSE Quiet)
    /\ UNCHANGED <<use, done, base>>

\* rl_yank without a kill goes back to the loop that reads keys, past the end of
\* the command.
PutNothing ==
  \E key \in {"p", "P"} \cap use.changers :
    /\ mode = "movement" /\ ed.kill = <<>> /\ Counted
    /\ ed' = [ed EXCEPT !.point = IF key = "p" THEN Least(@ + 1, Len(ed.text)) ELSE @]
    /\ Says([what |-> "abort"])
    /\ UNCHANGED <<use, mem, mode, done, base, change>>

\* Mutated form: the count given is not remembered.
RedoCountOnce(count) == IF count = 0 THEN 1 ELSE count

\* rl_vi_redo takes the count of the command unless it has one of its own (0).
RedoCount(count) == IF count = 0 THEN mem.repeat ELSE count

BackUp(e) == IF e.point > 0 THEN [e EXCEPT !.point = @ - 1] ELSE e
RedoText(count) ==
  IF mem.last = "R" THEN ReplaceInsert(ed, Most(count, 1), mem.buffer)
  ELSE StuffInsert([ed EXCEPT !.point = PlaceFor(ed, mem.last)], Most(count, 1), mem.buffer)
RedoCommand(count, letter) ==
  Noting(Run(State, mem.last, [key |-> mem.motion, letter |-> letter], RedoCount(count),
             mem.replacement, TRUE), mem.last, RedoCount(count))
Stuffs == mem.last \in Inserters \cup {"R"} /\ mem.buffer # <<>>

\* rl_vi_redo.
Redo ==
  \E count \in {0} \cup (Counts \ {1}), letter \in IF mem.motion = "goto" THEN MarkName \cup {"goto"} ELSE {Nul} :
    /\ mode = "movement" /\ Counted
    /\ IF Stuffs THEN Becomes([State EXCEPT !.ed = Check(BackUp(RedoText(count)))])
                 ELSE Becomes(RedoCommand(count, letter))
    /\ Says([what |-> "redo", count |-> count, letter |-> letter])
    /\ change' = IF mode' # "movement"
                   THEN [change EXCEPT !.typed = <<>>, !.open = TRUE, !.exact = FALSE]
                   ELSE [change EXCEPT !.count = IF Stuffs THEN @ ELSE RedoCount(count),
                                       !.exact = @ /\ (mem.motion = "goto" => letter = change.mot.letter)]
    /\ UNCHANGED <<use, done, base>>

\* u and U.
Undoing ==
  \E e \in {Undo(ed, count) : count \in Counts} \cup {Revert(ed)} :
    /\ mode = "movement" /\ Counted
    /\ ed' = Check(e)
    /\ Says(Quiet)
    /\ UNCHANGED <<use, mem, mode, done, base, change>>

\* rl_vi_set_mark.
SetMark ==
  \E n \in MarkName :
    /\ mode = "movement" /\ "goto" \in use.motions
    /\ mem' = [mem EXCEPT !.marks[n] = ed.point]
    /\ ed' = Check(ed)
    /\ Says(Quiet)
    /\ UNCHANGED <<use, mode, done, base, change, commands>>

-----------------------------------------------------------------------------
(* Insertion and replace mode *)

Typing(c, r) ==
  /\ Becomes(r)
  /\ change' = IF change.open
                 THEN [change EXCEPT !.typed = Append(@, c),
                                     !.exact = @ /\ (change.key = "R" \/ Len(change.typed) < MergeLimit)]
                 ELSE [key |-> "i", mot |-> NoMotion, count |-> 1, arg |-> Nul, typed |-> <<c>>,
                       open |-> TRUE, exact |-> mem.last = "i"]
  /\ Says(Quiet)
  /\ UNCHANGED <<use, done, base, commands>>

\* rl_insert.
Type ==
  \E c \in Keys : /\ mode = "insertion"
                  /\ Typing(c, [State EXCEPT !.ed = InsertText(ed, <<c>>)])

\* rl_vi_overstrike and _rl_overwrite_char.
Overwrite(e, c) ==
  LET put == InsertText(BeginGroup(e), <<c>>)
  IN  EndGroup(IF put.point < Len(put.text) THEN DeleteText(put, put.point, put.point + 1) ELSE put)
Overstrike ==
  \E c \in Keys :
    /\ mode = "replace"
    /\ Typing(c, [State EXCEPT !.ed = Overwrite(IF mem.doing THEN ed ELSE BeginGroup(ed), c),
                               !.mem.doing = TRUE, !.mem.replaced = @ + 1])

\* The word before the point: rl_vi_unix_word_rubout.
Boundary(t) == {c \in ToSet(t) : ~Ident(c)}
Inside(t) == {c \in ToSet(t) : Ident(c)}
OverEnd(t, p) == IF p = Len(t) /\ p > 0 /\ Blank(t[p]) THEN BackBlanks(t, p - 1) ELSE p
ToBoundary(t, p) ==
  IF p > 0 /\ Ch(t, p) \notin Boundary(t) /\ Ch(t, p - 1) \in Boundary(t) THEN p - 1 ELSE p
BackPart(t, p) == Back(t, p, IF Ch(t, p) \in Boundary(t) THEN Boundary(t) ELSE Inside(t))
WordRubout(t, p) == BackPart(t, ToBoundary(t, OverEnd(t, p)))

Killed(e, from) == [KillText(e, from, e.point) EXCEPT !.point = from]

\* rl_rubout, rl_unix_line_discard, rl_vi_unix_word_rubout, rl_yank and
\* rl_vi_undo in insertion mode.
InsertionEdits ==
  {IF ed.point = 0 THEN ed ELSE [DeleteText(ed, ed.point - 1, ed.point) EXCEPT !.point = @ - 1],
   Killed(ed, 0), Killed(ed, WordRubout(ed.text, ed.point)), Undo(ed, 1)}
    \cup {YankText(ed) : k \in ToSet(ed.kill)}
OpenGroupUndone(e) == mode = "insertion" /\ ed.undo # <<>> /\ ed.undo[1].what = "begin" /\ e = Undo(ed, 1)

EditInserting ==
  \E e \in InsertionEdits :
    /\ mode = "insertion" /\ Counted
    /\ Becomes([State EXCEPT !.ed = e, !.mem.uneven = @ \/ OpenGroupUndone(e)])
    /\ change' = [change EXCEPT !.exact = FALSE]
    /\ Says(Quiet)
    /\ UNCHANGED <<use, done, base>>

\* rl_vi_overstrike_delete: one replaced character is undone; with none left, also
\* when other keys have brought the count to 0, the group of the replacing is.
Unstruck(e) == IF DoUndo(e).point = e.point THEN [DoUndo(e) EXCEPT !.point = Most(@ - 1, 0)] ELSE DoUndo(e)
OneLess(r) ==
  IF r.mem.replaced = 0 THEN r
  ELSE [r EXCEPT !.ed = Unstruck(r.ed), !.mem.replaced = IF r.ed.undo = <<>> THEN @ ELSE @ - 1]
NoneLeft(r) ==
  IF r.mem.replaced = 0 /\ r.mem.doing
    THEN [r EXCEPT !.ed = DoUndo(EndGroup(r.ed)), !.mem.doing = FALSE] ELSE r
OverstrikeDelete ==
  /\ mode = "replace" /\ Counted
  /\ Becomes(NoneLeft(OneLess(State)))
  /\ change' = [change EXCEPT !.exact = FALSE]
  /\ Says(Quiet)
  /\ UNCHANGED <<use, done, base>>

\* rl_vi_overstrike_kill_line, rl_vi_overstrike_kill_word, rl_vi_overstrike_yank:
\* what they remove or put in is counted with what was replaced.
OverstrikeEdits ==
  {Killed(ed, 0), Killed(ed, WordRubout(ed.text, ed.point))} \cup {YankText(ed) : k \in ToSet(ed.kill)}
EditReplacing ==
  \E e \in OverstrikeEdits :
    /\ mode = "replace" /\ Counted
    /\ Becomes([State EXCEPT !.ed = e, !.mem.replaced = @ + Len(e.text) - Len(ed.text),
                             !.mem.uneven = TRUE])
    /\ change' = [change EXCEPT !.exact = FALSE]
    /\ Says(Quiet)
    /\ UNCHANGED <<use, done, base>>

\* rl_vi_movement_mode: the first time on a line, the undo list is freed.
MovementMode ==
  LET r == DoneInserting([State EXCEPT !.ed = BackUp(ed)])
  IN  /\ mode # "movement"
      /\ Becomes([r EXCEPT !.mode = "movement", !.ed = Check([r.ed EXCEPT !.undo = IF done THEN @ ELSE <<>>])])
      /\ done' = TRUE
      /\ base' = IF done THEN base ELSE r.ed.text
      /\ change' = [change EXCEPT !.open = FALSE, !.exact = @ /\ (change.open => change.typed # <<>>)]
      /\ Says(Quiet)
      /\ UNCHANGED <<use, commands>>

\* rl_newline, and the next line: inserting is done also when movement mode was
\* entered long ago.
Newline ==
  LET r == DoneInserting(State)
      again == mode = "movement"
  IN  /\ Counted
      /\ ed' = [ed EXCEPT !.text = <<>>, !.point = 0, !.mark = 0, !.undo = <<>>, !.level = r.ed.level]
      /\ mem' = [r.mem EXCEPT !.before = "i", !.marks = [n \in MarkName |-> -1],
                              !.uneven = @ \/ (again /\ mem.before = "C")]
      /\ mode' = "insertion" /\ done' = FALSE /\ base' = <<>>
      /\ change' = [change EXCEPT !.open = FALSE,
                      !.exact = /\ @ /\ (change.open => change.typed # <<>>)
                                /\ ~(again /\ ed.undo # <<>> /\ mem.before \in Inserters)
                                /\ mode # "replace"]
      /\ Says(Quiet)
      /\ UNCHANGED use

Next ==
  \/ Motion \/ PutNothing \/ Redo \/ Undoing \/ SetMark
  \/ \E key \in use.changers : Change(key)
  \/ Type \/ EditInserting \/ Overstrike \/ OverstrikeDelete \/ EditReplacing
  \/ MovementMode \/ Newline

Spec == Init /\ [][Next]_vars

-----------------------------------------------------------------------------
(* Properties *)

TypeOK ==
  /\ ed.point \in 0 .. Len(ed.text) /\ ed.mark \in 0 .. Len(ed.text)
  /\ mode \in {"insertion", "movement", "replace"}
  /\ mem.last \in Changers /\ mem.repeat \in Nat /\ commands \in 0 .. MaxCommands

\* In movement mode the cursor is on a character, whatever the command has done
\* at the end of the line; but for a put of nothing, which ends early.
OnCharacter ==
  mode = "movement" /\ said.what # "abort" => ed.point < Len(ed.text) \/ ed.text = <<>>

\* The records of the undo list give back the line it began with, one after the
\* other, whatever commands have changed the line.
AllUndone == FoldLeft(Unmade, ed, ed.undo).text = base

\* Commands and insertions leave no undo group open, so that u takes back one of
\* them.  (Not so after a group was undone from within, and after a line whose
\* last insertion was C is accepted in movement mode.)
GroupsClosed ==
  mode = "movement" /\ ~mem.uneven =>
    ed.level = 0 /\ Len(SelectSeq(ed.undo, LAMBDA r : r.what = "begin"))
                    = Len(SelectSeq(ed.undo, LAMBDA r : r.what = "end"))

\* Where words begin and end.
Class(t, i, big) == CASE Blank(Ch(t, i)) -> "blank" [] Ch(t, i) = Nul -> "none"
                      [] Ident(Ch(t, i)) \/ big -> "word" [] OTHER -> "punctuation"
Starts(t, big) == {i \in 0 .. Len(t) - 1 : Black(Ch(t, i)) /\ Class(t, i - 1, big) # Class(t, i, big)}
Ends(t, big) == {i \in 0 .. Len(t) - 1 : Black(Ch(t, i)) /\ Class(t, i + 1, big) # Class(t, i, big)}
Later(S, p) == {i \in S : i > p}
Earlier(S, p) == {i \in S : i < p}

\* w goes to the next beginning of a word, e to the next end, b to the last
\* beginning; but b passes over a word that begins in the second column.
WordsAsDefined(t, p, big) ==
  LET checked(q) == IF q = Len(t) THEN q - 1 ELSE q
      first(S) == IF S = {} THEN Len(t) - 1 ELSE FirstOf(S)
      last(S) == IF S = {} \/ LastOf(S) = 1 THEN 0 ELSE LastOf(S)
  IN  /\ checked(NextWord(t, p, big)) = first(Later(Starts(t, big), p))
      /\ checked(EndWord(t, p, big)) = first(Later(Ends(t, big), p))
      /\ BackWord(t, p, big) = last(Earlier(Starts(t, big), p))

\* Inside a word, cw changes what ce changes.
ChangesWord(key, big) ==
  Run(State, "c", [key |-> key, letter |-> Nul], 1, Nul, FALSE).ed.text
    = Run(State, "c", [key |-> IF big THEN "E" ELSE "e", letter |-> Nul], 1, Nul, FALSE).ed.text

\* The motions by words, and cw, do what the words of the line say (on the lines
\* editing begins with).
WordMotions ==
  mode = "movement" /\ ed.point < Len(ed.text) /\ commands = 0 =>
    \A big \in BOOLEAN :
      /\ WordsAsDefined(ed.text, ed.point, big)
      /\ Black(Ch(ed.text, ed.point)) /\ ed.point \notin Ends(ed.text, big) /\ ~Blank(Last(ed.text))
           => ChangesWord(IF big THEN "W" ELSE "w", big)

\* What holds between any two keys.
ViInvariant == TypeOK /\ OnCharacter /\ AllUndone /\ GroupsClosed /\ WordMotions

\* The line the last change makes of this one, when its keys are typed again.
Retyped(count, letter) ==
  LET n == IF change.key \in Inserters \cup {"R"} THEN Most(count, 1)
           ELSE IF count = 0 THEN change.count ELSE count
      again == Run(State, change.key, change.mot, IF change.key \in Inserters \cup {"R"} THEN 1 ELSE n,
                   change.arg, FALSE).ed
      text == change.typed
  IN  CASE change.key \in Inserters -> Repeat(LAMBDA e : InsertText(e, text), n, again).text
        [] change.key = "R" -> Repeat(LAMBDA d : FoldLeft(Overwrite, d, text), n, again).text
        [] OTHER -> InsertText(again, text).text

\* . does what typing the last change again would do, from wherever it is used
\* and with a count of its own: if the change was typed without corrections, no
\* longer than one undo record, and not with C; and if no other search for a
\* character has come in between.
RedoRepeats ==
  [][said'.what = "redo" /\ change.exact
       /\ (change.mot.key \in DOMAIN Dir => mem.target = change.mot.letter)
       /\ (change.mot.key = "goto" => said'.letter = change.mot.letter)
       => ed'.text = Retyped(said'.count, said'.letter)]_vars

\* y leaves the line and its undo list as they were, and takes what d would have
\* taken; but % takes one bracket less.
Copied(key, mot, count) ==
  Operate(State, "d", IF key = "Y" THEN "D" ELSE "d", mot, count, FALSE).ed.kill
YankTakes ==
  [][said'.what = "yank" =>
       /\ <<ed'.text, ed'.undo, ed'.level>> = <<ed.text, ed.undo, ed.level>>
       /\ said'.mot.key # "%" => ed'.kill = Copied(said'.key, said'.mot, said'.count)]_vars

=============================================================================
