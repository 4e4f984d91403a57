------------------------------ MODULE Display ------------------------------
(***************************************************************************)
(* Readline's display (display.c): the prompt and the line are drawn into  *)
(* the invisible line, which is compared row by row with the visible line, *)
(* what the terminal is believed to show, and the least that seems needed  *)
(* is written.  One byte is one column, long lines wrap, and the screen    *)
(* has room for all rows; the rows here are counted from that of the       *)
(* prompt.                                                                 *)
(***************************************************************************)
EXTENDS Integers, Sequences

CONSTANTS
  Width,       \* _rl_screenwidth
  Terminals,   \* the capabilities of the terminals
  Prompts,     \* prompts, as cells: "esc" is a character that is not visible
  Messages,    \* what rl_message shows
  Lines,       \* lines, as characters
  MaxLines     \* bound on the lines that are read

VARIABLES
  kind,      \* the terminal: [wraps, inserts, deletes, clears]
  prompts,   \* the prompt of readline, and what is displayed in its place
  line, point,
  display,   \* the terminal and the variables of display.c
  phase,     \* "fresh", "shown" or "accepted"
  lines,     \* the lines read so far
  miscounted \* history: what a miscount of invisible characters may have left
             \* wrong, the "screen" or the "cursor"

vars == <<kind, prompts, line, point, display, phase, lines, miscounted>>

Least(S) == CHOOSE x \in S : \A y \in S : x <= y
Least2(a, b) == IF a <= b THEN a ELSE b

-----------------------------------------------------------------------------
(* The terminal: a VT100, whose cursor stays behind the last column until   *)
(* the next character when it wraps lines.  Without that, readline leaves   *)
(* the last column alone.                                                   *)

Columns == IF kind.wraps THEN Width ELSE Width + 1
BlankRow == [i \in 1 .. Columns |-> " "]
BlankTerminal == [rows |-> <<BlankRow>>, row |-> 0, col |-> 0]

\* The column of the cursor when it is not asked to write.
Col(t) == Least2(t.col, Columns - 1)

Down(t) == [t EXCEPT !.row = @ + 1,
                     !.rows = IF t.row + 2 > Len(@) THEN Append(@, BlankRow) ELSE @]

Put(t, c) ==
  IF c \in {"esc", "nul"} THEN t
  ELSE LET at == IF t.col = Columns THEN [Down(t) EXCEPT !.col = 0] ELSE t
       IN  [at EXCEPT !.rows[at.row + 1][at.col + 1] = c,
                      !.col = IF kind.wraps THEN @ + 1 ELSE Least2(@ + 1, Columns - 1)]

PutAll(t, s) ==
  LET f[i \in 0 .. Len(s)] == IF i = 0 THEN t ELSE Put(f[i - 1], s[i])
  IN  f[Len(s)]

WithRow(t, F(_)) == [t EXCEPT !.rows[t.row + 1] = [i \in 1 .. Columns |-> F(i)], !.col = Col(t)]

InsertBlanks(t, n) ==
  LET row == t.rows[t.row + 1]
  IN  WithRow(t, LAMBDA i : IF i <= Col(t) THEN row[i]
                            ELSE IF i <= Col(t) + n THEN " " ELSE row[i - n])
DeleteCells(t, n) ==
  LET row == t.rows[t.row + 1]
  IN  WithRow(t, LAMBDA i : IF i <= Col(t) THEN row[i]
                            ELSE IF i + n <= Columns THEN row[i + n] ELSE " ")
EraseToEol(t) ==
  LET row == t.rows[t.row + 1]
  IN  WithRow(t, LAMBDA i : IF i <= Col(t) THEN row[i] ELSE " ")

-----------------------------------------------------------------------------
(* The prompt and the invisible line *)

IsVisible(c) == c # "esc"

\* expand_prompt.  first is prompt_invis_chars_first_line, last
\* prompt_last_invisible, breaks local_prompt_newlines: a row of the prompt
\* takes the invisible characters behind it along.
ExpandPrompt(s) ==
  LET phys == LET f[i \in 0 .. Len(s)] ==
                    IF i = 0 THEN 0 ELSE f[i - 1] + (IF IsVisible(s[i]) THEN 1 ELSE 0)
              IN  f
      RowEnd(k) == Least({i \in 1 .. Len(s) : /\ phys[i] = k * Width
                                              /\ i = Len(s) \/ IsVisible(s[i + 1])})
      breaks == [k \in 1 .. phys[Len(s)] \div Width |-> RowEnd(k)]
      hidden == Len(s) - phys[Len(s)]
  IN  [text |-> s, vis |-> phys[Len(s)], breaks |-> breaks,
       last |-> IF hidden = 0 THEN 0
                ELSE (CHOOSE i \in 1 .. Len(s) : ~IsVisible(s[i])
                         /\ \A j \in i + 1 .. Len(s) : IsVisible(s[j])) - 1,
       first |-> IF phys[Len(s)] <= Width THEN hidden ELSE breaks[1] - phys[breaks[1]]]

Prompt == prompts[Len(prompts)]

\* wrap_offset, prompt_last_screen_line
Hidden(p) == Len(p.text) - p.vis
LastRow(p) == Len(p.breaks)

\* WRAP_OFFSET: the invisible characters of row l; W_OFFSET
WrapOffset(p, l, offset) ==
  CASE l = 0 -> IF offset = 0 THEN 0 ELSE IF p.vis > Width THEN p.first ELSE Hidden(p)
    [] l # 0 /\ l = LastRow(p) -> Hidden(p) - p.first
    [] OTHER -> 0
FirstOffset(l, offset) == IF l = 0 THEN offset ELSE 0

\* A bound: a prompt wider than a row has its invisible characters in its first
\* row.  In a later row _rl_last_c_pos is not corrected for them when the cursor
\* moves up to it.
ASSUME DisplayAssumption ==
  /\ Width \in Nat \ {0} /\ MaxLines \in Nat
  /\ \A s \in Prompts : Hidden(ExpandPrompt(s)) > 0 => Hidden(ExpandPrompt(s)) = ExpandPrompt(s).first
  /\ \A s \in Messages : Hidden(ExpandPrompt(s)) = 0

\* CHECK_LPOS
Full(lpos) == lpos >= Width

AddCell(s, c) ==
  LET buf == Append(s.buf, c)
      full == Full(s.lpos + 1)
  IN  [s EXCEPT !.buf = buf,
                !.breaks = IF full THEN Append(@, Len(buf)) ELSE @,
                !.lpos = IF full THEN 0 ELSE @ + 1]

\* What is drawn of a character of the line: a newline ends the row, a control
\* character takes two cells.
AddChar(s, c) ==
  CASE c = "nl" -> LET buf == Append(s.buf, "nul")
                   IN  [s EXCEPT !.buf = buf, !.breaks = Append(@, Len(buf)), !.lpos = 0]
    [] c = "ctl" -> AddCell(AddCell(s, "^"), "C")
    [] OTHER -> AddCell(s, c)

\* The first part of rl_redisplay: the invisible line, where its rows begin, and
\* the place of the cursor in it.
DrawEach(p, text) ==
  LET start == [buf |-> p.text, breaks |-> <<0>> \o p.breaks,
                lpos |-> p.vis - Width * Len(p.breaks)]
      f[i \in 0 .. Len(text)] == IF i = 0 THEN start ELSE AddChar(f[i - 1], text[i])
  IN  f
Drawn(all, upto) ==
  [buf |-> all.buf, breaks |-> Append(all.breaks, Len(all.buf)), bot |-> Len(all.breaks) - 1,
   cursor |-> Len(upto.buf), row |-> Len(upto.breaks) - 1]
DrawnFrom(each, n, at) == Drawn(each[n], each[at])
Draw(p, text, at) == DrawnFrom(DrawEach(p, text), Len(text), at)

-----------------------------------------------------------------------------
(* Moving and writing.  cpos is _rl_last_c_pos, an index into the row of    *)
(* the buffer; vpos is _rl_last_v_pos.                                      *)

Write(d, s) == [d EXCEPT !.t = PutAll(@, s), !.cpos = @ + Len(s)]
CarriageReturn(d) == [d EXCEPT !.t.col = 0, !.cpos = 0]
Backspace(d, n) == [d EXCEPT !.t.col = IF Col(d.t) > n THEN Col(d.t) - n ELSE 0]

\* _rl_move_vert.  The prompt is in the top row of the screen: the cursor does not
\* go above it.
MoveVert(d, to) ==
  IF to = d.vpos THEN d
  ELSE IF to > d.vpos
    THEN LET f[i \in 0 .. to - d.vpos] == IF i = 0 THEN d.t ELSE Down(f[i - 1])
         IN  CarriageReturn([d EXCEPT !.t = f[to - d.vpos], !.vpos = to])
    ELSE [d EXCEPT !.t = [@ EXCEPT !.row = IF @ > d.vpos - to THEN @ - (d.vpos - to) ELSE 0, !.col = Col(d.t)], !.vpos = to]

Cell(buf, i) == IF i < Len(buf) THEN buf[i + 1] ELSE "nul"
Cells(buf, from, to) == [i \in 1 .. (IF from < to THEN to - from ELSE 0) |-> Cell(buf, from + i - 1)]

\* Is the cursor behind the last column, where it must not be moved back from?
Pending(d, p) == kind.wraps /\ d.cpos - WrapOffset(p, d.vpos, Hidden(p)) = Width

\* _rl_move_cursor_relative, with CR_FASTER; the row begins at base in buf.
MoveFrom(d, new, buf, base) ==
  IF d.cpos < new THEN Write(d, Cells(buf, base + d.cpos, base + new))
  ELSE [Backspace(d, d.cpos - new) EXCEPT !.cpos = new]
MoveCursor(d, p, new, buf, base) ==
  IF new = d.cpos THEN d
  ELSE MoveFrom(IF new = 0 \/ new + 1 < d.cpos - new \/ Pending(d, p)
                  THEN CarriageReturn(d) ELSE d, new, buf, base)

SpaceToEol(d, n) == [Write(d, [i \in 1 .. (IF n > 0 THEN n ELSE 0) |-> " "]) EXCEPT !.cpos = d.cpos + n]
ClearToEol(d, n) == IF kind.clears THEN [d EXCEPT !.t = EraseToEol(@)] ELSE SpaceToEol(d, n)

-----------------------------------------------------------------------------
(* update_line, for row k of the invisible line inv *)

VisibleLength(d, k) == IF k > d.bot THEN 0 ELSE d.breaks[k + 2] - d.breaks[k + 1]
OldCell(d, k, i) == IF k > d.bot THEN "nul" ELSE Cell(d.buf, d.breaks[k + 1] + i)

\* The cursor is behind the last column of the row above: the terminal is made
\* to wrap by writing the first cell, and the visible line is told of it.
Wraps(d, k, p) ==
  /\ kind.wraps /\ d.vpos = k - 1
  /\ d.cpos - WrapOffset(p, d.vpos, d.vwo) = Width

Wrap(d, inv, k) ==
  LET new == Cell(inv.buf, inv.breaks[k + 1])
  IN  [d EXCEPT !.t = Put(@, IF new = "nul" THEN " " ELSE new), !.cpos = 1, !.vpos = k,
                !.buf = IF "nul" \in {new, OldCell(d, k, 0)} THEN @
                        ELSE [@ EXCEPT ![d.breaks[k + 1] + 1] = new]]

\* The difference of the two rows: the first cell that differs, the end of
\* both, and where the cells from which on they are the same begin.  The
\* comparison from the left may run over the end of the new row.
Ends(d, inv, k, r) ==
  LET Old(i) == OldCell(d, k, i)
      New(i) == Cell(inv.buf, inv.breaks[k + 1] + i)
  IN  [r EXCEPT !.oe = Least({i \in r.same .. r.omax : i = r.omax \/ Old(i) = "nul"}),
                !.ne = IF r.same >= r.nmax THEN r.same
                       ELSE Least({i \in r.same .. r.nmax : i = r.nmax \/ New(i) = "nul"})]

\* How many cells at the ends are the same, the first difference aside.
SameTail(d, inv, k, r) ==
  Least({n \in 0 .. r.omax :
           \/ r.oe - 1 - n <= r.same \/ r.ne - 1 - n <= r.same
           \/ OldCell(d, k, r.oe - 1 - n) # Cell(inv.buf, inv.breaks[k + 1] + r.ne - 1 - n)})

WithTail(d, inv, k, r, tail) ==
  LET blank == \A n \in 1 .. tail : OldCell(d, k, r.oe - n) = " "
      differs == IF OldCell(d, k, r.oe - 1 - tail) = Cell(inv.buf, inv.breaks[k + 1] + r.ne - 1 - tail)
                   THEN 0 ELSE 1
      back == IF blank THEN 0 ELSE 1 + tail - differs
  IN  [r EXCEPT !.ols = r.oe - back, !.nls = r.ne - back]

Compare(d, inv, k, omax, nmax) ==
  LET same == Least({i \in 0 .. omax :
                       \/ i = omax \/ OldCell(d, k, i) = "nul"
                       \/ OldCell(d, k, i) # Cell(inv.buf, inv.breaks[k + 1] + i)})
  IN  [omax |-> omax, nmax |-> nmax, same |-> same, oe |-> 0, ne |-> 0, ols |-> 0, nls |-> 0]

Tails(d, inv, k, r) == WithTail(d, inv, k, r, SameTail(d, inv, k, r))
Difference(d, inv, k) ==
  LET nmax == inv.breaks[k + 2] - inv.breaks[k + 1]
  IN  Tails(d, inv, k, Ends(d, inv, k, Compare(d, inv, k, VisibleLength(d, k), nmax)))

\* clear_rest_of_line
ClearRest(d, inv, k, r) ==
  LET n == r.oe - r.ne
  IN  IF n = 0 THEN d
      ELSE IF kind.wraps /\ k < inv.bot THEN SpaceToEol(d, n) ELSE ClearToEol(d, n)

NewCells(inv, k, from, to) == Cells(inv.buf, inv.breaks[k + 1] + from, inv.breaks[k + 1] + to)

ClearIfShorter(d, inv, k, p, r) ==
  IF \/ r.nmax < r.omax
     \/ r.nmax - FirstOffset(k, Hidden(p)) < r.omax - FirstOffset(k, d.vwo)
    THEN ClearRest(d, inv, k, r) ELSE d

\* dumb_update: everything from the cell on.
Dumb(d, inv, k, p, r, from) ==
  ClearIfShorter(Write(d, NewCells(inv, k, from, r.ne)), inv, k, p, r)

\* _rl_quick_redisplay
Quick(d, inv, k, p, r) ==
  LET n == Len(p.text)
      begin == MoveCursor(d, p, 0, d.buf, 0)
  IN  IF r.ne < n THEN Dumb(begin, inv, k, p, r, 0)
      ELSE ClearIfShorter(Write([Write(begin, NewCells(inv, k, 0, n)) EXCEPT !.cpos = n],
                                NewCells(inv, k, n, r.ne)), inv, k, p, r)

\* How many cells the row grows by.
Growth(d, k, p, r) ==
  r.nls - r.ols + IF k = 0 THEN d.vwo - Hidden(p) ELSE 0

\* Insert cells, delete cells, or write over what is there; the cursor is at the
\* first difference, and the row grows by so many cells.
Replace(d, inv, k, p, r, growth) ==
  LET rows == k >= d.bot /\ inv.bot > d.bot
      inserts == /\ growth > 0 /\ kind.inserts /\ ~(kind.wraps /\ rows)
                 /\ OldCell(d, k, r.ols) # "nul" /\ d.vwo >= FirstOffset(k, Hidden(p))
      deletes == growth <= 0 /\ kind.deletes /\ 2 * (r.ne - r.same) >= -growth
      t == IF inserts THEN InsertBlanks(d.t, growth)
           ELSE IF deletes /\ growth < 0 /\ -growth <= Width THEN DeleteCells(d.t, -growth) ELSE d.t
      e == Write([d EXCEPT !.t = t],
                 NewCells(inv, k, r.same, IF inserts \/ deletes THEN r.nls ELSE r.ne))
  IN  IF growth > 0 \/ deletes THEN e ELSE ClearRest(e, inv, k, r)

ReplaceAt(d, inv, k, p, r) == Replace(d, inv, k, p, r, Growth(d, k, p, r))
Smart(d, inv, k, p, r) ==
  ReplaceAt(MoveCursor(d, p, r.same, d.buf, IF k > d.bot THEN 0 ELSE d.breaks[k + 1]), inv, k, p, r)

\* The prompt is written again when the cursor is among its invisible
\* characters, or when it differs there.
Reprints(d, k, p, r, n) ==
  /\ k = 0 /\ n > p.vis /\ d.cpos > 0
  /\ \/ r.same > 0 /\ r.same <= p.last
     \/ r.same >= n /\ d.cpos < p.last + 1

PromptAgain(d, p, n) ==
  [Write(CarriageReturn(d), SubSeq(p.text, 1, n)) EXCEPT !.cpos = n]

\* d is the display before the cursor moved to the row.
UpdateFrom(d, at, inv, k, p, r, n) ==
  LET prompt == Reprints(at, k, p, r, n)
      e == IF prompt THEN PromptAgain(at, p, n) ELSE at
  IN  IF r.same = r.oe /\ r.same = r.ne THEN d
      ELSE IF ~prompt \/ r.same > p.last THEN Smart(e, inv, k, p, r)
      ELSE IF r.omax = r.nmax /\ n > r.ols /\ n > r.nls THEN e
      ELSE Dumb(e, inv, k, p, r, n)

\* The invisible characters of the prompt count again in its first row.
MoveToRow(d, k, p) ==
  LET back == IF k = 0 /\ d.vpos # 0 THEN p.first ELSE 0
      vwo == IF k = 0 /\ d.vpos # 0 THEN p.first ELSE d.vwo
  IN  [MoveVert(d, k) EXCEPT !.vwo = vwo, !.cpos = @ + back]

UpdateWith(d, inv, k, p, r) ==
  IF d.quick THEN Quick(d, inv, k, p, [r EXCEPT !.same = 0])
  ELSE UpdateFrom(d, MoveToRow(d, k, p), inv, k, p, r, Least2(Len(p.text), r.nmax))

UpdateWrapped(d, inv, k, p) == UpdateWith(d, inv, k, p, Difference(d, inv, k))
UpdateLine(d, inv, k, p) ==
  UpdateWrapped(IF Wraps(d, k, p) THEN Wrap(d, inv, k) ELSE d, inv, k, p)

-----------------------------------------------------------------------------
(* rl_redisplay *)

\* The first row ends, and the prompt shown before had fewer invisible
\* characters: what is behind it is cleared.
ClearFirst(d, inv, p) ==
  IF /\ inv.bot = 0 /\ d.cpos = Len(inv.buf)
     /\ Hidden(p) > d.vwo /\ d.cpos < d.first
    THEN ClearToEol(d, Width + Hidden(p) - d.cpos) ELSE d

FirstUpdated(d, inv, p) ==
  [ClearFirst(d, inv, p) EXCEPT
     !.first = IF inv.bot > 0 THEN inv.breaks[2] ELSE Len(inv.buf) - Hidden(p)]

UpdateRows(d, inv, p) ==
  LET f[k \in 0 .. inv.bot] == IF k = 0 THEN FirstUpdated(UpdateLine(d, inv, 0, p), inv, p)
                               ELSE UpdateLine(f[k - 1], inv, k, p)
  IN  f[inv.bot]

\* Mutated form: the rows that are left over are not cleared.
RowsLeft(d, inv, p) == d

\* The rows of the visible line that the new one does not have are cleared.
ClearRows(d, inv, p) ==
  LET text(k) == Least({i \in 0 .. VisibleLength(d, k) :
                          i = VisibleLength(d, k) \/ OldCell(d, k, i) = "nul"})
      f[k \in inv.bot .. d.bot] ==
        IF k = inv.bot THEN d
        ELSE LET e == MoveCursor(MoveVert(f[k - 1], k), p, 0, d.buf, d.breaks[k + 1])
             IN  ClearToEol(e, IF k = d.bot THEN text(k) ELSE Width)
  IN  IF d.bot > inv.bot THEN f[d.bot] ELSE d

\* The cursor goes to its row, the prompt is written again if the cursor is
\* among its invisible characters, and the cursor goes to its place in the row.
ToCursorRow(d, inv, hidden) ==
  IF d.vpos = inv.row THEN d ELSE [MoveVert(d, inv.row) EXCEPT !.cpos = @ + hidden]
PromptAround(d, p, hidden) ==
  IF hidden > 0 /\ d.cpos > 0 /\ d.cpos < p.last + 1 THEN PromptAgain(d, p, Len(p.text)) ELSE d
ToCursor(d, inv, p, hidden, base) ==
  LET at == inv.cursor - base
  IN  MoveCursor(IF hidden > 0 /\ at < d.cpos THEN [Backspace(d, d.cpos - at) EXCEPT !.cpos = at]
                 ELSE d, p, at, inv.buf, base)
PlaceCursor(d, inv, p) ==
  LET hidden == FirstOffset(inv.row, Hidden(p))
  IN  ToCursor(PromptAround(ToCursorRow(d, inv, hidden), p, hidden), inv, p, hidden,
               inv.breaks[inv.row + 1])

\* The invisible line becomes the visible one.
Swap(d, inv, p) ==
  [d EXCEPT !.buf = inv.buf, !.breaks = inv.breaks, !.stale = Cell(d.buf, 0),
            !.vwo = Hidden(p), !.fixed = FALSE, !.forced = FALSE, !.quick = FALSE]

Rows(d, inv, p) == [ClearRows(UpdateRows(d, inv, p), inv, p) EXCEPT !.bot = inv.bot]

\* With rl_display_fixed the terminal is left alone, unless the first cell of
\* the invisible line, as the last redisplay left it, is another.
RedisplayAs(d, p, inv) ==
  LET fixed == d.fixed /\ Cell(d.buf, 0) = d.stale /\ ~d.forced
  IN  Swap(IF fixed THEN d
           ELSE PlaceCursor(Rows([d EXCEPT !.quick = @ /\ inv.bot = 0], inv, p), inv, p), inv, p)
Redisplay(d, p, text, at) == RedisplayAs(d, p, Draw(p, text, at))

-----------------------------------------------------------------------------
(* A line begins, and the display is used by the commands *)

\* rl_on_new_line
OnNewLine(d) == [d EXCEPT !.buf = <<>>, !.breaks = <<0, 0>>, !.bot = 0,
                          !.cpos = 0, !.vpos = 0, !.vwo = 0]

\* rl_forced_update_display
ForcedUpdate(d, p, text, at) ==
  Redisplay([OnNewLine(d) EXCEPT !.forced = TRUE, !.stale = @], p, text, at)

Blank == OnNewLine([t |-> BlankTerminal, cpos |-> 0, vpos |-> 0, buf |-> <<>>, breaks |-> <<0, 0>>,
                    bot |-> 0, vwo |-> 0, first |-> 0, fixed |-> FALSE, forced |-> TRUE,
                    stale |-> "nul", quick |-> FALSE])

Init ==
  /\ kind \in Terminals
  /\ \E s \in Prompts : prompts = <<ExpandPrompt(s)>>
  /\ line = <<>> /\ point = 0
  /\ display = Blank
  /\ phase = "fresh" /\ lines = 0 /\ miscounted = {}

\* readline_internal_setup, with what rl_reset_line_state did before: the prompt
\* is shown where the cursor is.
Begin ==
  /\ phase = "fresh"
  /\ display' = Redisplay([OnNewLine([display EXCEPT !.t = BlankTerminal]) EXCEPT !.forced = TRUE],
                          Prompt, line, point)
  /\ phase' = "shown" /\ miscounted' = {}
  /\ UNCHANGED <<kind, prompts, line, point, lines>>

\* A message and a prompt with invisible characters take each other's place.
\* Unless both take one row and the terminal clears to the end of a row,
\* update_line counts cells that were not visible.
SwitchMiscounts ==
  /\ Hidden(prompts[1]) > 0
  /\ ~(kind.clears /\ display.bot = 0 /\ display'.bot = 0)
Switched == miscounted' = IF SwitchMiscounts THEN {"screen", "cursor"} ELSE {}

\* A bound: a display that may be wrong is followed no further than to the next
\* clear-screen or the next line.
Followed == phase = "shown" /\ miscounted = {}

\* A command leaves any line and any point; rl_redisplay follows.
Edit ==
  /\ Followed
  /\ \E new \in Lines : \E at \in 0 .. Len(new) :
       /\ line' = new /\ point' = at
       /\ display' = Redisplay(display, Prompt, new, at)
  /\ UNCHANGED <<kind, prompts, phase, lines, miscounted>>

\* _rl_erase_at_end_of_line(1): what is taken from the visible line is counted
\* from its beginning.
EraseAtEnd(d) ==
  LET left == Backspace(d, 1)
      over == Backspace([left EXCEPT !.t = Put(@, " ")], 1)
  IN  [over EXCEPT !.cpos = @ - 1,
                   !.buf = IF d.cpos <= Len(@) THEN [@ EXCEPT ![d.cpos] = "nul"] ELSE @,
                   !.fixed = TRUE]

\* rl_rubout of the last character.
Rubout ==
  /\ Followed /\ point = Len(line) /\ point > 0
  /\ LET new == SubSeq(line, 1, point - 1)
         erases == line[point] # "ctl" /\ line[point] # "nl" /\ display.cpos > 0
     IN  /\ line' = new /\ point' = point - 1
         /\ display' = Redisplay(IF erases THEN EraseAtEnd(display) ELSE display,
                                 Prompt, new, point - 1)
  /\ UNCHANGED <<kind, prompts, phase, lines, miscounted>>

\* rl_message, also from rl_display_search, which asks for a quick redisplay of
\* a line of one row.
Message ==
  /\ Followed
  /\ \E s \in Messages, new \in Lines, quick \in BOOLEAN : \E at \in 0 .. Len(new) :
       /\ quick => display.bot = 0
       /\ prompts' = <<prompts[1], ExpandPrompt(s)>>
       /\ line' = new /\ point' = at
       /\ display' = Redisplay([display EXCEPT !.quick = quick], Prompt', new, at)
  /\ UNCHANGED <<kind, phase, lines>>
  /\ IF Len(prompts) = 1 THEN Switched ELSE UNCHANGED miscounted

\* rl_clear_message
ClearMessage ==
  /\ Followed /\ Len(prompts) = 2
  /\ prompts' = <<prompts[1]>>
  /\ display' = Redisplay(display, Prompt', line, point)
  /\ UNCHANGED <<kind, line, point, phase, lines>>
  /\ Switched

\* rl_clear_visible_line
ClearVisible(d) ==
  LET f[i \in 0 .. d.bot + 1] ==
        IF i = 0 THEN MoveVert(CarriageReturn(d), d.bot)
        ELSE LET e == ClearToEol(MoveVert(f[i - 1], d.bot + 1 - i), Width)
             IN  [e EXCEPT !.t.col = 0]
  IN  f[d.bot + 1]

\* With invisible characters in the prompt and a line of several rows,
\* visible_wrap_offset is 0 while rl_forced_update_display draws the first row,
\* and the cursor is left in a wrong column.
MadeAnew ==
  miscounted' = IF Hidden(Prompt) = 0 \/ display.bot = 0 THEN {} ELSE {"cursor"}

\* The display is made anew by rl_forced_update_display, and again by
\* rl_redisplay after the command, with rl_display_fixed.
Anew(d) ==
  Redisplay([ForcedUpdate(d, Prompt, line, point) EXCEPT !.fixed = TRUE], Prompt, line, point)

\* rl_refresh_line
Refresh ==
  /\ Followed
  /\ display' = Anew(ClearVisible(display))
  /\ MadeAnew
  /\ UNCHANGED <<kind, prompts, line, point, phase, lines>>

\* rl_clear_screen, and a list of completions, below which the line is shown.
ClearScreen ==
  /\ phase = "shown"
  /\ display' = Anew([display EXCEPT !.t = BlankTerminal])
  /\ MadeAnew
  /\ UNCHANGED <<kind, prompts, line, point, phase, lines>>

\* rl_crlf
Crlf(d) == [d EXCEPT !.t = [Down(@) EXCEPT !.col = 0]]

\* Mutated form: a last row that is empty is left by a further line.
FinalKeepsEmpty(d, p) ==
  LET m == MoveVert(d, d.bot)
  IN  [Crlf(m) EXCEPT !.bot = 0, !.fixed = TRUE]

\* _rl_update_final: the cursor goes below the line.  A row that is full is
\* rewritten at its end, so that the terminal does not wrap it.
Unwrap(d, p, last, base) ==
  [ClearToEol(MoveCursor(d, p, last, d.buf, base), 0) EXCEPT !.t = Put(@, Cell(d.buf, base + last))]
EndOfLine(d, length) ==
  [IF length > 0 \/ d.cpos > 0 THEN Crlf(d) ELSE d EXCEPT !.bot = 0, !.fixed = TRUE]
FinalRow(d, p, empty, length) ==
  EndOfLine(IF empty /\ kind.wraps /\ length = Width
              THEN Unwrap(d, p, Width - 1 + FirstOffset(d.bot, Hidden(p)), d.breaks[d.bot + 1])
              ELSE d, length)
UpdateFinal(d, p) ==
  LET empty == d.bot > 0 /\ d.cpos = 0 /\ OldCell(d, d.bot, 0) = "nul"
      bot == IF empty THEN d.bot - 1 ELSE d.bot
  IN  FinalRow(MoveVert([d EXCEPT !.bot = bot], bot), p, empty,
               VisibleLength(d, bot) - FirstOffset(bot, Hidden(p)))

\* rl_newline
Accept ==
  /\ phase = "shown" /\ Len(prompts) = 1
  /\ display' = UpdateFinal(display, Prompt)
  /\ phase' = "accepted"
  /\ UNCHANGED <<kind, prompts, line, point, lines, miscounted>>

\* readline is called again.
NextLine ==
  /\ phase = "accepted" /\ lines < MaxLines
  /\ lines' = lines + 1
  /\ \E s \in Prompts : prompts' = <<ExpandPrompt(s)>>
  /\ line' = <<>> /\ point' = 0
  /\ phase' = "fresh"
  /\ UNCHANGED <<kind, display, miscounted>>

Next ==
  \/ Begin \/ Edit \/ Rubout \/ Message \/ ClearMessage
  \/ Refresh \/ ClearScreen \/ Accept \/ NextLine

Spec == Init /\ [][Next]_vars

-----------------------------------------------------------------------------
(* Properties *)

\* Where a cell lies that follows the cells s of the prompt and the line.
PlaceAfter(s) ==
  LET f[i \in 0 .. Len(s)] ==
        IF i = 0 THEN <<0, 0>>
        ELSE CASE s[i] = "esc" -> f[i - 1]
               [] s[i] = "nl" -> <<f[i - 1][1] + 1, 0>>
               [] OTHER -> IF f[i - 1][2] + 1 = Width THEN <<f[i - 1][1] + 1, 0>>
                           ELSE <<f[i - 1][1], f[i - 1][2] + 1>>
  IN  f

\* What is written of the line: a control character as two cells.
Written(s) ==
  LET f[i \in 0 .. Len(s)] ==
        IF i = 0 THEN <<>> ELSE IF s[i] = "ctl" THEN f[i - 1] \o <<"^", "C">> ELSE Append(f[i - 1], s[i])
  IN  f[Len(s)]

\* The terminal shows the cells s and nothing else.
Shows(t, s) ==
  LET place == PlaceAfter(s)
      shown == {i \in 1 .. Len(s) : s[i] \notin {"esc", "nl"}}
      at == [i \in shown |-> place[i - 1]]
      used == {at[i] : i \in shown}
  IN  /\ \A i \in shown : /\ at[i][1] < Len(t.rows)
                          /\ t.rows[at[i][1] + 1][at[i][2] + 1] = s[i]
      /\ \A r \in 1 .. Len(t.rows), c \in 1 .. Columns :
           t.rows[r][c] # " " => <<r - 1, c - 1>> \in used

\* A redisplay leaves on the terminal the prompt and the line, wrapped at its
\* width, and nothing of what was shown before, unless a switch between a message
\* and a prompt with invisible characters was miscounted.
ScreenShowsLine ==
  phase = "shown" /\ "screen" \notin miscounted => Shows(display.t, Prompt.text \o Written(line))

\* The cursor is at the point, unless invisible characters were miscounted so, or
\* when a line of several rows was drawn anew.
CursorAtPoint ==
  phase = "shown" /\ miscounted = {} =>
    LET before == Prompt.text \o Written(SubSeq(line, 1, point))
        place == PlaceAfter(before)[Len(before)]
    IN  display.t.row = place[1] /\ Col(display.t) = place[2]

\* What a redisplay leaves on the terminal; clear-screen mends whatever was wrong
\* with a line of one row, or with a prompt that is visible.
RedisplayInvariant == ScreenShowsLine /\ CursorAtPoint

\* An accepted line stays on the terminal as it was shown, unless it was
\* miscounted, and the cursor is at the beginning of the first row below it.
AcceptedLineStays ==
  phase = "accepted" /\ miscounted = {} =>
    LET all == Prompt.text \o Written(line)
        end == PlaceAfter(all)[Len(all)]
    IN  /\ Shows(display.t, all)
        /\ display.t.col = 0
        /\ display.t.row = end[1] + IF end[2] = 0 THEN 0 ELSE 1
=============================================================================
