---------------------------- MODULE HistorySearch ----------------------------
(***************************************************************************)
(* Searching the history with GNU readline: incremental search             *)
(* (isearch.c), non-incremental search and the search for the entries that *)
(* have the beginning of the line (search.c, histsearch.c), with typing,   *)
(* the moves in the history and accept-line, over LineEditor: the first    *)
(* line that is read with a history.                                       *)
(***************************************************************************)
EXTENDS LineEditor, FiniteSetsExt

CONSTANTS
  Histories,   \* the histories a line may be read with
  Typed,       \* the characters that are typed into a line
  MaxText,     \* bound: the characters of the line typed
  MaxString,   \* bound: the characters of the string of the first search
  MaxSearches  \* bound: the searches of a run

ASSUME HistorySearchAssumption ==
  /\ Histories \subseteq Seq(Seq(Char) \ {<<>>})
  /\ Typed \subseteq Char
  /\ "none" \notin Char   \* NoString stands for a NULL pointer, which is no line
  /\ {MaxText, MaxString, MaxSearches} \subseteq Nat

VARIABLES
  editor,    \* the state of the library, see Editor
  mode,      \* "edit", the search that reads keys, or "accepted"
  context,   \* _rl_search_cxt of that search
  memory,    \* what the searches keep between commands and lines
  original,  \* history: the entries as they were added
  typed,     \* history: the text typed after the entries
  used       \* history: was a search used that is not incremental, on this line,
             \* or ever with an entry of the history in view? and all searches

vars == <<editor, mode, context, memory, original, typed, used>>

NoString == <<"none">>

\* Does string stand at index i (from 0) of line: STREQN (string, line + i, len).
At(string, line, i) ==
  i + Len(string) <= Len(line) /\ SubSeq(line, i + 1, i + Len(string)) = string

Matches(string, line) == {i \in 0 .. Len(line) : At(string, line, i)}

\* A record no list holds any more is forgotten: nothing reads it again.
Held(e) ==
  LET heads == Heads(e)
  IN  UNION {Range(Chain(e, p)) : p \in {e.undo} \cup {heads[k] : k \in DOMAIN heads}}

Swept(e) ==
  LET held == Held(e)
  IN  [e EXCEPT !.rec = [i \in Id |-> IF i \in held THEN e.rec[i] ELSE Free]]

\* A list that is still held has a record that was freed.
Dangling(e) == \E i \in Held(e) : e.rec[i].what = "free"

\* What the searches keep: last_isearch_string; noninc_search_string and
\* noninc_history_pos; and, between two commands of the last kind, the kind
\* (rl_last_func), history_search_string, _rl_history_search_pos, prev_line_found.
NoSearch == [kind |-> "other", string |-> <<>>, pos |-> 0, prev |-> NoString]

OtherCommand(m) == [m EXCEPT !.last = NoSearch]

-----------------------------------------------------------------------------
(* Incremental search: isearch.c *)

\* cxt->lines: the entries, then the line being typed.
Lines(e, cxt) == [k \in DOMAIN e.list |-> e.list[k].line] \o <<cxt.typed>>

\* _rl_isearch_init.
ISearchContext(e, reverse) ==
  [reverse |-> reverse, start |-> e.offset, point |-> e.point,
   typed |-> IF e.saved = <<>> THEN e.text ELSE e.saved[1].line,
   string |-> <<>>, pos |-> e.offset, found |-> e.offset, prev |-> NoString,
   sline |-> e.text, at |-> e.point, success |-> FALSE, failed |-> FALSE,
   \* history: the text before, with no search of another kind before it; did
   \* the search ever fail; were there only keys that add to the string?
   before |-> e.text, clean |-> ~used.line, missed |-> FALSE, plain |-> TRUE]

\* The context of a non-incremental search, _rl_nsearch_init.
NSearchContext(e, reverse) ==
  [reverse |-> reverse, start |-> e.offset, point |-> e.point,
   before |-> e.text, clean |-> ~used.line /\ ~OnEntry(e)]

NoContext == [before |-> <<>>]

Nearest(reverse, indices) == IF reverse THEN Max(indices) ELSE Min(indices)

\* Search the current line: the rest of the line of characters that is left,
\* in the direction of the search.
ScanLine(cxt) ==
  LET hits == {i \in Matches(cxt.string, cxt.sline) :
                 IF cxt.reverse THEN i <= cxt.at ELSE i >= cxt.at}
      limit == Len(cxt.sline) - Len(cxt.string) + 1
  IN  IF hits # {} THEN [cxt EXCEPT !.success = TRUE, !.at = Nearest(cxt.reverse, hits)]
      ELSE [cxt EXCEPT !.at = IF cxt.reverse THEN 0 ELSE Max({@, limit})]

\* Mutated form: a search backwards enters the next line at its beginning.
EnteredAtStart(reverse, string, line) == 0

\* Where the search of another line begins.
EnteredAt(reverse, string, line) == IF reverse THEN Len(line) - Len(string) ELSE 0

\* Move to the next line; copies of the line found, and lines that are shorter
\* than the string, are passed over.  At the limit the search fails, with the
\* last line that was looked at as the current one.
LineAfter(cxt, lines) ==
  LET beyond == IF cxt.reverse THEN 0 .. cxt.pos - 1 ELSE cxt.pos + 1 .. Len(lines) - 1
      wanted == {k \in beyond : lines[k + 1] # cxt.prev
                                /\ Len(cxt.string) <= Len(lines[k + 1])}
      next == Nearest(cxt.reverse, wanted)
  IN  IF wanted # {}
        THEN [cxt EXCEPT !.pos = next, !.sline = lines[next + 1],
                         !.at = EnteredAt(cxt.reverse, cxt.string, lines[next + 1])]
        ELSE [cxt EXCEPT !.failed = TRUE, !.missed = TRUE,
                         !.sline = IF beyond = {} THEN @
                                   ELSE lines[Nearest(~cxt.reverse, beyond) + 1]]

\* The loop at the end of _rl_isearch_dispatch.
SearchLoop(cxt, lines) ==
  LET Round(c, n) ==
        IF c.success \/ c.failed THEN c
        ELSE LET scanned == ScanLine(c)
             IN  IF scanned.success THEN scanned ELSE LineAfter(scanned, lines)
      begun == [cxt EXCEPT !.success = FALSE, !.failed = cxt.string = <<>>]
  IN  FoldLeft(Round, begun, [n \in 1 .. Len(lines) + 1 |-> n])

\* What the search may come to.  After a search forwards that failed on a line
\* shorter than the one before, a search backwards begins after the end of the
\* line, and whatever is in the memory there may match.
Searched(cxt, lines) ==
  {SearchLoop(cxt, lines)} \cup
  {[cxt EXCEPT !.success = TRUE, !.failed = FALSE, !.at = i] :
     i \in IF cxt.reverse /\ cxt.string # <<>> THEN Len(cxt.sline) + 1 .. cxt.at ELSE {}}

\* The context after the loop: what was found, or back to what was found before.
Settled(cxt, lines) ==
  IF cxt.success THEN [cxt EXCEPT !.found = cxt.pos, !.prev = lines[cxt.pos + 1]]
  ELSE [cxt EXCEPT !.pos = cxt.found]

\* The line found is displayed; the history stays where it is.
Shown(e, cxt, lines) ==
  IF cxt.success THEN [e EXCEPT !.text = lines[cxt.pos + 1], !.point = cxt.at] ELSE e

\* Bound: the strings of later searches are shorter.
StringLimit == MaxString + 1 - used.count

\* A key that changes the string, the direction or the place: the search goes on.
SearchOn(cxt) ==
  LET lines == Lines(editor, cxt)
  IN  /\ Len(cxt.string) <= StringLimit
      /\ \E c \in Searched(cxt, lines) :
           /\ context' = Settled(c, lines)
           /\ editor' = Shown(editor, c, lines)
      /\ UNCHANGED <<mode, memory, original, typed, used>>

\* rl_reverse_search_history and rl_forward_search_history.  Bound: the line is
\* the one cxt->lines has, as it is unless a non-incremental search put the line
\* that was typed elsewhere.
ISearch ==
  /\ mode = "edit"
  /\ used.count < MaxSearches
  /\ \E reverse \in BOOLEAN :
       LET e == MaybeReplace(editor)
           cxt == ISearchContext(e, reverse)
       IN  /\ e.text = Lines(e, cxt)[cxt.start + 1]
           /\ editor' = e
           /\ context' = cxt
  /\ mode' = "isearch"
  /\ memory' = OtherCommand(memory)
  /\ used' = [used EXCEPT !.count = @ + 1]
  /\ UNCHANGED <<original, typed>>

\* A character is added to the string.
ISearchChar ==
  /\ mode = "isearch"
  /\ \E c \in Char : SearchOn([context EXCEPT !.string = Append(@, c)])

\* The key of the same search again: the last string, or the next place.
ISearchAgain ==
  /\ mode = "isearch"
  /\ IF context.string = <<>>
       THEN /\ memory.isearch # NoString
            /\ SearchOn([context EXCEPT !.string = memory.isearch])
       ELSE /\ context.at <= MaxText + 1
            /\ SearchOn([context EXCEPT
                 !.plain = FALSE,
                 !.at = IF context.reverse THEN @ - 1
                        ELSE IF @ # Len(context.sline) THEN @ + 1 ELSE @])

\* The key of the search in the other direction.
ISearchSwitch ==
  /\ mode = "isearch"
  /\ SearchOn([context EXCEPT !.reverse = ~@, !.plain = FALSE])

\* DEL: the last character of the string goes, the place stays.
ISearchRubout ==
  /\ mode = "isearch"
  /\ SearchOn([context EXCEPT !.string = IF @ = <<>> THEN @ ELSE Front(@), !.plain = FALSE])

\* C-y, and C-w within a word: the rest of the line joins the string.
ISearchYank ==
  /\ mode = "isearch"
  /\ LET from == editor.point + Len(context.string)
     IN  SearchOn([context EXCEPT !.string = @ \o SubSeq(editor.text, from + 1, Len(editor.text)),
                                  !.plain = FALSE])

\* _rl_fix_point, after the point is set.
PointAt(e, point) == [e EXCEPT !.point = Clip(point, e.text)]

\* The line as it was.
PutBack(e, cxt) == [e EXCEPT !.text = Lines(e, cxt)[cxt.start + 1]]

\* Mutated form: C-g leaves the point where the string was found.
AbortedAt(cxt) == cxt.at

\* C-g: the line and the point as they were.
Aborted(cxt) == cxt.point

ISearchAbort ==
  /\ mode = "isearch"
  /\ editor' = PointAt(PutBack(editor, context), Aborted(context))
  /\ mode' = "edit"
  /\ context' = NoContext
  /\ UNCHANGED <<memory, original, typed, used>>

\* _rl_isearch_fini: back to the line the search began on, and from there to
\* the line found, as a command of the user would go.
ISearchEnd ==
  /\ mode = "isearch"
  /\ LET back == PutBack(editor, context)
         e == IF context.found < context.start
                THEN Backward(back, context.start - context.found)
              ELSE IF context.found > context.start
                THEN Forward(back, context.found - context.start)
              ELSE back
     IN  editor' = Swept(PointAt(e, context.at))
  /\ mode' = "edit"
  /\ memory' = [memory EXCEPT !.isearch = context.string]
  /\ context' = NoContext
  /\ UNCHANGED <<original, typed, used>>

-----------------------------------------------------------------------------
(* Non-incremental search: search.c and histsearch.c *)

\* The undo list of the line, unless the entry or the saved line holds it.
FreedForEntry(e, entry) ==
  LET kept == {NULL, entry.data} \cup {e.saved[k].data : k \in DOMAIN e.saved}
  IN  IF e.undo \in kept THEN e ELSE FreeUndoList(e)

\* make_history_line_current: the text of the entry replaces that of the line,
\* and the saved line is dropped without its undo list.
MakeCurrent(e, entry) ==
  LET freed == FreedForEntry(e, entry)
      begun == Group([freed EXCEPT !.point = 0], "begin")
      cut == IF e.text = <<>> THEN begun ELSE DeleteText(begun, 0, Len(e.text))
      replaced == InsertText(cut, entry.line)
  IN  IF Dangling(freed) THEN freed ELSE [Group(replaced, "end") EXCEPT !.saved = <<>>]

\* The offsets of the entries a search from pos finds, history_search.
Hits(e, string, pos, reverse) ==
  {k \in 0 .. Len(e.list) - 1 : /\ IF reverse THEN k <= pos ELSE k >= pos
                                /\ Matches(string, e.list[k + 1].line) # {}}

Step(reverse) == IF reverse THEN -1 ELSE 1

\* The point goes to what was found, the first place in the line or the last one, to
\* make a region of it (enable-active-region, as by default), but not to the end.
FoundAt(e, index) == IF index \in 1 .. Len(e.text) - 1 THEN index ELSE 0

\* noninc_dosearch: the editor, and where the search was successful.
NSearchFrom(e, string, pos, reverse) ==
  LET hits == Hits(e, string, pos + Step(reverse), reverse)
      k == Nearest(reverse, hits)
      entry == e.list[k + 1]
      made == MakeCurrent(e, entry)
  IN  IF hits = {} THEN [ed |-> [MaybeUnsave(e) EXCEPT !.point = 0], pos |-> pos]
      ELSE [ed |-> [made EXCEPT !.point = FoundAt(made, Nearest(reverse, Matches(string, entry.line)))],
            pos |-> k]

\* Bound: room for the records of a line that is replaced.
Room(e, n) == Cardinality(FreeIds(e)) >= n

\* A search that is not incremental is used, perhaps with an entry in view.
SearchUsed ==
  [line |-> TRUE, onEntry |-> used.onEntry \/ OnEntry(editor), count |-> used.count + 1]

\* The line buffer is used to read the string.
NSearch ==
  /\ mode = "edit"
  /\ used.count < MaxSearches
  /\ \E reverse \in BOOLEAN : context' = NSearchContext(editor, reverse)
  /\ editor' = Swept([MaybeSave(editor) EXCEPT !.undo = NULL, !.text = <<>>, !.point = 0])
  /\ mode' = "nsearch"
  /\ memory' = OtherCommand(memory)
  /\ used' = SearchUsed
  /\ UNCHANGED <<original, typed>>

NSearchChar ==
  /\ mode = "nsearch"
  /\ Len(editor.text) < StringLimit
  /\ Room(editor, 2)
  /\ \E c \in Char : editor' = InsertText(editor, <<c>>)
  /\ UNCHANGED <<mode, context, memory, original, typed, used>>

\* DEL takes back the last character of the string; C-u, and C-w in a string that
\* is one word, all of it.  What they remove stays in the undo list of the string.  (Bound: room,
\* so that a string is changed no more than a few times.)
NSearchRubout ==
  /\ mode = "nsearch"
  /\ editor.text # <<>>
  /\ Room(editor, 6)
  /\ \E from \in {0, Len(editor.text) - 1} : editor' = DeleteText(editor, from, Len(editor.text))
  /\ UNCHANGED <<mode, context, memory, original, typed, used>>

\* C-g, and DEL when there is no string.
NSearchAbort ==
  /\ mode = "nsearch"
  /\ editor' = Swept(PointAt(MaybeUnsave(editor), context.point))
  /\ mode' = "edit"
  /\ context' = NoContext
  /\ UNCHANGED <<memory, original, typed, used>>

\* _rl_nsearch_dosearch: an empty string stands for the last one, from where
\* that was found; the first empty string ends the search where it is.
NSearchReturn ==
  /\ mode = "nsearch"
  /\ Room(editor, 4)
  /\ IF editor.text # <<>>
       THEN LET s == NSearchFrom(FreeUndoList(editor), editor.text, context.start, context.reverse)
            IN  /\ editor' = Swept(s.ed)
                /\ memory' = [memory EXCEPT !.nsearch = editor.text, !.pos = s.pos]
     ELSE IF memory.nsearch # NoString
       THEN LET s == NSearchFrom(editor, memory.nsearch, memory.pos, context.reverse)
            IN  /\ editor' = Swept(s.ed)
                /\ memory' = [memory EXCEPT !.pos = s.pos]
     ELSE UNCHANGED <<editor, memory>>
  /\ mode' = "edit"
  /\ context' = NoContext
  /\ UNCHANGED <<original, typed, used>>

\* rl_noninc_forward_search_again and rl_noninc_reverse_search_again.
NSearchAgain ==
  /\ mode = "edit"
  /\ used.count < MaxSearches
  /\ memory.nsearch # NoString
  /\ Room(editor, 4)
  /\ \E reverse \in BOOLEAN :
       LET s == NSearchFrom(editor, memory.nsearch, memory.pos, reverse)
       IN  /\ editor' = Swept(s.ed)
           /\ memory' = [OtherCommand(memory) EXCEPT !.pos = s.pos]
  /\ used' = SearchUsed
  /\ UNCHANGED <<mode, context, original, typed>>

\* rl_history_search_reinit: the string is the line up to the point.
NewSearch(m, e, kind) ==
  [kind |-> kind, pos |-> e.offset, prev |-> NoString, string |-> SubSeq(e.text, 1, e.point)]

\* The indices at which a search of this kind finds the string in a line.
Finds(kind, string, line) ==
  {i \in Matches(string, line) : kind = "prefix" => i = 0}

\* rl_history_search_internal, once: past the entries that are copies of the one
\* found last, but to the last of these if there is no other.
HistorySearchFrom(e, s, reverse) ==
  LET hits == {k \in 0 .. Len(e.list) - 1 :
                 /\ IF reverse THEN k < s.pos ELSE k > s.pos
                 /\ Finds(s.kind, s.string, e.list[k + 1].line) # {}}
      others == {k \in hits : e.list[k + 1].line # s.prev}
      k == IF others # {} THEN Nearest(reverse, others) ELSE Nearest(~reverse, hits)
      entry == e.list[k + 1]
      saved == MaybeSave(e)
      point == IF s.kind = "prefix" THEN Len(s.string)
               ELSE IF others = {} THEN Len(entry.line)
               ELSE Nearest(reverse, Finds(s.kind, s.string, entry.line))
  IN  IF hits = {}
        THEN [ed |-> [MaybeUnsave(saved) EXCEPT !.point = Len(s.string)], search |-> s]
        ELSE [ed |-> [MakeCurrent(saved, entry) EXCEPT !.point = point],
              search |-> [s EXCEPT !.pos = k, !.prev = entry.line]]

\* history-search-backward and -forward, history-substring-search-backward and
\* -forward: after a command of another kind the search begins anew, and
\* without a string they move in the history.
HistorySearch ==
  /\ mode = "edit"
  /\ used.count < MaxSearches
  /\ Room(editor, 4)
  /\ \E kind \in {"prefix", "substring"}, reverse \in BOOLEAN :
       LET anew == memory.last.kind # kind
           e == IF anew THEN FreeSaved(editor) ELSE editor
           s == IF anew THEN NewSearch(memory, editor, kind) ELSE memory.last
           found == IF s.string # <<>> THEN HistorySearchFrom(e, s, reverse)
                    ELSE [ed |-> IF reverse THEN Backward(e, 1) ELSE Forward(e, 1), search |-> s]
       IN  /\ editor' = Swept(found.ed)
           /\ memory' = [memory EXCEPT !.last = found.search]
  /\ used' = SearchUsed
  /\ UNCHANGED <<mode, context, original, typed>>

-----------------------------------------------------------------------------
(* The other commands *)

\* self-insert.  Bound: before the searches, and one character into one entry
\* (what is typed into a record of an entry is in LineEditing).
Type ==
  /\ mode = "edit"
  /\ used.count = 0
  /\ IF OnEntry(editor)
       THEN editor.undo = NULL /\ \A k \in DOMAIN editor.list : editor.list[k].data = NULL
       ELSE Len(editor.text) < MaxText
  /\ Room(editor, 2)
  /\ \E c \in Typed : editor' = InsertText(editor, <<c>>)
  /\ typed' = IF OnEntry(editor) THEN typed ELSE editor'.text
  /\ memory' = OtherCommand(memory)
  /\ UNCHANGED <<mode, context, original, used>>

\* Bound: the point does not matter after the last search.
Move ==
  /\ mode = "edit"
  /\ used.count < MaxSearches
  /\ \E p \in 0 .. Len(editor.text) : editor' = [editor EXCEPT !.point = p]
  /\ memory' = OtherCommand(memory)
  /\ UNCHANGED <<mode, context, original, typed, used>>

MoveInHistory ==
  /\ mode = "edit"
  /\ editor' \in {Swept(Backward(editor, 1)), Swept(Forward(editor, 1))}
  /\ memory' = OtherCommand(memory)
  /\ UNCHANGED <<mode, context, original, typed, used>>

\* accept-line: the console adds the line to the history; the run ends.
Accept ==
  /\ mode = "edit"
  /\ mode' = "accepted"
  /\ editor' = Swept(Accepted(editor, FALSE))
  /\ original' = IF editor.text = <<>> THEN original ELSE Append(original, editor.text)
  /\ memory' = OtherCommand(memory)
  /\ UNCHANGED <<context, typed, used>>

Init ==
  /\ \E history \in Histories : editor = Opened(history) /\ original = history
  /\ mode = "edit"
  /\ context = NoContext
  /\ memory = [isearch |-> NoString, nsearch |-> NoString, pos |-> 0, last |-> NoSearch]
  /\ typed = <<>>
  /\ used = [line |-> FALSE, onEntry |-> FALSE, count |-> 0]

\* With a list that holds a freed record, the behaviour is not defined any more.
Next ==
  /\ ~Dangling(editor)
  /\ \/ ISearch \/ ISearchChar \/ ISearchAgain \/ ISearchSwitch \/ ISearchRubout
     \/ ISearchYank \/ ISearchAbort \/ ISearchEnd
     \/ NSearch \/ NSearchChar \/ NSearchRubout \/ NSearchAbort \/ NSearchReturn \/ NSearchAgain
     \/ HistorySearch \/ Type \/ Move \/ MoveInHistory \/ Accept

Spec == Init /\ [][Next]_vars

-----------------------------------------------------------------------------
(* Properties *)

TypeOK ==
  /\ editor.text \in Seq(Char)
  /\ mode # "isearch" /\ ~Dangling(editor) => editor.point \in 0 .. Len(editor.text)
  /\ editor.undo \in Pointer
  /\ editor.list \in Seq(Entry)
  /\ editor.offset \in 0 .. Len(editor.list)
  /\ mode \in {"edit", "isearch", "nsearch", "accepted"}
  /\ mode = "isearch" => /\ context.found \in 0 .. Len(editor.list)
                         /\ context.pos = context.found
                         /\ context.at >= 0
  /\ memory.last.pos \in 0 .. Len(editor.list)
  /\ memory.pos \in 0 .. Len(editor.list)

\* The line displayed during an incremental search has the string at the point.
Displayed == At(context.string, editor.text, editor.point)

\* As long as an incremental search has never failed, the line displayed is the
\* line found, with the string at the point, whatever keys went before.
FoundMatches ==
  mode = "isearch" /\ context.success /\ ~context.missed =>
    /\ editor.text = Lines(editor, context)[context.found + 1]
    /\ Displayed

\* The places where the string stands, on the side of the start the search goes to.
Places(cxt, lines) ==
  {p \in (DOMAIN lines) \X (0 .. Max({Len(lines[k]) : k \in DOMAIN lines})) :
     /\ At(cxt.string, lines[p[1]], p[2])
     /\ IF cxt.reverse
          THEN p[1] <= cxt.start \/ (p[1] = cxt.start + 1 /\ p[2] <= cxt.point)
          ELSE p[1] > cxt.start + 1 \/ (p[1] = cxt.start + 1 /\ p[2] >= cxt.point)}

\* Typing a string character by character finds what a search for all of it
\* finds: the nearest place, or none if there is none (no line being a copy of
\* another).
NearestFound ==
  mode = "isearch" /\ context.plain /\ context.string # <<>> =>
    LET lines == Lines(editor, context)
        places == Places(context, lines)
        After(p, q) == p[1] > q[1] \/ (p[1] = q[1] /\ p[2] >= q[2])
        first(p) == \A q \in places : IF context.reverse THEN After(p, q) ELSE After(q, p)
    IN  IsInjective(lines) =>
          IF places = {} THEN context.failed
          ELSE \E p \in places : /\ first(p)
                                 /\ context.success
                                 /\ context.found + 1 = p[1] /\ editor.point = p[2]

\* After incremental searches and moves the line that was typed is still there:
\* in view at the end of the history, and saved elsewhere.
TypedKept ==
  mode = "edit" /\ ~used.line =>
    IF OnEntry(editor) THEN editor.saved # <<>> /\ editor.saved[1].line = typed
                       ELSE editor.text = typed

\* Incremental searches, and other searches that begin on the line being typed,
\* free no record that is still in a list and change no entry for good: all of
\* them, edited or not, give back the lines that were accepted.
EntriesRestorable ==
  ~used.onEntry =>
    /\ ~Dangling(editor)
    /\ \A k \in DOMAIN editor.list :
         Reverted(editor, editor.list[k].line, editor.list[k].data) = original[k]

\* Searching loses no line: neither the one being typed nor an entry.
LinesKept == TypedKept /\ EntriesRestorable

\* From one search for the beginning of the line to the next, the line begins
\* with what the user typed and the point is behind it.
PrefixKept ==
  memory.last.kind = "prefix" /\ memory.last.string # <<>> /\ ~Dangling(editor) =>
    /\ SubSeq(editor.text, 1, Len(memory.last.string)) = memory.last.string
    /\ editor.point = Len(memory.last.string)

\* What is displayed while and after a search, and what is kept behind it.
SearchInvariant == TypeOK /\ FoundMatches /\ NearestFound /\ PrefixKept /\ LinesKept

\* C-g gives back the line and the point: in an incremental search anywhere, in
\* a non-incremental one on the line being typed, if there was no search before
\* that was not incremental.
AbortRestores ==
  [][(ISearchAbort \/ NSearchAbort) /\ context.clean
       => editor'.text = context.before /\ editor'.point = context.point]_vars

=============================================================================
