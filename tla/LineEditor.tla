----------------------------- MODULE LineEditor ------------------------------
(***************************************************************************)
(* The line GNU readline edits, its undo lists and the history it moves    *)
(* in: text.c, undo.c, the history commands of misc.c, and the end of      *)
(* readline() in readline.c, as operators on the state of the library.     *)
(*                                                                         *)
(* Every change of the line puts a record on its undo list.  When the user *)
(* moves to another line of the history, the edited text and the list are  *)
(* left in the entry (or in the saved line, for the line being typed), so  *)
(* that the change can still be undone there.  Lists are pointers to       *)
(* records in memory that is allocated and freed, and an entry and the     *)
(* line may hold the same pointer.                                         *)
(***************************************************************************)
EXTENDS Integers, Sequences, SequencesExt, FiniteSets

CONSTANTS
  Char,        \* the characters
  MergeLimit,  \* the longest record a typed character is merged into, 20
  MaxRecords   \* bound: the undo records in memory

ASSUME LineEditorAssumption == {MergeLimit, MaxRecords} \subseteq Nat

NULL == 0
Pointer == 0 .. MaxRecords
Id == 1 .. MaxRecords

Free == [what |-> "free", start |-> 0, end |-> 0, text |-> <<>>, next |-> NULL]

\* An entry of the history: its line, and its data, an undo list.
Entry == [line : Seq(Char), data : Pointer]

\* the_line, rl_point, rl_undo_list, the_history, history_offset, the saved
\* line (at most one) and the records in memory.
Editor ==
  [text : Seq(Char), point : Nat, undo : Pointer, list : Seq(Entry),
   offset : Nat, saved : {<<>>} \cup [{1} -> Entry],
   rec : [Id -> [what : {"free", "insert", "delete", "begin", "end"},
                 start : Nat, end : Nat, text : Seq(Char), next : Pointer]]]

OnEntry(e) == e.offset < Len(e.list)
Current(e) == e.list[e.offset + 1]

\* Where the line is in view: an entry, or the line being typed, after them.
Place(e) == e.offset + 1

\* The records of a list, newest first.
Chain(e, p) ==
  LET from[q \in Pointer] == IF q = NULL THEN <<>> ELSE <<q>> \o from[e.rec[q].next]
  IN  from[p]

-----------------------------------------------------------------------------
(* Undo lists: undo.c *)

FreeIds(e) == {i \in Id : e.rec[i].what = "free"}

AddUndo(e, what, start, end, text) ==
  LET i == CHOOSE i \in FreeIds(e) : \A j \in FreeIds(e) : i <= j
  IN  [e EXCEPT !.rec[i] = [what |-> what, start |-> start, end |-> end,
                            text |-> text, next |-> e.undo],
                !.undo = i]

Group(e, what) == AddUndo(e, what, 0, 0, <<>>)

\* _rl_free_undo_list.
FreeChain(e, p) ==
  LET ids == Range(Chain(e, p))
  IN  [e EXCEPT !.rec = [i \in Id |-> IF i \in ids THEN Free ELSE e.rec[i]]]

\* _hs_replace_history_data with -1: in every entry.
ReplaceData(e, old, new) ==
  [e EXCEPT !.list = [k \in DOMAIN e.list |->
     IF e.list[k].data = old THEN [e.list[k] EXCEPT !.data = new] ELSE e.list[k]]]

\* rl_free_undo_list.
FreeUndoList(e) ==
  ReplaceData([FreeChain(e, e.undo) EXCEPT !.undo = NULL], e.undo, NULL)

Clip(n, text) == IF n > Len(text) THEN Len(text) ELSE n
With(text, at, new) == SubSeq(text, 1, at) \o new \o SubSeq(text, at + 1, Len(text))
Without(text, from, to) == SubSeq(text, 1, from) \o SubSeq(text, to + 1, Len(text))

\* The text, and the point, a record gives back.
UndoneText(text, r) ==
  CASE r.what = "delete" -> With(text, Clip(r.start, text), r.text)
    [] r.what = "insert" -> Without(text, Clip(r.start, text), Clip(r.end, text))
    [] OTHER -> text

UndonePoint(text, point, r) ==
  CASE r.what = "delete" -> Clip(r.start, text) + Len(r.text)
    [] r.what = "insert" -> Clip(r.start, UndoneText(text, r))
    [] OTHER -> point

\* An entry that holds the record undone gets the line and the rest of the list.
EntryTold(e, h) ==
  IF OnEntry(e) /\ Current(e).data = h
    THEN [e EXCEPT !.list[e.offset + 1] = [line |-> e.text, data |-> e.undo]]
    ELSE e

\* So does every other list of the record: entries, and the saved line.
OthersTold(e, h) ==
  LET told == ReplaceData(e, h, e.undo)
  IN  IF e.saved = <<>> THEN told
      ELSE [told EXCEPT
             !.saved[1].data = IF @ = h THEN e.undo ELSE @,
             !.rec = [i \in Id |->
                        IF i \in Range(Chain(e, e.saved[1].data)) /\ e.rec[i].next = h
                          THEN [e.rec[i] EXCEPT !.next = e.undo] ELSE e.rec[i]]]

\* One round of the loop of rl_do_undo.
UndoRecord(e) ==
  LET h == e.undo
      r == e.rec[h]
      undone == [e EXCEPT !.text = UndoneText(e.text, r),
                          !.point = UndonePoint(e.text, e.point, r),
                          !.undo = r.next]
  IN  [OthersTold(EntryTold(undone, h), h) EXCEPT !.rec[h] = Free]

\* rl_do_undo: one record, or a group from its end to its beginning.
DoUndo(e) ==
  LET Waiting(s) == LET w == s.ed.rec[s.ed.undo].what
                    IN  CASE w = "end" -> s.waiting + 1
                          [] w = "begin" /\ s.waiting > 0 -> s.waiting - 1
                          [] OTHER -> s.waiting
      Round(s, n) ==
        IF s.ed.undo = NULL \/ s.done THEN s
        ELSE [ed |-> UndoRecord(s.ed), waiting |-> Waiting(s), done |-> Waiting(s) = 0]
  IN  FoldLeft(Round, [ed |-> e, waiting |-> 0, done |-> FALSE], [n \in Id |-> n]).ed

\* rl_revert_line.
RevertLine(e) ==
  FoldLeft(LAMBDA d, n : IF d.undo = NULL THEN d ELSE DoUndo(d), e, [n \in Id |-> n])

-----------------------------------------------------------------------------
(* The text of the line: text.c *)

CanMerge(e, t) ==
  /\ Len(t) = 1
  /\ e.undo # NULL
  /\ LET r == e.rec[e.undo]
     IN  r.what = "insert" /\ r.end = e.point /\ r.end - r.start < MergeLimit

\* rl_insert_text: a character typed after another shares its record.
InsertText(e, t) ==
  LET noted == IF CanMerge(e, t) THEN [e EXCEPT !.rec[e.undo].end = @ + 1]
               ELSE AddUndo(e, "insert", e.point, e.point + Len(t), <<>>)
  IN  [noted EXCEPT !.text = With(e.text, e.point, t), !.point = @ + Len(t)]

\* rl_delete_text, and the point at the beginning of what is deleted.
DeleteText(e, from, to) ==
  [AddUndo(e, "delete", from, to, SubSeq(e.text, from + 1, to))
     EXCEPT !.text = Without(e.text, from, to), !.point = from]

-----------------------------------------------------------------------------
(* The line and the history: misc.c *)

\* Mutated form: the edited line is not left in its entry.
NothingReplaced(e) == e

\* rl_maybe_replace_line.
MaybeReplace(e) ==
  IF OnEntry(e) /\ Current(e).data # e.undo
    THEN [e EXCEPT !.list[e.offset + 1] = [line |-> e.text, data |-> e.undo]]
    ELSE e

\* rl_maybe_save_line.
MaybeSave(e) ==
  IF e.saved = <<>> THEN [e EXCEPT !.saved = <<[line |-> e.text, data |-> e.undo]>>]
                    ELSE e

\* rl_maybe_unsave_line.
MaybeUnsave(e) ==
  IF e.saved = <<>> THEN e
  ELSE [e EXCEPT !.text = e.saved[1].line, !.point = Len(e.saved[1].line),
                 !.undo = e.saved[1].data, !.saved = <<>>]

\* _rl_free_saved_history_line.
FreeSaved(e) ==
  IF e.saved = <<>> THEN e
  ELSE [FreeChain(e, e.saved[1].data) EXCEPT
          !.undo = IF @ = e.saved[1].data THEN NULL ELSE @, !.saved = <<>>]

\* previous_history or next_history to an entry, rl_replace_from_history and
\* _rl_history_set_point.
GoTo(e, offset) ==
  [e EXCEPT !.offset = offset, !.text = e.list[offset + 1].line,
            !.point = Len(e.list[offset + 1].line), !.undo = e.list[offset + 1].data]

\* rl_get_previous_history: a count that is too large stops at the first entry.
Backward(e, count) ==
  LET left == MaybeReplace(MaybeSave(e))
      gone == IF count > e.offset THEN 0 ELSE e.offset - count
  IN  CASE e.list = <<>> -> e
        [] e.list # <<>> /\ e.offset = 0 ->
             IF e.saved = <<>> THEN FreeSaved(left) ELSE left
        [] OTHER -> GoTo(left, gone)

\* rl_get_next_history: a count that is too large returns to the line that was
\* being typed.
Forward(e, count) ==
  LET left == MaybeReplace(e)
  IN  IF e.offset + count < Len(e.list) THEN GoTo(left, e.offset + count)
      ELSE MaybeUnsave([left EXCEPT !.offset = Len(e.list)])

\* readline_internal_teardown: the entry of the line gets back its first text.
Restored(e) ==
  IF ~OnEntry(e) \/ e.undo = NULL THEN e
  ELSE LET r == RevertLine(e)
       IN  [r EXCEPT !.list[e.offset + 1] = [line |-> r.text, data |-> NULL],
                     !.text = e.text]

\* _rl_revert_all_lines: every entry with a list is made the line, and undone.
RevertedEntries(e, newest) ==
  LET Revert(d, k) ==
        IF k > newest \/ d.list[k].data = NULL THEN d
        ELSE LET r == RevertLine([d EXCEPT !.text = d.list[k].line,
                                           !.undo = d.list[k].data,
                                           !.list[k].data = NULL])
             IN  [r EXCEPT !.list[k].line = r.text]
      shared == \E k \in DOMAIN e.list : e.list[k].data = e.undo
  IN  [FoldLeft(Revert, e, [k \in DOMAIN e.list |-> k])
         EXCEPT !.text = e.text, !.undo = IF shared THEN NULL ELSE e.undo]

RevertAll(e) == RevertedEntries(e, Len(e.list))

\* add_history, as the console calls it, then the next call of readline:
\* _rl_start_using_history and an empty line.
NextLine(e) ==
  LET list == IF e.text = <<>> THEN e.list
              ELSE Append(e.list, [line |-> e.text, data |-> NULL])
  IN  [FreeSaved(e) EXCEPT !.list = list, !.offset = Len(list),
                           !.text = <<>>, !.point = 0]

Accepted(e, all) ==
  NextLine(FreeUndoList(IF all THEN RevertAll(Restored(e)) ELSE Restored(e)))

\* What the library is when the first line is read, with a history.
Opened(history) ==
  [text |-> <<>>, point |-> 0, undo |-> NULL,
   list |-> [k \in DOMAIN history |-> [line |-> history[k], data |-> NULL]],
   offset |-> Len(history), saved |-> <<>>, rec |-> [i \in Id |-> Free]]

\* Whose list: an entry, or the saved line (0).
Heads(e) == [k \in 0 .. Len(e.list) |->
               IF k > 0 THEN e.list[k].data
               ELSE IF e.saved = <<>> THEN NULL ELSE e.saved[1].data]

\* The text a list gives back when all of it is undone.
Reverted(e, text, p) ==
  FoldLeft(LAMBDA t, i : UndoneText(t, e.rec[i]), text, Chain(e, p))

=============================================================================
