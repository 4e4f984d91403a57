----------------------------- MODULE LineEditing -----------------------------
(***************************************************************************)
(* Editing lines one after another with GNU readline, as the console does: *)
(* the commands that change the line, undo, the moves in the history, and  *)
(* accepting the line, over LineEditor.                                    *)
(***************************************************************************)
EXTENDS LineEditor

CONSTANTS
  Insertions,  \* the texts inserted at once: one character typed, or a yank
  Cases,       \* what upcase-word and downcase-word make of a character
  Loaded,      \* the history when the first line is read
  MaxText,     \* bound: the characters of a line
  MaxEntries   \* bound: the entries of the history

ASSUME LineEditingAssumption ==
  /\ Insertions \subseteq Seq(Char) \ {<<>>}
  /\ Cases \subseteq [Char -> Char]
  /\ Loaded \in Seq(Seq(Char))
  /\ {MaxText, MaxEntries} \subseteq Nat

VARIABLES
  editor,    \* the state of the library, see Editor
  original,  \* history: the entries as they were added
  view,      \* history: the text the user last saw on each line
  merged     \* history: was a character merged into a record of an entry?

vars == <<editor, original, view, merged>>

-----------------------------------------------------------------------------
(* Commands *)

Init ==
  /\ editor = Opened(Loaded)
  /\ original = Loaded
  /\ view = Append(Loaded, <<>>)
  /\ merged = FALSE

\* Bound: a change noted in one record leaves another for a group.
Room(n) == Cardinality(FreeIds(editor)) >= n
RoomForOne == Room(2)

\* A command on the text of the line: what the user sees is what it leaves.
Edit(e) ==
  /\ editor' = e
  /\ view' = [view EXCEPT ![Place(editor)] = e.text]
  /\ UNCHANGED original

\* self-insert and yank.
Insert ==
  \E t \in Insertions :
    /\ Len(editor.text) + Len(t) <= MaxText
    /\ RoomForOne
    /\ Edit(InsertText(editor, t))
    /\ merged' = (merged \/ ( /\ CanMerge(editor, t)
                              /\ OnEntry(editor)
                              /\ Current(editor).data = editor.undo))

\* delete-char, backward-delete-char and the kill commands, from the point to
\* another place.
Erase ==
  /\ RoomForOne
  /\ \E p \in 0 .. Len(editor.text) \ {editor.point} :
       LET from == IF p < editor.point THEN p ELSE editor.point
           to == IF p < editor.point THEN editor.point ELSE p
       IN  Edit(DeleteText(editor, from, to))
  /\ UNCHANGED merged

\* kill-whole-line.
KillWholeLine ==
  /\ Room(3)
  /\ LET begun == Group([editor EXCEPT !.point = 0], "begin")
     IN  Edit(Group(IF editor.text = <<>> THEN begun
                    ELSE DeleteText(begun, 0, Len(editor.text)), "end"))
  /\ UNCHANGED merged

\* upcase-word and downcase-word: rl_modifying notes the change as a deletion
\* and an insertion, then the characters are changed in place.
ChangeCase ==
  /\ Room(4)
  /\ \E case \in Cases, end \in editor.point + 1 .. Len(editor.text) :
       LET start == editor.point
           old == SubSeq(editor.text, start + 1, end)
           begun == Group(editor, "begin")
           noted == Group(AddUndo(AddUndo(begun, "delete", start, end, old),
                                  "insert", start, end, <<>>), "end")
           new == [k \in DOMAIN editor.text |->
                     IF k \in start + 1 .. end THEN case[editor.text[k]]
                                               ELSE editor.text[k]]
       IN  Edit([noted EXCEPT !.text = new, !.point = end])
  /\ UNCHANGED merged

\* transpose-chars: the character before the point goes after the next one.
TransposeChars ==
  /\ Room(4)
  /\ editor.point > 0 /\ Len(editor.text) >= 2
  /\ LET at == IF editor.point = Len(editor.text) THEN editor.point - 1 ELSE editor.point
         cut == DeleteText(Group(editor, "begin"), at - 1, at)
         moved == InsertText([cut EXCEPT !.point = at], <<editor.text[at]>>)
     IN  Edit(Group(moved, "end"))
  /\ UNCHANGED merged

\* The commands that move the point.
Move ==
  /\ \E p \in 0 .. Len(editor.text) : editor' = [editor EXCEPT !.point = p]
  /\ UNCHANGED <<original, view, merged>>

\* undo and revert-line.
Undo ==
  /\ editor.undo # NULL
  /\ \/ Edit(DoUndo(editor))
     \/ Edit(RevertLine(editor))
  /\ UNCHANGED merged

\* previous-history, next-history, beginning-of-history and end-of-history.
MoveInHistory ==
  /\ \E count \in 1 .. Len(editor.list) + 1 :
       editor' \in {Backward(editor, count), Forward(editor, count)}
  /\ UNCHANGED <<original, view, merged>>

\* Mutated form: the next line is that of the entry accepted.
SameEntryNext(e, accepted) == Len(accepted.list) - e.offset

\* operate-and-get-next: how far back the next call of readline begins.
Back(e, accepted) == Len(accepted.list) - (e.offset + 1)

\* accept-line and operate-and-get-next.  The user expects the entry that was
\* edited, or with revert-all-at-newline every entry, to be as it was, and the
\* line accepted to be the last entry.
Accept ==
  /\ Len(editor.list) < MaxEntries
  /\ \E all \in BOOLEAN :
       LET accepted == Accepted(editor, all)
           back == Back(editor, accepted)
           new == IF editor.text = <<>> THEN <<>> ELSE <<editor.text>>
           kept == [k \in DOMAIN original |->
                      IF all \/ k = Place(editor) THEN original[k] ELSE view[k]]
       IN  /\ editor' \in {accepted,
                           IF back > 0 THEN Backward(accepted, back) ELSE accepted}
           /\ original' = original \o new
           /\ view' = kept \o new \o <<<<>>>>
  /\ UNCHANGED merged

Next ==
  \/ Insert \/ Erase \/ KillWholeLine \/ ChangeCase \/ TransposeChars
  \/ Move \/ Undo \/ MoveInHistory \/ Accept

Spec == Init /\ [][Next]_vars

-----------------------------------------------------------------------------
(* Properties *)

TypeOK ==
  /\ editor.text \in Seq(Char)
  /\ editor.point \in 0 .. Len(editor.text)
  /\ editor.undo \in Pointer
  /\ editor.list \in Seq(Entry)
  /\ editor.offset \in 0 .. Len(editor.list)
  /\ editor.saved \in {<<>>} \/ editor.saved[1] \in Entry
  /\ \A i \in Id : editor.rec[i].next \in Pointer
  /\ original \in Seq(Seq(Char)) /\ Len(original) = Len(editor.list)
  /\ view \in Seq(Seq(Char)) /\ Len(view) = Len(original) + 1
  /\ merged \in BOOLEAN

Records(p) == Range(Chain(editor, p))

LineHeads == Heads(editor)

\* Memory: no list holds a record that was freed, no record that was not freed
\* is in no list, and the only lists that share records are the line's and
\* that of its entry, which is a tail of it.  The types belong here, since they
\* say that every link leads to a record.
UndoMemory ==
  /\ TypeOK
  /\ {i \in Id : editor.rec[i].what # "free"}
       = Records(editor.undo) \cup UNION {Records(LineHeads[k]) : k \in DOMAIN LineHeads}
  /\ \A k, m \in DOMAIN LineHeads : k # m => Records(LineHeads[k]) \cap Records(LineHeads[m]) = {}
  /\ \A k \in DOMAIN LineHeads :
       IF OnEntry(editor) /\ k = Place(editor)
         THEN Records(LineHeads[k]) \subseteq Records(editor.undo)
         ELSE Records(LineHeads[k]) \cap Records(editor.undo) = {}

\* While no character was merged into a record of an entry, undoing takes every
\* line back to what it was: the entries, the saved line and the line itself.
UndoRestores ==
  ~merged =>
    /\ \A k \in DOMAIN editor.list :
         Reverted(editor, editor.list[k].line, editor.list[k].data) = original[k]
    /\ \A k \in DOMAIN editor.saved :
         Reverted(editor, editor.saved[k].line, editor.saved[k].data) = <<>>
    /\ Reverted(editor, editor.text, editor.undo)
         = IF OnEntry(editor) THEN original[Place(editor)] ELSE <<>>

\* The text kept for a line that is not in view.
Stored(k) == IF k <= Len(editor.list) THEN editor.list[k].line ELSE editor.saved[1].line

EditsStored ==
  /\ editor.text = view[Place(editor)]
  /\ OnEntry(editor) => editor.saved # <<>>
  /\ \A k \in DOMAIN view \ {Place(editor)} : Stored(k) = view[k]

\* While no character was merged, an edited line is found again as it was left,
\* entries and the line being typed alike, and accepting one entry takes back
\* the edits of no other.
EditsKept == ~merged => EditsStored

\* The undo lists and the lines they belong to, between any two commands.
UndoInvariant == UndoMemory /\ UndoRestores /\ EditsKept

\* operate-and-get-next brings the entry after the one accepted, or the last.
NextEntryShown ==
  [][Len(editor'.list) # Len(editor.list) /\ editor'.offset # Len(editor'.list)
       => editor'.offset = editor.offset + 1]_vars

\* The comment of rl_maybe_replace_line: "If the current line has changed, save
\* the changes."
ChangesSaved == EditsStored

=============================================================================
