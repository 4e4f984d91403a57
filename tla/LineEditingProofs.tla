-------------------------- MODULE LineEditingProofs --------------------------
(***************************************************************************)
(* Proofs about LineEditing: memory and undo lists stay in order whatever  *)
(* is typed, undone, recalled and accepted, undoing takes every line back  *)
(* to what it was, and edits are found again (UndoInvariant).  The         *)
(* inductive invariant, IInv, is Kept of LineEditorProofs.                 *)
(***************************************************************************)
EXTENDS LineEditing, LineEditorProofs

-----------------------------------------------------------------------------
(* The inductive invariant *)

\* What is seen, and how often something was added: one text more than entries.
Told(e, o, v, m) ==
  /\ o \in Seq(Text) /\ Len(o) = Len(e.list)
  /\ v \in Seq(Text) /\ Len(v) = Len(e.list) + 1
  /\ m \in BOOLEAN

\* The inductive invariant.
IInv == Kept(editor, Based(<<>>, original), view, merged) /\ Told(editor, original, view, merged)

\* The invariant holds when the first line is read.
LEMMA InitIInv ==
  Init => IInv
<1> SUFFICES ASSUME Init PROVE IInv
  OBVIOUS
<1>1. Loaded \in Seq(Text)
  BY LineEditingAssumption DEF Text
<1>2. editor = Opened(Loaded) /\ original = Loaded /\ view = Append(Loaded, <<>>) /\ merged = FALSE
  BY DEF Init
<1>3. /\ Kept(editor, Based(<<>>, Loaded), view, FALSE)
      /\ Len(Loaded) = Len(editor.list) /\ view \in Seq(Text) /\ Len(view) = Len(editor.list) + 1
  BY <1>1, <1>2, OpenedKept
<1> QED
  BY <1>1, <1>2, <1>3 DEF IInv, Told

-----------------------------------------------------------------------------
(* Every step keeps the invariant *)

\* The user has seen what a command left.
Seen(e, d, v, w) == w = [v EXCEPT ![Place(e)] = d.text]

\* A command that changes the line keeps the invariant.
LEMMA EditInvariant ==
  ASSUME NEW e, NEW q, NEW o, NEW v, NEW m, Kept(e, q, v, m), Told(e, o, v, m),
         NEW d, NEW n \in BOOLEAN, EditKeeps(e, q, v, m, d, n), NEW w, Seen(e, d, v, w)
  PROVE  Kept(d, q, w, n) /\ Told(d, o, w, n)
<1>1. e \in Editor /\ e.offset <= Len(e.list)
  BY DEF Kept, InOrder
<1>2. Place(e) \in 1 .. Len(e.list) + 1
  BY <1>1, PlaceIs
<1>3. d.text \in Text /\ Len(d.list) = Len(e.list) /\ Kept(d, q, w, n)
  BY DEF EditKeeps, Seen
<1>4. PICK l \in Nat : l = Len(e.list)
  BY <1>1, Parts
<1>5. w \in Seq(Text) /\ Len(w) = l + 1
  <2>1. \A s \in Seq(Text) : \A k \in 1 .. Len(s) : \A y \in Text :
          [s EXCEPT ![k] = y] \in Seq(Text) /\ Len([s EXCEPT ![k] = y]) = Len(s)
    OBVIOUS
  <2>2. v \in Seq(Text) /\ Len(v) = l + 1 /\ Place(e) \in 1 .. Len(v)
    BY <1>2, <1>4 DEF Told
  <2>3. [v EXCEPT ![Place(e)] = d.text] \in Seq(Text) /\ Len([v EXCEPT ![Place(e)] = d.text]) = Len(v)
    BY <1>3, <2>1, <2>2
  <2> QED
    BY <2>2, <2>3 DEF Seen
<1> QED
  BY <1>3, <1>4, <1>5 DEF Told

\* A step of a command that changes the line keeps the invariant.
LEMMA EditStep ==
  ASSUME IInv, NEW n \in BOOLEAN, EditKeeps(editor, Based(<<>>, original), view, merged, editor', n),
         Seen(editor, editor', view, view'), UNCHANGED original, merged' = n
  PROVE  IInv'
<1>1. Kept(editor, Based(<<>>, original), view, merged) /\ Told(editor, original, view, merged)
  BY DEF IInv
<1>2. Kept(editor', Based(<<>>, original), view', n) /\ Told(editor', original, view', n)
  BY <1>1, EditInvariant
<1> QED
  BY <1>2 DEF IInv

\* What the lemmas about the commands need.
LEMMA IInvGives ==
  ASSUME IInv
  PROVE  /\ Kept(editor, Based(<<>>, original), view, merged) /\ Told(editor, original, view, merged)
         /\ DOMAIN view = 1 .. Len(editor.list) + 1 /\ merged \in BOOLEAN
         /\ editor \in Editor /\ editor.text \in Text /\ Len(editor.text) \in Nat
         /\ editor.point \in 0 .. Len(editor.text)
         /\ editor.offset \in Nat /\ editor.offset <= Len(editor.list)
         /\ editor.list \in Seq(Entry) /\ Len(editor.list) \in Nat
<1>1. Kept(editor, Based(<<>>, original), view, merged) /\ Told(editor, original, view, merged)
  BY DEF IInv
<1>2. InOrder(editor, NULL) /\ editor \in Editor
  BY <1>1 DEF Kept, InOrder
<1>3. /\ editor.text \in Text /\ editor.point \in Nat /\ editor.offset \in Nat
      /\ editor.list \in Seq(Entry) /\ Len(editor.list) \in Nat
  BY <1>2, Parts
<1>4. editor.point <= Len(editor.text) /\ Len(editor.text) \in Nat
  BY <1>1, <1>3, TextLen DEF Kept, PointIn
<1>5. view \in Seq(Text) /\ Len(view) = Len(editor.list) + 1 /\ merged \in BOOLEAN
  BY <1>1 DEF Told
<1>6. DOMAIN view = 1 .. Len(editor.list) + 1
  BY <1>5
<1> QED
  BY <1>1, <1>2, <1>3, <1>4, <1>5, <1>6 DEF InOrder

\* Steps of self-insert and yank keep the invariant.
LEMMA InsertStep ==
  ASSUME IInv, Insert
  PROVE  IInv'
<1>1. PICK t \in Insertions :
        /\ RoomForOne /\ Edit(InsertText(editor, t))
        /\ merged' = (merged \/ ( /\ CanMerge(editor, t)
                                  /\ OnEntry(editor)
                                  /\ Current(editor).data = editor.undo))
  BY DEF Insert
<1>2. t \in Text
  BY LineEditingAssumption DEF Text
<1>3. RoomFor(editor, 2)
  BY <1>1 DEF RoomForOne, Room, RoomFor
<1>4. /\ editor' = InsertText(editor, t) /\ Seen(editor, editor', view, view')
      /\ UNCHANGED original
  BY <1>1 DEF Edit, Seen
<1>5. PICK n \in BOOLEAN : n = (merged \/ ( /\ CanMerge(editor, t)
                                            /\ OnEntry(editor)
                                            /\ Current(editor).data = editor.undo))
  OBVIOUS
<1>6. EditKeeps(editor, Based(<<>>, original), view, merged, editor', n)
  BY <1>2, <1>3, <1>4, <1>5, IInvGives, InsertKept
<1>7. merged' = n
  BY <1>1, <1>5
<1> QED
  BY <1>4, <1>6, <1>7, EditStep

\* Steps of the commands that delete keep the invariant.
LEMMA EraseStep ==
  ASSUME IInv, Erase
  PROVE  IInv'
<1>1. PICK p \in 0 .. Len(editor.text) \ {editor.point} :
        Edit(DeleteText(editor, IF p < editor.point THEN p ELSE editor.point,
                                IF p < editor.point THEN editor.point ELSE p))
  BY DEF Erase
<1>2. RoomFor(editor, 2) /\ UNCHANGED merged
  BY DEF Erase, RoomForOne, Room, RoomFor
<1>3. PICK from \in Nat, to \in Nat :
        /\ from = IF p < editor.point THEN p ELSE editor.point
        /\ to = IF p < editor.point THEN editor.point ELSE p
        /\ to \in 0 .. Len(editor.text) /\ from \in 0 .. to
  <2>1. p \in Nat /\ p <= Len(editor.text) /\ editor.point \in Nat /\ editor.point <= Len(editor.text)
    BY IInvGives
  <2> QED
    BY <2>1
<1>4. /\ editor' = DeleteText(editor, from, to) /\ Seen(editor, editor', view, view')
      /\ UNCHANGED original
  BY <1>1, <1>3 DEF Edit, Seen
<1>5. EditKeeps(editor, Based(<<>>, original), view, merged, editor', merged)
  BY <1>2, <1>3, <1>4, IInvGives, EraseKept
<1> QED
  BY <1>2, <1>4, <1>5, EditStep, IInvGives

\* Steps of kill-whole-line keep the invariant.
LEMMA KillStep ==
  ASSUME IInv, KillWholeLine
  PROVE  IInv'
<1>1. PICK begun : begun = Group([editor EXCEPT !.point = 0], "begin")
  OBVIOUS
<1>2. /\ RoomFor(editor, 3) /\ UNCHANGED merged
      /\ Edit(Group(IF editor.text = <<>> THEN begun
                    ELSE DeleteText(begun, 0, Len(editor.text)), "end"))
  BY <1>1 DEF KillWholeLine, Room, RoomFor
<1>3. /\ editor' = Group(IF editor.text = <<>> THEN begun
                         ELSE DeleteText(begun, 0, Len(editor.text)), "end")
      /\ Seen(editor, editor', view, view') /\ UNCHANGED original
  BY <1>2 DEF Edit, Seen
<1>4. EditKeeps(editor, Based(<<>>, original), view, merged, editor', merged)
  BY <1>1, <1>2, <1>3, IInvGives, KillKept
<1> QED
  BY <1>2, <1>3, <1>4, EditStep, IInvGives

\* Steps of upcase-word and downcase-word keep the invariant.
LEMMA CaseStep ==
  ASSUME IInv, ChangeCase
  PROVE  IInv'
<1>1. PICK start : start = editor.point
  OBVIOUS
<1>2. PICK begun : begun = Group(editor, "begin")
  OBVIOUS
<1>3. RoomFor(editor, 4) /\ UNCHANGED merged
  BY DEF ChangeCase, Room, RoomFor
<1>4. PICK case \in Cases, end \in editor.point + 1 .. Len(editor.text) :
        LET old == SubSeq(editor.text, start + 1, end)
            noted == Group(AddUndo(AddUndo(begun, "delete", start, end, old),
                                   "insert", start, end, <<>>), "end")
            new == [k \in DOMAIN editor.text |->
                      IF k \in start + 1 .. end THEN case[editor.text[k]]
                                                ELSE editor.text[k]]
        IN  Edit([noted EXCEPT !.text = new, !.point = end])
  BY <1>1, <1>2 DEF ChangeCase
<1>5. PICK old : old = SubSeq(editor.text, start + 1, end)
  OBVIOUS
<1>6. PICK noted : noted = Group(AddUndo(AddUndo(begun, "delete", start, end, old),
                                         "insert", start, end, <<>>), "end")
  OBVIOUS
<1>7. PICK new : CaseChanged(editor.text, start, end, case, new)
  BY DEF CaseChanged
<1>8. /\ editor' = [noted EXCEPT !.text = new, !.point = end]
      /\ Seen(editor, editor', view, view') /\ UNCHANGED original
  BY <1>4, <1>5, <1>6, <1>7 DEF Edit, Seen, CaseChanged
<1>9. case \in [Char -> Char]
  BY LineEditingAssumption
<1>10. EditKeeps(editor, Based(<<>>, original), view, merged, editor', merged)
  BY <1>1, <1>2, <1>3, <1>5, <1>6, <1>7, <1>8, <1>9, IInvGives, CaseKept
<1> QED
  BY <1>3, <1>8, <1>10, EditStep, IInvGives

\* Steps of transpose-chars keep the invariant.
LEMMA TransposeStep ==
  ASSUME IInv, TransposeChars
  PROVE  IInv'
<1>1. PICK at : at = IF editor.point = Len(editor.text) THEN editor.point - 1 ELSE editor.point
  OBVIOUS
<1>2. PICK cut : cut = DeleteText(Group(editor, "begin"), at - 1, at)
  OBVIOUS
<1>3. PICK moved : moved = InsertText([cut EXCEPT !.point = at], <<editor.text[at]>>)
  OBVIOUS
<1>4. /\ RoomFor(editor, 4) /\ UNCHANGED merged
      /\ editor.point > 0 /\ Len(editor.text) >= 2 /\ Edit(Group(moved, "end"))
  BY <1>1, <1>2, <1>3 DEF TransposeChars, Room, RoomFor
<1>5. /\ editor' = Group(moved, "end") /\ Seen(editor, editor', view, view')
      /\ UNCHANGED original
  BY <1>4 DEF Edit, Seen
<1>6. EditKeeps(editor, Based(<<>>, original), view, merged, editor', merged)
  BY <1>1, <1>2, <1>3, <1>4, <1>5, IInvGives, TransposeKept
<1> QED
  BY <1>4, <1>5, <1>6, EditStep, IInvGives

\* Steps of the commands that move the point keep the invariant.
LEMMA MoveStep ==
  ASSUME IInv, Move
  PROVE  IInv'
<1>1. PICK p \in 0 .. Len(editor.text) : editor' = [editor EXCEPT !.point = p]
  BY DEF Move
<1>2. UNCHANGED <<original, view, merged>>
  BY DEF Move
<1>3. editor \in Editor /\ p \in Nat /\ p <= Len(editor.text)
  BY IInvGives
<1>4. /\ editor'.text = editor.text /\ editor'.point = p /\ editor'.undo = editor.undo
      /\ editor'.list = editor.list /\ editor'.offset = editor.offset
      /\ editor'.saved = editor.saved /\ editor'.rec = editor.rec
  BY <1>1, <1>3 DEF Editor
<1>5. editor' \in Editor
  BY <1>1, <1>3 DEF Editor
<1>6. SameLines(editor, editor')
  BY <1>4 DEF SameLines
<1>7. InOrder(editor, NULL) /\ PointIn(editor) /\ (~merged => Tells(editor, Based(<<>>, original), view))
  BY IInvGives DEF Kept
<1>8. /\ InOrder(editor', NULL)
      /\ Gives(editor, Based(<<>>, original)) => Gives(editor', Based(<<>>, original))
      /\ \A t, u : LineTakes(editor, t, u) => LineTakes(editor', t, u)
  BY <1>4, <1>5, <1>6, <1>7, SameMemory
<1>9. PointIn(editor')
  BY <1>3, <1>4 DEF PointIn
<1>10. OnEntry(editor') = OnEntry(editor) /\ Place(editor') = Place(editor)
  BY <1>4 DEF OnEntry, Place
<1>11. ASSUME ~merged PROVE Tells(editor', Based(<<>>, original), view)
  <2>1. Tells(editor, Based(<<>>, original), view)
    BY <1>7, <1>11
  <2>2. Gives(editor', Based(<<>>, original))
    BY <1>8, <2>1 DEF Tells
  <2>3. LineTakes(editor', editor'.text, Origin(editor', Based(<<>>, original)))
    BY <1>4, <1>8, <1>10, <2>1 DEF Tells, Origin
  <2>4. Meets(editor', editor'.text)
    BY <1>4, <1>10, <2>1 DEF Tells, Meets
  <2>5. Shows(editor', view)
    BY <1>4, <1>10, <2>1 DEF Tells, Shows
  <2> QED
    BY <2>2, <2>3, <2>4, <2>5 DEF Tells
<1>12. Kept(editor', Based(<<>>, original), view, merged)
  BY <1>8, <1>9, <1>11 DEF Kept
<1>13. Told(editor', original, view, merged)
  BY <1>4, IInvGives DEF Told
<1> QED
  BY <1>2, <1>12, <1>13 DEF IInv

\* Steps of undo and revert-line keep the invariant.
LEMMA UndoStep ==
  ASSUME IInv, Undo
  PROVE  IInv'
<1>1. /\ editor.undo # NULL /\ UNCHANGED <<original, merged>>
      /\ editor' \in {DoUndo(editor), RevertLine(editor)} /\ Seen(editor, editor', view, view')
  BY DEF Undo, Edit, Seen
<1>2. EditKeeps(editor, Based(<<>>, original), view, merged, editor', merged)
  BY <1>1, IInvGives, UndoKept DEF EditKeeps
<1> QED
  BY <1>1, <1>2, EditStep, IInvGives

\* Where as many lines are left, as many were told.
LEMMA ToldAgain ==
  ASSUME NEW e, NEW o, NEW v, NEW m, Told(e, o, v, m), NEW d, Len(d.list) = Len(e.list)
  PROVE  Told(d, o, v, m)
BY DEF Told

\* The moves in the history keep the invariant, and every entry.
LEMMA HistoryStep ==
  ASSUME IInv, MoveInHistory
  PROVE  IInv' /\ Len(editor'.list) = Len(editor.list)
<1>1. PICK count \in 1 .. Len(editor.list) + 1 :
        editor' \in {Backward(editor, count), Forward(editor, count)}
  BY DEF MoveInHistory
<1>2. UNCHANGED <<original, view, merged>>
  BY DEF MoveInHistory
<1>3. count \in Nat /\ count # 0
  BY IInvGives
<1>4. Kept(editor', Based(<<>>, original), view, merged) /\ Len(editor'.list) = Len(editor.list)
  <2>1. CASE editor' = Backward(editor, count)
    BY <1>3, <2>1, IInvGives, BackwardKept
  <2>2. CASE editor' = Forward(editor, count)
    BY <1>3, <2>2, IInvGives, ForwardKept
  <2> QED
    BY <1>1, <2>1, <2>2
<1>5. Told(editor', original, view, merged)
  BY <1>4, IInvGives, ToldAgain
<1> QED
  BY <1>2, <1>4, <1>5 DEF IInv

\* Accepting the line keeps the invariant, and the next line begins at the end or
\* at the entry after the one accepted.
LEMMA AcceptStep ==
  ASSUME IInv, Accept
  PROVE  /\ IInv'
         /\ editor'.offset # Len(editor'.list) => editor'.offset = editor.offset + 1
<1>1. PICK all \in BOOLEAN :
        LET accepted == Accepted(editor, all)
            back == Back(editor, accepted)
            new == IF editor.text = <<>> THEN <<>> ELSE <<editor.text>>
            kept == [k \in DOMAIN original |->
                       IF all \/ k = Place(editor) THEN original[k] ELSE view[k]]
        IN  /\ editor' \in {accepted,
                            IF back > 0 THEN Backward(accepted, back) ELSE accepted}
            /\ original' = original \o new
            /\ view' = kept \o new \o <<<<>>>>
  BY DEF Accept
<1>2. UNCHANGED merged
  BY DEF Accept
<1>3. PICK a : a = Accepted(editor, all)
  OBVIOUS
<1>4. PICK back : back = Back(editor, a)
  OBVIOUS
<1>5. PICK kept : ExpectedLines(editor, original, view, all, kept)
  BY DEF ExpectedLines
<1>6. PICK p : p = original \o NewLine(editor.text)
  OBVIOUS
<1>7. PICK p2 : p2 = p \o <<<<>>>>
  OBVIOUS
<1>8. PICK w2 : w2 = kept \o NewLine(editor.text)
  OBVIOUS
<1>9. PICK w : w = w2 \o <<<<>>>>
  OBVIOUS
<1>10. /\ editor' \in {a, IF back > 0 THEN Backward(a, back) ELSE a}
       /\ original' = p /\ view' = w
  BY <1>1, <1>3, <1>4, <1>5, <1>6, <1>8, <1>9 DEF ExpectedLines, NewLine
<1>11. AddsLine(original, editor.text, p, p2) /\ AddsLine(kept, editor.text, w2, w)
  BY <1>6, <1>7, <1>8, <1>9 DEF AddsLine
<1>12. /\ original \in Seq(Text) /\ Len(original) = Len(editor.list)
       /\ view \in Seq(Text) /\ Len(view) = Len(editor.list) + 1
       /\ Kept(editor, Based(<<>>, original), view, merged)
  BY IInvGives DEF Told
<1>13. Kept(a, Based(<<>>, p), w, merged) /\ OneEntryMore(editor, a, p, w)
  BY <1>3, <1>5, <1>11, <1>12, AcceptedKept
<1>14. /\ a.offset = Len(a.list) /\ p \in Seq(Text) /\ Len(p) = Len(a.list)
       /\ w \in Seq(Text) /\ Len(w) = Len(a.list) + 1
  BY <1>13 DEF OneEntryMore
<1>15. Told(a, p, w, merged)
  BY <1>14, IInvGives DEF Told
<1>16. a \in Editor /\ Len(a.list) \in Nat /\ a.list \in Seq(Entry)
  BY <1>13, Parts DEF Kept, InOrder
<1>17. CASE editor' = a
  BY <1>2, <1>10, <1>13, <1>14, <1>15, <1>17 DEF IInv
<1>18. CASE back > 0 /\ editor' = Backward(a, back)
  <2>1. back = Len(a.list) - (editor.offset + 1) /\ editor.offset \in Nat
    BY <1>4, IInvGives DEF Back
  <2>2. back \in Nat /\ back # 0 /\ back <= a.offset /\ a.offset - back = editor.offset + 1
    BY <1>14, <1>16, <1>18, <2>1
  <2>3. a.list # <<>>
    BY <1>14, <1>16, <2>2
  <2>4. /\ Kept(editor', Based(<<>>, p), w, merged) /\ Len(editor'.list) = Len(a.list)
        /\ editor'.offset = a.offset - back
    BY <1>13, <1>18, <2>2, <2>3, BackwardKept
  <2>5. Told(editor', p, w, merged)
    BY <1>15, <2>4, ToldAgain
  <2> QED
    BY <1>2, <1>10, <2>2, <2>4, <2>5 DEF IInv
<1> QED
  BY <1>10, <1>17, <1>18

\* Every step keeps the invariant.
LEMMA NextIInv ==
  IInv /\ [Next]_vars => IInv'
<1> SUFFICES ASSUME IInv, [Next]_vars PROVE IInv'
  OBVIOUS
<1>1. CASE Insert
  BY <1>1, InsertStep
<1>2. CASE Erase
  BY <1>2, EraseStep
<1>3. CASE KillWholeLine
  BY <1>3, KillStep
<1>4. CASE ChangeCase
  BY <1>4, CaseStep
<1>5. CASE TransposeChars
  BY <1>5, TransposeStep
<1>6. CASE Move
  BY <1>6, MoveStep
<1>7. CASE Undo
  BY <1>7, UndoStep
<1>8. CASE MoveInHistory
  BY <1>8, HistoryStep
<1>9. CASE Accept
  BY <1>9, AcceptStep
<1>10. CASE UNCHANGED vars
  BY <1>10 DEF vars, IInv
<1> QED
  BY <1>1, <1>2, <1>3, <1>4, <1>5, <1>6, <1>7, <1>8, <1>9, <1>10 DEF Next

-----------------------------------------------------------------------------
(* What the invariant says *)

\* The states of the invariant have their types.
LEMMA IInvTypes ==
  ASSUME IInv
  PROVE  TypeOK
<1>1. /\ InOrder(editor, NULL) /\ editor.point \in 0 .. Len(editor.text)
      /\ Told(editor, original, view, merged)
  BY IInvGives DEF Kept
<1>2. editor \in Editor /\ editor.offset <= Len(editor.list) /\ editor.rec \in [Id -> UndoRec]
  BY <1>1 DEF InOrder, Sound
<1>3. /\ editor.text \in Text /\ editor.undo \in Pointer /\ editor.list \in Seq(Entry)
      /\ editor.offset \in 0 .. Len(editor.list)
  <2>1. editor.offset \in Nat /\ Len(editor.list) \in Nat
    BY <1>2, Parts
  <2> QED
    BY <1>2, <2>1, Parts
<1>4. editor.saved \in {<<>>} \/ editor.saved[1] \in Entry
  <2>1. editor.saved # <<>> => editor.saved \in [{1} -> Entry]
    BY <1>2, Parts
  <2> QED
    BY <2>1
<1>5. \A i \in Id : editor.rec[i].next \in Pointer
  BY <1>2 DEF UndoRec
<1>6. /\ original \in Seq(Text) /\ Len(original) = Len(editor.list)
      /\ view \in Seq(Text) /\ Len(view) = Len(original) + 1 /\ merged \in BOOLEAN
  BY <1>1 DEF Told
<1> QED
  BY <1>1, <1>3, <1>4, <1>5, <1>6 DEF TypeOK, Text

\* The lists of an editor that is in order: those of the lines and of the line in
\* view are apart, but for the entry in view, and hold what is in use.
LEMMA InOrderApart ==
  ASSUME NEW e, InOrder(e, NULL), NEW n \in Nat, n = Len(e.list)
  PROVE  /\ \A i \in Id : e.rec[i].what # "free"
                            <=> i \in On(e, e.undo) \/ \E k \in 0 .. n : i \in On(e, Heads(e)[k])
         /\ On(e, e.undo) \subseteq Id
         /\ \A k \in 0 .. n : On(e, Heads(e)[k]) \subseteq Id
         /\ \A k, m \in 0 .. n : k # m => On(e, Heads(e)[k]) \cap On(e, Heads(e)[m]) = {}
         /\ \A k \in 0 .. n : IF k = Place(e) THEN On(e, Heads(e)[k]) \subseteq On(e, e.undo)
                              ELSE On(e, Heads(e)[k]) \cap On(e, e.undo) = {}
<1>1. /\ e \in Editor /\ Sound(e.rec)
      /\ Apart(n, Place(e), Of(e.rec, e.undo), Lists(e), Of(e.rec, NULL), InUse(e.rec))
  BY DEF InOrder
<1>2. e.undo \in Pointer /\ \A k \in 0 .. n : Heads(e)[k] \in Pointer
  BY <1>1, Parts, HeadsAre
<1>3. /\ On(e, e.undo) = Of(e.rec, e.undo) /\ Of(e.rec, NULL) = {}
      /\ \A k \in 0 .. n : On(e, Heads(e)[k]) = Of(e.rec, Heads(e)[k])
  BY <1>1, <1>2, OnOf, OfFacts
<1>4. \A k \in 0 .. n : On(e, Heads(e)[k]) = Lists(e)[k]
  BY <1>1, <1>3, HeadsAre
<1>5. On(e, e.undo) \subseteq Id /\ \A k \in 0 .. n : On(e, Heads(e)[k]) \subseteq Id
  BY <1>1, <1>2, <1>3, OfFacts
<1>6. \A i \in Id : i \in InUse(e.rec) <=> e.rec[i].what # "free"
  BY DEF InUse
<1>7. \A i \in Id : e.rec[i].what # "free"
                      <=> i \in On(e, e.undo) \/ \E k \in 0 .. n : i \in On(e, Heads(e)[k])
  BY <1>1, <1>3, <1>4, <1>6 DEF Apart
<1>8. \A k, m \in 0 .. n : k # m => On(e, Heads(e)[k]) \cap On(e, Heads(e)[m]) = {}
  BY <1>1, <1>4 DEF Apart
<1>9. \A k \in 0 .. n : IF k = Place(e) THEN On(e, Heads(e)[k]) \subseteq On(e, e.undo)
                        ELSE On(e, Heads(e)[k]) \cap On(e, e.undo) = {}
  BY <1>1, <1>3, <1>4 DEF Apart
<1> QED
  BY <1>5, <1>7, <1>8, <1>9

\* The memory of the undo lists is as UndoMemory says.
LEMMA IInvMemory ==
  ASSUME IInv
  PROVE  UndoMemory
<1>1. InOrder(editor, NULL)
  BY IInvGives DEF Kept
<1>2. editor \in Editor /\ editor.offset <= Len(editor.list)
  BY <1>1 DEF InOrder
<1>3. PICK n \in Nat : n = Len(editor.list)
  BY <1>2, Parts
<1>4. /\ \A i \in Id : editor.rec[i].what # "free"
                         <=> \/ i \in On(editor, editor.undo)
                             \/ \E k \in 0 .. n : i \in On(editor, Heads(editor)[k])
      /\ On(editor, editor.undo) \subseteq Id
      /\ \A k \in 0 .. n : On(editor, Heads(editor)[k]) \subseteq Id
      /\ \A k, m \in 0 .. n :
           k # m => On(editor, Heads(editor)[k]) \cap On(editor, Heads(editor)[m]) = {}
      /\ \A k \in 0 .. n :
           IF k = Place(editor) THEN On(editor, Heads(editor)[k]) \subseteq On(editor, editor.undo)
           ELSE On(editor, Heads(editor)[k]) \cap On(editor, editor.undo) = {}
  BY <1>1, <1>3, InOrderApart
<1>5. LineHeads = Heads(editor) /\ DOMAIN LineHeads = 0 .. n
  BY <1>3 DEF LineHeads, Heads
<1>6. \A p : Records(p) = On(editor, p)
  BY DEF Records, On
<1> HIDE DEF Records, LineHeads
<1>7. {i \in Id : editor.rec[i].what # "free"}
        = Records(editor.undo) \cup UNION {Records(LineHeads[k]) : k \in DOMAIN LineHeads}
  <2>1. \A i : i \in UNION {Records(LineHeads[k]) : k \in DOMAIN LineHeads}
                 <=> \E k \in 0 .. n : i \in On(editor, Heads(editor)[k])
    BY <1>5, <1>6
  <2> QED
    BY <1>4, <1>6, <2>1
<1>8. \A k, m \in DOMAIN LineHeads : k # m => Records(LineHeads[k]) \cap Records(LineHeads[m]) = {}
  BY <1>4, <1>5, <1>6
<1>9. \A k \in 0 .. n : OnEntry(editor) /\ k = Place(editor) <=> k = Place(editor)
  <2>1. ~OnEntry(editor) => Place(editor) = n + 1
    BY <1>2, <1>3, PlaceIs
  <2>2. \A k \in 0 .. n : k # n + 1
    OBVIOUS
  <2> QED
    BY <2>1, <2>2
<1>10. \A k \in DOMAIN LineHeads :
         IF OnEntry(editor) /\ k = Place(editor)
           THEN Records(LineHeads[k]) \subseteq Records(editor.undo)
           ELSE Records(LineHeads[k]) \cap Records(editor.undo) = {}
  BY <1>4, <1>5, <1>6, <1>9
<1> QED
  BY <1>7, <1>8, <1>10, IInvTypes DEF UndoMemory

\* Undoing takes every line back, as UndoRestores says.
LEMMA IInvRestores ==
  ASSUME IInv
  PROVE  UndoRestores
<1> SUFFICES ASSUME ~merged PROVE UndoRestores
  BY DEF UndoRestores
<1>1. InOrder(editor, NULL) /\ Tells(editor, Based(<<>>, original), view)
  BY IInvGives DEF Kept
<1>2. editor \in Editor /\ Sound(editor.rec)
  BY <1>1 DEF InOrder
<1>3. Gives(editor, Based(<<>>, original)) /\ LineTakes(editor, editor.text, Origin(editor, Based(<<>>, original)))
  BY <1>1 DEF Tells
<1>8. /\ Based(<<>>, original)[0] = <<>>
      /\ \A k \in 1 .. Len(editor.list) : Based(<<>>, original)[k] = original[k]
  <2>1. PICK n \in Nat : n = Len(editor.list) /\ Len(original) = n
    BY IInvGives DEF Told
  <2>2. /\ Based(<<>>, original)[0] = <<>>
        /\ \A k \in 1 .. n : Based(<<>>, original)[k] = original[k]
    BY ONLY <2>1, BasedIs
  <2> QED
    BY <2>1, <2>2
<1>4. ASSUME NEW k \in DOMAIN editor.list
      PROVE  Reverted(editor, editor.list[k].line, editor.list[k].data) = original[k]
  <2>1. k \in 1 .. Len(editor.list)
    BY <1>2, Parts
  <2>2. editor.list[k].data \in Pointer
    BY <1>2, <2>1, Parts
  <2>3. Takes(editor.rec, editor.list[k].data, editor.list[k].line, original[k])
    BY <1>3, <1>8, <2>1 DEF Gives
  <2> QED
    BY <1>2, <2>2, <2>3, TakesReverted
<1>5. ASSUME NEW k \in DOMAIN editor.saved
      PROVE  Reverted(editor, editor.saved[k].line, editor.saved[k].data) = <<>>
  <2>1. editor.saved # <<>>
    BY <1>5
  <2>2. k = 1 /\ editor.saved[1].data \in Pointer
    BY <1>2, <1>5, <2>1, Parts
  <2>3. Takes(editor.rec, editor.saved[1].data, editor.saved[1].line, <<>>)
    BY <1>3, <1>8, <2>1 DEF Gives
  <2> QED
    BY <1>2, <2>2, <2>3, TakesReverted
<1>6. Reverted(editor, editor.text, editor.undo)
        = IF OnEntry(editor) THEN original[Place(editor)] ELSE <<>>
  <2>1. editor.undo \in Pointer
    BY <1>2, Parts
  <2>2. Takes(editor.rec, editor.undo, editor.text, Origin(editor, Based(<<>>, original)))
    BY <1>3 DEF LineTakes
  <2>3. Reverted(editor, editor.text, editor.undo) = Origin(editor, Based(<<>>, original))
    BY <1>2, <2>1, <2>2, TakesReverted
  <2>4. OnEntry(editor) => Place(editor) \in 1 .. Len(editor.list)
    BY <1>1, <1>2, PlaceIs DEF InOrder
  <2> QED
    BY <1>8, <2>3, <2>4 DEF Origin
<1> QED
  BY <1>4, <1>5, <1>6 DEF UndoRestores

\* An edited line is found again as it was left, as EditsKept says.
LEMMA IInvEdits ==
  ASSUME IInv
  PROVE  EditsKept
<1> SUFFICES ASSUME ~merged PROVE EditsStored
  BY DEF EditsKept
<1>1. InOrder(editor, NULL) /\ Shows(editor, view)
  BY IInvGives DEF Kept, Tells
<1>2. editor \in Editor /\ editor.offset <= Len(editor.list) /\ (OnEntry(editor) <=> editor.saved # <<>>)
  BY <1>1 DEF InOrder
<1>3. PICK n \in Nat : n = Len(editor.list)
  BY <1>2, Parts
<1>4. DOMAIN view = 1 .. n + 1
  BY <1>3, IInvGives
<1>5. ~OnEntry(editor) => Place(editor) = n + 1
  BY <1>2, <1>3, PlaceIs
<1>6. ASSUME NEW k \in 1 .. n + 1, k # Place(editor)
      PROVE  Stored(k) = view[k]
  <2>1. CASE k <= n
    BY <1>1, <1>3, <1>6, <2>1 DEF Shows, Stored
  <2>2. CASE ~(k <= n)
    <3>1. k = n + 1
      BY <2>2
    <3>2. editor.saved[1].line = view[n + 1]
      BY <1>1, <1>3, <1>5, <1>6, <3>1 DEF Shows
    <3> QED
      BY <1>3, <2>2, <3>1, <3>2 DEF Stored
  <2> QED
    BY <2>1, <2>2
<1> QED
  BY <1>1, <1>2, <1>4, <1>6 DEF EditsStored, Shows

\* Only accepting a line adds an entry.
LEMMA OriginalKeeps ==
  ASSUME IInv, [Next]_vars, ~Accept
  PROVE  Len(editor'.list) = Len(editor.list)
<1>1. UNCHANGED original
  BY DEF Next, Insert, Erase, KillWholeLine, ChangeCase, TransposeChars, Move, Undo,
         MoveInHistory, Edit, vars
<1>2. IInv'
  BY NextIInv
<1>3. Len(original) = Len(editor.list) /\ Len(original') = Len(editor'.list)
  BY <1>2 DEF IInv, Told
<1> QED
  BY <1>1, <1>3

\* Undo lists: no list holds a record that was freed, none shares its records
\* with another line, and while no typed character was merged into a record of
\* an entry undoing gives every line back, and an edited line is found again.
THEOREM UndoInvariantHolds == Spec => []UndoInvariant
<1>1. IInv => UndoInvariant
  BY IInvMemory, IInvRestores, IInvEdits DEF UndoInvariant
<1> QED
  BY <1>1, InitIInv, NextIInv, PTL DEF Spec

\* After operate-and-get-next the line in view is the entry after the one that
\* was accepted, or the last.
THEOREM NextEntryShownHolds == Spec => NextEntryShown
<1>1. ASSUME IInv, [Next]_vars
      PROVE  [Len(editor'.list) # Len(editor.list) /\ editor'.offset # Len(editor'.list)
               => editor'.offset = editor.offset + 1]_vars
  BY <1>1, AcceptStep, OriginalKeeps
<1> QED
  BY <1>1, InitIInv, NextIInv, PTL DEF Spec, NextEntryShown

=============================================================================
