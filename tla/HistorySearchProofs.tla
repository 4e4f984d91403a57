------------------------- MODULE HistorySearchProofs -------------------------
(***************************************************************************)
(* Proofs about HistorySearch: what is displayed while and after a search  *)
(* is what was searched for, and neither the line that was typed nor an    *)
(* entry is lost by it (SearchInvariant), and C-g gives back the line and  *)
(* the point (AbortRestores).                                              *)
(***************************************************************************)
EXTENDS HistorySearch, LineEditorProofs

-----------------------------------------------------------------------------
(* The memory, where a list may be held that has been freed *)

\* An editor whose memory is sound; what is in use need not be in a list.
Fine(e) == e \in Editor /\ e.offset <= Len(e.list) /\ Sound(e.rec)

\* The list of the line in view has no record that was freed.
Alive(e) == \A i \in Of(e.rec, e.undo) : e.rec[i].what # "free"

\* The records of the lists that are held.
LEMMA HeldIs ==
  ASSUME NEW e, Fine(e)
  PROVE  /\ Held(e) \subseteq Id
         /\ \A i : i \in Held(e) <=> \/ i \in Of(e.rec, e.undo)
                                      \/ \E k \in 0 .. Len(e.list) : i \in Lists(e)[k]
<1>1. e \in Editor /\ Sound(e.rec)
  BY DEF Fine
<1>2. \A k \in 0 .. Len(e.list) : Heads(e)[k] \in Pointer /\ Lists(e)[k] = Of(e.rec, Heads(e)[k])
  BY <1>1, HeadsAre
<1>3. e.undo \in Pointer
  BY <1>1, Parts
<1>4. \A p \in Pointer : Range(Chain(e, p)) = Of(e.rec, p)
  BY <1>1, OnOf DEF On
<1>5. DOMAIN Heads(e) = 0 .. Len(e.list)
  BY DEF Heads
<1>6. \A i : i \in Held(e) <=> \/ i \in Range(Chain(e, e.undo))
                                \/ \E k \in 0 .. Len(e.list) : i \in Range(Chain(e, Heads(e)[k]))
  BY <1>5 DEF Held
<1>7. \A p \in Pointer : Of(e.rec, p) \subseteq Id
  BY <1>1, OfFacts
<1>8. \A i : i \in Held(e) <=> \/ i \in Of(e.rec, e.undo)
                                \/ \E k \in 0 .. Len(e.list) : i \in Lists(e)[k]
  BY <1>2, <1>3, <1>4, <1>6
<1> QED
  BY <1>2, <1>3, <1>7, <1>8

\* What is held depends on the lists and the memory only.
LEMMA SameHeld ==
  ASSUME NEW e, Fine(e), NEW d, Fine(d), d.rec = e.rec, d.undo = e.undo,
         d.list = e.list, d.saved = e.saved
  PROVE  Held(d) = Held(e) /\ (Dangling(d) <=> Dangling(e))
<1>1. Heads(d) = Heads(e)
  BY DEF Heads
<1>2. Lists(d) = Lists(e)
  BY <1>1 DEF Lists
<1>3. \A i : i \in Held(d) <=> i \in Held(e)
  BY <1>2, HeldIs
<1> QED
  BY <1>3 DEF Dangling

\* The list of the line is alive when none of those held dangles.
LEMMA AliveIs ==
  ASSUME NEW e, Fine(e), ~Dangling(e)
  PROVE  Alive(e)
BY HeldIs DEF Dangling, Alive

\* d is e with what is held by no list forgotten.
Sweeps(e, d) ==
  /\ Fine(d) /\ d = [e EXCEPT !.rec = d.rec]
  /\ d.text = e.text /\ d.point = e.point /\ d.undo = e.undo
  /\ d.list = e.list /\ d.offset = e.offset /\ d.saved = e.saved
  /\ Freed(e.rec, Id \ Held(e), d.rec)

\* What is held by no list is forgotten, and nothing else: the lists stay.
LEMMA SweptIs ==
  ASSUME NEW e, Fine(e), NEW d, d = Swept(e)
  PROVE  /\ Sweeps(e, d)
         /\ InUse(d.rec) = InUse(e.rec) \cap Held(e)
         /\ Of(d.rec, d.undo) = Of(e.rec, e.undo) /\ Lists(d) = Lists(e)
         /\ Held(d) = Held(e) /\ (Dangling(d) <=> Dangling(e))
<1>1. e \in Editor /\ Sound(e.rec) /\ e.offset <= Len(e.list)
  BY DEF Fine
<1>2. PICK rec : rec = [i \in Id |-> IF i \in Held(e) THEN e.rec[i] ELSE Free]
  OBVIOUS
<1>3. d = [e EXCEPT !.rec = rec]
  BY <1>2 DEF Swept
<1>4. Freed(e.rec, Id \ Held(e), rec)
  BY <1>2 DEF Freed
<1>5. Sound(rec) /\ InUse(rec) = InUse(e.rec) \ (Id \ Held(e))
  BY <1>1, <1>4, FreedIs
<1>6. /\ d.text = e.text /\ d.point = e.point /\ d.undo = e.undo /\ d.list = e.list
      /\ d.offset = e.offset /\ d.saved = e.saved /\ d.rec = rec
      /\ d \in Editor
  BY <1>1, <1>3, <1>5 DEF Editor, Sound, UndoRec, Text
<1>7. Fine(d) /\ Sweeps(e, d)
  BY <1>1, <1>3, <1>4, <1>5, <1>6 DEF Fine, Sweeps
<1>8. InUse(d.rec) = InUse(e.rec) \cap Held(e)
  BY <1>5, <1>6 DEF InUse
<1>9. \A p \in Pointer : Of(e.rec, p) \subseteq Held(e) => Of(rec, p) = Of(e.rec, p)
  BY <1>1, <1>4, FreedIs
<1>10. e.undo \in Pointer /\ Of(e.rec, e.undo) \subseteq Held(e)
  BY <1>1, Parts, HeldIs
<1>11. \A k \in 0 .. Len(e.list) : /\ Heads(e)[k] \in Pointer /\ Lists(e)[k] = Of(e.rec, Heads(e)[k])
                                   /\ Of(e.rec, Heads(e)[k]) \subseteq Held(e)
  BY <1>1, HeadsAre, HeldIs
<1>12. Heads(d) = Heads(e)
  BY <1>6 DEF Heads
<1>13. Of(d.rec, d.undo) = Of(e.rec, e.undo)
  BY <1>6, <1>9, <1>10
<1>14. Lists(d) = Lists(e)
  BY <1>6, <1>9, <1>11, <1>12 DEF Lists
<1>15. \A i : i \in Held(d) <=> i \in Held(e)
  BY <1>6, <1>7, <1>13, <1>14, HeldIs
<1>16. Dangling(d) <=> Dangling(e)
  <2>1. \A i \in Held(e) : d.rec[i] = e.rec[i]
    BY <1>2, <1>6, HeldIs
  <2> QED
    BY <1>15, <2>1 DEF Dangling
<1> QED
  BY <1>7, <1>8, <1>13, <1>14, <1>15, <1>16

\* A free record before a list that it is not in leaves every pointer leading to
\* an end: a list that came to it goes on with that list.
LEMMA JoinedSound ==
  ASSUME NEW rec, Sound(rec), NEW h \in Id, rec[h].what = "free",
         NEW p \in Pointer, h \notin Of(rec, p),
         NEW r \in UndoRec, r.start <= r.end, r.what # "free", r.next = p,
         NEW new, new = [rec EXCEPT ![h] = r]
  PROVE  /\ Sound(new) /\ InUse(new) = InUse(rec) \cup {h}
         /\ \A q \in Pointer : h \notin Of(rec, q) => Of(new, q) = Of(rec, q)
         /\ Of(new, h) = {h} \cup Of(rec, p)
<1>1. rec \in [Id -> UndoRec] /\ rec[h] = Free /\ rec[h].next = NULL
  BY DEF Sound, Free
<1>2. /\ new \in [Id -> UndoRec] /\ new[h] = r
      /\ \A i \in Id : i # h => new[i] = rec[i]
  BY <1>1
<1>3. PICK t : IsList(rec, p, t)
  BY DEF Sound, Leads
<1>4. ASSUME NEW q \in Pointer, h \notin Of(rec, q)
      PROVE  \E s : IsList(new, q, s)
  <2>1. \A i \in Of(rec, q) : i \in Id /\ i # h
    BY <1>4, OfFacts
  <2>2. \A i \in Of(rec, q) : new[i].next = rec[i].next
    BY <1>2, <2>1
  <2> QED
    BY <2>2, StillList
<1>5. PICK u : IsList(new, p, u)
  BY <1>4
<1>6. PICK l : IsList(new, h, l)
  <2> h \in Pointer
    BY Pointers
  <2> QED
    BY <1>2, <1>5, LongerList
<1>7. ASSUME NEW q \in Pointer, h \in Of(rec, q)
      PROVE  \E s : IsList(new, q, s)
  <2>1. PICK s : IsList(rec, q, s)
    BY DEF Sound, Leads
  <2>2. PICK n \in Nat : n = Len(s)
    BY <2>1, ListHas
  <2>3. s \in Seq(Id) /\ \A k \in 1 .. n : s[k] \in Id /\ s[k] # NULL
    BY <2>1, <2>2, ListHas
  <2>4. PICK k \in 1 .. n : s[k] = h
    <3>1. Linked(rec) /\ Leads(rec)
      BY SoundLinked
    <3>2. \A i : i \in On([rec |-> rec], q) <=> \E k \in 1 .. Len(s) : i = s[k]
      BY <2>1, <3>1, OnIs
    <3> QED
      BY <1>7, <2>2, <3>2 DEF Of
  <2>5. k = n
    <3>1. rec[s[k]].next = IF k < n THEN s[k + 1] ELSE NULL
      BY <2>1, <2>2 DEF IsList
    <3>2. k < n => k + 1 \in 1 .. n
      BY <2>2
    <3> QED
      BY <1>1, <2>2, <2>3, <2>4, <3>1, <3>2
  <2>6. \A j \in 1 .. n - 1 : s[j] # h
    <3> SUFFICES ASSUME NEW j \in 1 .. n - 1, s[j] = h PROVE FALSE
      OBVIOUS
    <3>1. j \in 1 .. n /\ j < n /\ j + 1 \in 1 .. n
      BY <2>2
    <3>2. rec[s[j]].next = s[j + 1]
      BY <2>1, <2>2, <3>1 DEF IsList
    <3> QED
      BY <1>1, <2>3, <3>1, <3>2
  <2>7. PICK m \in Nat : m = Len(l) /\ m # 0 /\ l[1] = h
    <3> h # NULL
      BY Pointers
    <3> QED
      BY <1>6, ListHas DEF IsList
  <2>8. l \in Seq(Id) /\ \A j \in 1 .. m : l[j] \in Id
    BY <1>6, <2>7, ListHas
  <2>9. PICK v : v = [j \in 1 .. n - 1 + m |-> IF j < n THEN s[j] ELSE l[j - n + 1]]
    OBVIOUS
  <2>10. v \in Seq(Id) /\ Len(v) = n - 1 + m
    <3>1. \A j \in 1 .. n - 1 + m : v[j] \in Id
      <4> SUFFICES ASSUME NEW j \in 1 .. n - 1 + m PROVE v[j] \in Id
        OBVIOUS
      <4>1. CASE j < n
        BY <2>2, <2>3, <2>9, <4>1
      <4>2. CASE ~(j < n)
        <5>1. j - n + 1 \in 1 .. m
          BY <2>2, <2>4, <2>7, <4>2
        <5> QED
          BY <2>8, <2>9, <4>2, <5>1
      <4> QED
        BY <4>1, <4>2
    <3>2. PICK a \in Nat : a = n - 1 + m
      BY <2>2, <2>4, <2>7
    <3>3. v = [j \in 1 .. a |-> v[j]] /\ \A j \in 1 .. a : v[j] \in Id
      BY <2>9, <3>1, <3>2
    <3>4. v \in [1 .. a -> Id]
      BY <3>3
    <3>5. v \in Seq(Id) /\ Len(v) = a
      BY <3>4
    <3> QED
      BY <3>2, <3>5
  <2>11. v[1] = q /\ q # NULL
    <3>1. q # NULL /\ s[1] = q
      BY <2>1, <2>2, <2>4 DEF IsList
    <3>2. 1 \in 1 .. n - 1 + m
      BY <2>2, <2>4, <2>7
    <3>3. CASE n = 1
      BY <2>4, <2>5, <2>7, <2>9, <3>1, <3>2, <3>3
    <3>4. CASE n # 1
      BY <2>2, <2>4, <2>9, <3>1, <3>2, <3>4
    <3> QED
      BY <3>1, <3>3, <3>4
  <2>12. ASSUME NEW j \in 1 .. n - 1 + m
         PROVE  new[v[j]].next = IF j < n - 1 + m THEN v[j + 1] ELSE NULL
    <3>1. CASE j < n
      <4>1. j \in 1 .. n - 1 /\ j \in 1 .. n /\ j < n - 1 + m /\ j + 1 \in 1 .. n - 1 + m
            /\ j + 1 \in 1 .. n
        BY <2>2, <2>4, <2>7, <3>1
      <4>2. v[j] = s[j] /\ s[j] # h /\ s[j] \in Id
        BY <2>3, <2>6, <2>9, <3>1, <4>1
      <4>3. new[v[j]].next = s[j + 1]
        <5>1. rec[s[j]].next = s[j + 1]
          BY <2>1, <2>2, <3>1, <4>1 DEF IsList
        <5> QED
          BY <1>2, <4>2, <5>1
      <4>4. v[j + 1] = s[j + 1]
        <5>1. CASE j + 1 < n
          BY <2>9, <4>1, <5>1
        <5>2. CASE ~(j + 1 < n)
          <6>1. j + 1 = n /\ j + 1 - n + 1 = 1
            BY <2>2, <3>1, <5>2
          <6>2. v[j + 1] = l[(j + 1) - n + 1]
            BY <2>9, <4>1, <5>2
          <6> QED
            <7>1. v[j + 1] = l[1]
              BY <6>1, <6>2
            <7>2. s[j + 1] = h
              BY <2>4, <2>5, <6>1
            <7> QED
              BY <2>7, <7>1, <7>2
        <5> QED
          BY <5>1, <5>2
      <4> QED
        BY <4>1, <4>3, <4>4
    <3>2. CASE ~(j < n)
      <4>1. PICK i \in 1 .. m : i = j - n + 1
        BY <2>2, <2>4, <2>7, <3>2
      <4>2. v[j] = l[i]
        BY <2>9, <3>2, <4>1
      <4>3. new[l[i]].next = IF i < m THEN l[i + 1] ELSE NULL
        BY <1>6, <2>7 DEF IsList
      <4>4. i < m <=> j < n - 1 + m
        BY <2>2, <2>4, <2>7, <4>1
      <4>5. j < n - 1 + m => v[j + 1] = l[i + 1]
        <5> SUFFICES ASSUME j < n - 1 + m PROVE v[j + 1] = l[i + 1]
          OBVIOUS
        <5>1. j + 1 \in 1 .. n - 1 + m /\ ~(j + 1 < n) /\ (j + 1) - n + 1 = i + 1
          BY <2>2, <2>4, <2>7, <3>2, <4>1
        <5> QED
          BY <2>9, <5>1
      <4> QED
        BY <4>2, <4>3, <4>4, <4>5
    <3> QED
      BY <3>1, <3>2
  <2>13. Len(v) # 0
    BY <2>2, <2>4, <2>7, <2>10
  <2> QED
    BY <2>10, <2>11, <2>12, <2>13 DEF IsList
<1>8. Leads(new)
  BY <1>4, <1>7 DEF Leads
<1>9. Sound(new)
  <2>1. \A i \in Id : new[i].start <= new[i].end
    BY <1>2 DEF Sound
  <2>2. \A i \in Id : new[i].what = "free" => new[i] = Free
    BY <1>2 DEF Sound
  <2> QED
    BY <1>2, <1>8, <2>1, <2>2 DEF Sound
<1>10. InUse(new) = InUse(rec) \cup {h}
  BY <1>2 DEF InUse
<1>11. \A q \in Pointer : h \notin Of(rec, q) => Of(new, q) = Of(rec, q)
  <2> SUFFICES ASSUME NEW q \in Pointer, h \notin Of(rec, q) PROVE Of(new, q) = Of(rec, q)
    OBVIOUS
  <2>1. \A i \in Of(rec, q) : i \in Id /\ i # h
    BY OfFacts
  <2>2. \A i \in Of(rec, q) : new[i].next = rec[i].next
    BY <1>2, <2>1
  <2> QED
    BY ONLY Sound(rec), <1>9, q \in Pointer, <2>2, SameOf
<1>12. Of(new, h) = {h} \cup Of(rec, p)
  <2>1. Of(new, h) = {h} \cup Of(new, new[h].next)
    BY <1>9, OfFacts
  <2>2. new[h].next = p
    BY <1>2
  <2>3. Of(new, p) = Of(rec, p)
    BY <1>2, <1>11
  <2> QED
    BY <2>1, <2>2, <2>3
<1> QED
  BY <1>9, <1>10, <1>11, <1>12

-----------------------------------------------------------------------------
(* The operations on such a memory: changes of the line *)

\* A sound memory, with the list of the line alive, and room for k records.
Works(e, k) == Fine(e) /\ Alive(e) /\ RoomFor(e, k)

\* What is in use, and not in the list of the line of e, is the same in d, and in no
\* list of its line.
Spares(e, d) ==
  \A i \in InUse(e.rec) : i \notin Of(e.rec, e.undo) =>
    d.rec[i] = e.rec[i] /\ i \notin Of(d.rec, d.undo)

\* What is spared twice is spared.
LEMMA SparesOn ==
  ASSUME NEW e, NEW d, Spares(e, d), NEW c, Spares(d, c)
  PROVE  Spares(e, c)
  BY DEF Spares, InUse

\* A record more.
LEMMA AddUndoWorks ==
  ASSUME NEW e, NEW k, NEW j, OneLess(k, j), Works(e, j),
         NEW what, NEW start, NEW end, NEW text, NEW r, NEW d, Notes(e, d, what, start, end, text, r)
  PROVE  /\ Works(d, k) /\ SameLines(e, d) /\ d.text = e.text /\ d.point = e.point
         /\ d.undo \in Id /\ d.rec[d.undo] = r /\ Spares(e, d)
<1>1. k \in Nat /\ j = k + 1 /\ e \in Editor /\ Sound(e.rec) /\ e.offset <= Len(e.list)
  BY DEF OneLess, Works, Fine
<1>2. FreeIds(e) # {}
  BY <1>1, RoomIs DEF Works
<1>3. Noted(e, d, r) /\ NewRecord(e, r)
  BY <1>1, <1>2, AddUndoNotes DEF Notes
<1>4. RoomFor(d, k)
  BY <1>1, <1>3, RoomLeft DEF Works
<1>5. PICK h \in Id : h = d.undo
  BY <1>3 DEF Noted
<1>6. e.undo \in Pointer /\ e.rec[h].what = "free" /\ h \notin Of(e.rec, e.undo)
  BY <1>1, <1>3, <1>5, Parts DEF Works, Alive, Noted
<1>7. PICK new : new = [e.rec EXCEPT ![h] = r]
  OBVIOUS
<1>8. /\ r \in UndoRec /\ r.start <= r.end /\ r.what # "free" /\ r.next = e.undo
  BY <1>3 DEF NewRecord
<1>9. Sound(new) /\ Of(new, h) = {h} \cup Of(e.rec, e.undo)
  BY <1>1, <1>6, <1>7, <1>8, JoinedSound
<1>10. /\ d \in Editor /\ SameLines(e, d) /\ d.text = e.text /\ d.point = e.point /\ d.rec = new
  BY <1>3, <1>5, <1>7 DEF Noted
<1>11. Fine(d)
  BY <1>1, <1>9, <1>10 DEF Fine, SameLines
<1>12. new[h] = r /\ \A i \in Id : i # h => new[i] = e.rec[i]
  BY <1>1, <1>7 DEF Sound
<1>13. Alive(d)
  <2> SUFFICES ASSUME NEW i \in Of(new, h) PROVE new[i].what # "free"
    BY <1>5, <1>10 DEF Alive
  <2>1. CASE i = h
    BY <1>8, <1>12, <2>1
  <2>2. CASE i # h
    <3>1. i \in Of(e.rec, e.undo)
      BY <1>9, <2>2
    <3>2. i \in Id
      BY <1>1, <1>6, <3>1, OfFacts
    <3>3. e.rec[i].what # "free"
      BY <3>1 DEF Works, Alive
    <3> QED
      BY <1>12, <2>2, <3>2, <3>3
  <2> QED
    BY <2>1, <2>2
<1>14. Spares(e, d)
  BY <1>5, <1>6, <1>9, <1>10, <1>12 DEF Spares, InUse
<1> QED
  BY <1>4, <1>5, <1>10, <1>11, <1>12, <1>13, <1>14 DEF Works

\* A group begins or ends.
LEMMA GroupWorks ==
  ASSUME NEW e, NEW k, NEW j, OneLess(k, j), Works(e, j), NEW what \in {"begin", "end"},
         NEW d, d = Group(e, what)
  PROVE  /\ Works(d, k) /\ SameLines(e, d) /\ d.text = e.text /\ d.point = e.point
         /\ d.undo \in Id /\ d.rec[d.undo].what = what /\ Spares(e, d)
<1>1. PICK r : r = [what |-> what, start |-> 0, end |-> 0, text |-> <<>>, next |-> e.undo]
  OBVIOUS
<1>2. Notes(e, d, what, 0, 0, <<>>, r)
  BY <1>1 DEF Notes, Group, Text
<1> QED
  BY <1>1, <1>2, AddUndoWorks

\* The text is set.
LEMMA TextWorks ==
  ASSUME NEW e, NEW k, Works(e, k), NEW t \in Text, NEW p, NEW d, TextSet(e, d, t, p)
  PROVE  /\ Works(d, k) /\ SameLines(e, d) /\ d.text = t /\ d.point = p
         /\ d.undo = e.undo /\ d.rec = e.rec /\ Spares(e, d)
<1>1. e \in Editor
  BY DEF Works, Fine
<1>2. /\ d \in Editor /\ SameLines(e, d) /\ d.text = t /\ d.point = p
      /\ d.undo = e.undo /\ d.rec = e.rec
  BY <1>1 DEF Editor, Text, SameLines, TextSet
<1>3. Spares(e, d)
  BY <1>2 DEF Spares
<1> QED
  BY <1>2, <1>3 DEF Works, Fine, Alive, RoomFor, FreeIds, SameLines

\* A part of the text is deleted.
LEMMA DeleteWorks ==
  ASSUME NEW e, NEW k, NEW j, OneLess(k, j), Works(e, j), NEW t \in Text, e.text = t,
         NEW from, NEW to, PartOf(t, from, to), NEW d, d = DeleteText(e, from, to)
  PROVE  /\ Works(d, k) /\ SameLines(e, d) /\ d.text = Without(t, from, to) /\ d.point = from
         /\ d.undo \in Id /\ d.rec[d.undo].what = "delete" /\ Spares(e, d)
<1>1. to \in 0 .. Len(t) /\ from \in 0 .. to /\ Len(t) \in Nat
  BY TextLen DEF PartOf
<1>2. PICK x \in Text : x = SubSeq(t, from + 1, to)
  BY <1>1, PartBetween
<1>3. PICK r : r = [what |-> "delete", start |-> from, end |-> to, text |-> x, next |-> e.undo]
  OBVIOUS
<1>4. PICK c : c = AddUndo(e, "delete", from, to, x)
  OBVIOUS
<1>5. Notes(e, c, "delete", from, to, x, r)
  BY <1>1, <1>3, <1>4 DEF Notes
<1>6. /\ Works(c, k) /\ SameLines(e, c) /\ c.undo \in Id /\ c.rec[c.undo] = r /\ Spares(e, c)
  BY <1>5, AddUndoWorks
<1>7. d = [c EXCEPT !.text = Without(t, from, to), !.point = from]
  BY <1>2, <1>4 DEF DeleteText
<1>8. PICK y \in Text : y = Without(t, from, to)
  BY <1>1, WithoutText
<1>9. /\ Works(d, k) /\ SameLines(c, d) /\ d.text = y /\ d.point = from
      /\ d.undo = c.undo /\ d.rec = c.rec /\ Spares(c, d)
  <2>1. TextSet(c, d, y, from)
    BY <1>1, <1>7, <1>8 DEF TextSet
  <2> QED
    BY <1>6, <2>1, TextWorks
<1>10. Spares(e, d)
  BY <1>6, <1>9, SparesOn
<1> QED
  BY <1>3, <1>6, <1>8, <1>9, <1>10 DEF SameLines

\* The free records are so many.
LEMMA FreeNumber ==
  ASSUME NEW e
  PROVE  IsFiniteSet(FreeIds(e))
<1>1. FreeIds(e) \subseteq 1 .. MaxRecords /\ MaxRecords \in Nat
  BY LineEditorAssumption DEF FreeIds, Id
<1>2. IsFiniteSet(1 .. MaxRecords)
  BY <1>1, FS_Interval
<1> QED
  BY <1>1, <1>2, FS_Subset

\* A text is inserted, and may share the record of what was typed before it.
LEMMA InsertWorks ==
  ASSUME NEW e, NEW k, NEW j, OneLess(k, j), Works(e, j), NEW t \in Text, e.text = t,
         e.point \in 0 .. Len(t), NEW new \in Text, NEW d, d = InsertText(e, new)
  PROVE  /\ Works(d, k) /\ SameLines(e, d) /\ d.text = With(t, e.point, new)
         /\ d.text \in Text /\ d.point = e.point + Len(new) /\ PointIn(d) /\ Spares(e, d)
<1>1. e \in Editor /\ Sound(e.rec) /\ e.offset <= Len(e.list) /\ Len(new) \in Nat /\ Len(t) \in Nat
  BY TextLen DEF Works, Fine
<1>2. /\ With(t, e.point, new) \in Text /\ Len(With(t, e.point, new)) = Len(t) + Len(new)
  BY WithText
<1>3. PICK n \in Nat : n = e.point + Len(new)
  BY <1>1
<1>4. PICK c : c = IF CanMerge(e, new) THEN [e EXCEPT !.rec[e.undo].end = @ + 1]
                   ELSE AddUndo(e, "insert", e.point, e.point + Len(new), <<>>)
  OBVIOUS
<1>5. d = [c EXCEPT !.text = With(t, e.point, new), !.point = @ + Len(new)]
  BY <1>4 DEF InsertText
<1>6. Works(c, k) /\ SameLines(e, c) /\ c.point = e.point /\ Spares(e, c)
  <2>1. CASE CanMerge(e, new)
    <3>1. PICK h \in Id : h = e.undo /\ e.rec[h].what = "insert"
      BY <1>1, <2>1, Parts, Pointers DEF CanMerge
    <3>2. PICK rec : rec = [e.rec EXCEPT ![h].end = @ + 1]
      OBVIOUS
    <3>3. /\ Sound(rec) /\ InUse(rec) = InUse(e.rec)
          /\ \A p \in Pointer : Of(rec, p) = Of(e.rec, p)
          /\ \A i \in Id : i # h => rec[i] = e.rec[i]
          /\ rec[h].what = e.rec[h].what
      BY <1>1, <3>1, <3>2, LongerSound DEF LongerRecord
    <3>4. c = [e EXCEPT !.rec = rec]
      BY <1>4, <2>1, <3>1, <3>2
    <3>5. /\ c.rec = rec /\ c.undo = e.undo /\ c.point = e.point /\ SameLines(e, c) /\ c \in Editor
      BY <1>1, <3>3, <3>4 DEF Editor, SameLines, Sound, UndoRec, Text
    <3>6. \A i \in Id : rec[i].what = e.rec[i].what
      BY <3>3
    <3>7. e.undo \in Pointer /\ Of(e.rec, e.undo) \subseteq Id
      BY <1>1, Parts, OfFacts
    <3>8. Alive(c)
      BY <3>3, <3>5, <3>6, <3>7 DEF Works, Alive
    <3>9. FreeIds(c) = FreeIds(e)
      BY <3>5, <3>6 DEF FreeIds
    <3>10. RoomFor(c, k)
      <4>1. IsFiniteSet(FreeIds(e))
        BY FreeNumber
      <4>2. Cardinality(FreeIds(e)) \in Nat /\ Cardinality(FreeIds(e)) >= j
        BY <4>1, FS_CardinalityType DEF Works, RoomFor
      <4> QED
        BY <3>9, <4>2 DEF RoomFor, OneLess
    <3>11. h \in Of(e.rec, e.undo)
      BY <1>1, <3>1, OfFacts
    <3>12. Spares(e, c)
      BY <3>3, <3>5, <3>7, <3>11 DEF Spares, InUse
    <3> QED
      BY <1>1, <3>3, <3>5, <3>8, <3>10, <3>12 DEF Works, Fine, SameLines
  <2>2. CASE ~CanMerge(e, new)
    <3>1. PICK r : r = [what |-> "insert", start |-> e.point, end |-> n, text |-> <<>>, next |-> e.undo]
      OBVIOUS
    <3>2. Notes(e, c, "insert", e.point, n, <<>>, r)
      <4>1. e.point \in Nat /\ e.point <= n /\ <<>> \in Text
        BY <1>1, <1>3 DEF Text
      <4> QED
        BY <1>3, <1>4, <2>2, <3>1, <4>1 DEF Notes
    <3> QED
      BY <3>2, AddUndoWorks
  <2> QED
    BY <2>1, <2>2
<1>7. d = [c EXCEPT !.text = With(t, e.point, new), !.point = n]
  <2>1. c \in Editor
    BY <1>6 DEF Works, Fine
  <2> QED
    BY <1>3, <1>5, <1>6, <2>1 DEF Editor
<1>8. /\ Works(d, k) /\ SameLines(c, d) /\ d.text = With(t, e.point, new) /\ d.point = n
      /\ Spares(c, d)
  <2>1. PICK y \in Text : y = With(t, e.point, new)
    BY <1>2
  <2>2. TextSet(c, d, y, n)
    BY <1>7, <2>1 DEF TextSet
  <2> QED
    BY <1>6, <2>1, <2>2, TextWorks
<1>9. PointIn(d)
  BY <1>1, <1>2, <1>3, <1>8 DEF PointIn
<1>10. Spares(e, d)
  BY <1>6, <1>8, SparesOn
<1> QED
  BY <1>2, <1>3, <1>6, <1>8, <1>9, <1>10 DEF SameLines

\* More free records are more room.
LEMMA MoreRoom ==
  ASSUME NEW e, NEW d, FreeIds(e) \subseteq FreeIds(d), NEW k \in Nat, RoomFor(e, k)
  PROVE  RoomFor(d, k)
<1>1. IsFiniteSet(FreeIds(d))
  BY FreeNumber
<1>2. IsFiniteSet(FreeIds(e)) /\ Cardinality(FreeIds(e)) <= Cardinality(FreeIds(d))
  BY <1>1, FS_Subset
<1>3. Cardinality(FreeIds(e)) \in Nat /\ Cardinality(FreeIds(d)) \in Nat
  BY <1>1, <1>2, FS_CardinalityType
<1> QED
  BY <1>2, <1>3 DEF RoomFor

-----------------------------------------------------------------------------
(* The operations on such a memory: leaving a line and coming to another *)

\* d has as many entries as e, with the same place, and a sound memory.
Besides(e, d) == Fine(d) /\ d.offset = e.offset /\ Len(d.list) = Len(e.list)

\* An entry can be the saved line.
LEMMA OneEntry ==
  ASSUME NEW x \in Entry
  PROVE  <<x>> \in [{1} -> Entry] /\ <<x>>[1] = x /\ <<x>> # <<>>
<1>1. <<x>> \in Seq(Entry) /\ <<x>>[1] = x /\ <<x>> # <<>> /\ Len(<<x>>) = 1
  OBVIOUS
<1>2. DOMAIN <<x>> = {1}
  OBVIOUS
<1>3. <<x>> \in [{1} -> Entry]
  BY <1>1, <1>2
<1> QED
  BY <1>1, <1>3

\* rl_maybe_replace_line.
LEMMA ReplaceFine ==
  ASSUME NEW e, Fine(e), NEW d, d = MaybeReplace(e)
  PROVE  /\ Besides(e, d) /\ d.text = e.text /\ d.point = e.point /\ d.undo = e.undo
         /\ d.saved = e.saved /\ d.rec = e.rec
         /\ \A k \in 1 .. Len(e.list) : k # Place(e) => d.list[k] = e.list[k]
<1>1. e \in Editor /\ e.offset <= Len(e.list) /\ Sound(e.rec)
  BY DEF Fine
<1>2. CASE OnEntry(e) /\ Current(e).data # e.undo
  <2>1. PICK n \in Nat : n = Len(e.list)
    BY <1>1, Parts
  <2>2. e.text \in Text /\ e.undo \in Pointer /\ e.list \in Seq(Entry) /\ e.offset + 1 \in 1 .. n
    BY <1>1, <1>2, <2>1, Parts DEF OnEntry
  <2>3. PICK x \in Entry : x = [line |-> e.text, data |-> e.undo]
    BY <2>2 DEF Entry, Text
  <2>4. PICK l : l = [e.list EXCEPT ![e.offset + 1] = x]
    OBVIOUS
  <2>5. l \in Seq(Entry) /\ Len(l) = n /\ \A k \in 1 .. n : k # e.offset + 1 => l[k] = e.list[k]
    BY <2>1, <2>2, <2>4
  <2>6. d = [e EXCEPT !.list = l]
    BY <1>2, <2>3, <2>4 DEF MaybeReplace
  <2>7. /\ d.text = e.text /\ d.point = e.point /\ d.undo = e.undo
        /\ d.saved = e.saved /\ d.rec = e.rec /\ d.list = l /\ d.offset = e.offset
        /\ d \in Editor
    BY <1>1, <2>5, <2>6 DEF Editor
  <2> QED
    BY <1>1, <2>1, <2>5, <2>7 DEF Besides, Fine, Place
<1>3. CASE ~(OnEntry(e) /\ Current(e).data # e.undo)
  <2>1. d = e
    BY <1>3 DEF MaybeReplace
  <2> QED
    BY <2>1 DEF Besides
<1> QED
  BY <1>2, <1>3

\* rl_maybe_save_line.
LEMMA SaveFine ==
  ASSUME NEW e, Fine(e), NEW d, d = MaybeSave(e)
  PROVE  /\ Besides(e, d) /\ d.text = e.text /\ d.point = e.point /\ d.undo = e.undo
         /\ d.list = e.list /\ d.rec = e.rec /\ d.saved # <<>>
         /\ e.saved # <<>> => d = e
         /\ e.saved = <<>> => d.saved[1].line = e.text /\ d.saved[1].data = e.undo
<1>1. e \in Editor
  BY DEF Fine
<1>2. CASE e.saved = <<>>
  <2>1. PICK x : x = [line |-> e.text, data |-> e.undo]
    OBVIOUS
  <2>2. x \in Entry /\ x.line = e.text /\ x.data = e.undo
    BY <1>1, <2>1, Parts DEF Entry, Text
  <2>3. PICK s \in [{1} -> Entry] : s = <<x>> /\ s[1] = x /\ s # <<>>
    BY <2>2, OneEntry
  <2>4. d = [e EXCEPT !.saved = s]
    BY <1>2, <2>1, <2>3 DEF MaybeSave
  <2>5. /\ d.text = e.text /\ d.point = e.point /\ d.undo = e.undo
        /\ d.saved = s /\ d.rec = e.rec /\ d.list = e.list /\ d.offset = e.offset
        /\ d \in Editor
    BY <1>1, <2>4 DEF Editor
  <2> QED
    BY <1>1, <1>2, <2>2, <2>3, <2>5 DEF Besides, Fine
<1>3. CASE e.saved # <<>>
  <2>1. d = e
    BY <1>3 DEF MaybeSave
  <2> QED
    BY <1>3, <2>1 DEF Besides
<1> QED
  BY <1>2, <1>3

\* rl_maybe_unsave_line.
LEMMA UnsaveFine ==
  ASSUME NEW e, Fine(e), NEW d, d = MaybeUnsave(e)
  PROVE  /\ Besides(e, d) /\ d.list = e.list /\ d.rec = e.rec /\ d.saved = <<>>
         /\ PointIn(e) => PointIn(d)
         /\ e.saved = <<>> => d = e
         /\ e.saved # <<>> => /\ d.text = e.saved[1].line /\ d.undo = e.saved[1].data
                              /\ d.point = Len(d.text)
<1>1. e \in Editor
  BY DEF Fine
<1>2. CASE e.saved # <<>>
  <2>1. PICK t \in Text, p \in Pointer : t = e.saved[1].line /\ p = e.saved[1].data
    BY <1>1, <1>2, Parts
  <2>2. PICK n \in Nat : n = Len(t)
    BY TextLen
  <2>3. d = [e EXCEPT !.text = t, !.point = n, !.undo = p, !.saved = <<>>]
    BY <1>2, <2>1, <2>2 DEF MaybeUnsave
  <2>4. /\ d.text = t /\ d.point = n /\ d.undo = p
        /\ d.saved = <<>> /\ d.rec = e.rec /\ d.list = e.list /\ d.offset = e.offset
        /\ d \in Editor
    BY <1>1, <2>3 DEF Editor, Text
  <2> QED
    BY <1>1, <1>2, <2>1, <2>2, <2>4 DEF Besides, Fine, PointIn
<1>3. CASE e.saved = <<>>
  <2>1. d = e
    BY <1>3 DEF MaybeUnsave
  <2> QED
    BY <1>3, <2>1 DEF Besides
<1> QED
  BY <1>2, <1>3

\* A list is freed in a sound memory.
LEMMA FreeChainFine ==
  ASSUME NEW e, Fine(e), NEW p \in Pointer, NEW d, d = FreeChain(e, p)
  PROVE  /\ Fine(d) /\ d.text = e.text /\ d.point = e.point /\ d.undo = e.undo
         /\ d.list = e.list /\ d.offset = e.offset /\ d.saved = e.saved
         /\ Freed(e.rec, Of(e.rec, p), d.rec) /\ FreeIds(e) \subseteq FreeIds(d)
         /\ d = [e EXCEPT !.rec = d.rec]
<1>1. e \in Editor /\ Sound(e.rec)
  BY DEF Fine
<1>2. /\ d = [e EXCEPT !.rec = d.rec] /\ d.rec \in [Id -> UndoRec]
      /\ d.rec = [i \in Id |-> IF i \in Of(e.rec, p) THEN Free ELSE e.rec[i]]
  BY <1>1, FreeChainIs
<1>3. Freed(e.rec, Of(e.rec, p), d.rec)
  BY <1>2 DEF Freed
<1>4. Sound(d.rec)
  BY <1>1, <1>3, FreedIs
<1>5. PICK new : new = d.rec
  OBVIOUS
<1>6. /\ d.text = e.text /\ d.point = e.point /\ d.undo = e.undo
      /\ d.list = e.list /\ d.offset = e.offset /\ d.saved = e.saved /\ d \in Editor
  BY <1>1, <1>2, <1>5 DEF Editor, UndoRec, Text
<1>7. FreeIds(e) \subseteq FreeIds(d)
  BY <1>2 DEF FreeIds, Free
<1> QED
  BY <1>2, <1>3, <1>4, <1>6, <1>7 DEF Fine

\* d is e, but for the list of the line, those of entries, and more free records.
Unlisted(e, d) ==
  /\ Besides(e, d) /\ d.text = e.text /\ d.point = e.point /\ d.saved = e.saved
  /\ \A k \in 1 .. Len(e.list) : d.list[k].line = e.list[k].line
  /\ FreeIds(e) \subseteq FreeIds(d)

\* rl_free_undo_list.
LEMMA FreeUndoFine ==
  ASSUME NEW e, Fine(e), NEW d, d = FreeUndoList(e)
  PROVE  Unlisted(e, d) /\ d.undo = NULL
<1>1. e \in Editor /\ e.offset <= Len(e.list)
  BY DEF Fine
<1>2. PICK n \in Nat : n = Len(e.list)
  BY <1>1, Parts
<1>3. /\ e.undo \in Pointer /\ e.list \in Seq(Entry) /\ NULL \in Pointer /\ DOMAIN e.list = 1 .. n
      /\ \A k \in 1 .. n : e.list[k] \in Entry
  BY <1>1, <1>2, Parts, Pointers
<1>4. PICK b : b = FreeChain(e, e.undo)
  OBVIOUS
<1>5. /\ Fine(b) /\ b.text = e.text /\ b.point = e.point /\ b.undo = e.undo
      /\ b.list = e.list /\ b.offset = e.offset /\ b.saved = e.saved
      /\ FreeIds(e) \subseteq FreeIds(b)
  BY <1>3, <1>4, FreeChainFine
<1>6. PICK l : l = [k \in DOMAIN e.list |-> IF e.list[k].data = e.undo
                                              THEN [e.list[k] EXCEPT !.data = NULL] ELSE e.list[k]]
  OBVIOUS
<1>7. \A k \in 1 .. n : l[k] \in Entry /\ l[k].line = e.list[k].line
  BY <1>3, <1>6 DEF Entry
<1>8. l \in Seq(Entry) /\ Len(l) = n
  <2>1. l = [k \in 1 .. n |-> l[k]]
    BY <1>3, <1>6
  <2>2. l \in [1 .. n -> Entry]
    BY <1>7, <2>1
  <2> QED
    BY <2>2
<1>9. PICK a : a = [b EXCEPT !.undo = NULL]
  OBVIOUS
<1>10. /\ a \in Editor /\ a.text = b.text /\ a.point = b.point /\ a.undo = NULL
       /\ a.list = b.list /\ a.offset = b.offset /\ a.saved = b.saved /\ a.rec = b.rec
  BY <1>3, <1>5, <1>9 DEF Fine, Editor
<1>11. d = [a EXCEPT !.list = l]
  BY <1>4, <1>5, <1>6, <1>9, <1>10 DEF FreeUndoList, ReplaceData
<1>12. /\ d.text = e.text /\ d.point = e.point /\ d.undo = NULL /\ d.rec = b.rec
       /\ d.list = l /\ d.offset = e.offset /\ d.saved = e.saved /\ d \in Editor
  BY <1>5, <1>8, <1>10, <1>11 DEF Editor
<1>13. FreeIds(d) = FreeIds(b)
  BY <1>12 DEF FreeIds
<1>14. Besides(e, d)
  BY <1>1, <1>2, <1>5, <1>8, <1>12 DEF Fine, Besides
<1>15. \A k \in 1 .. Len(e.list) : d.list[k].line = e.list[k].line
  BY <1>2, <1>7, <1>12
<1> QED
  BY <1>5, <1>12, <1>13, <1>14, <1>15 DEF Unlisted

\* _rl_free_saved_history_line.
LEMMA FreeSavedFine ==
  ASSUME NEW e, Fine(e), NEW d, d = FreeSaved(e)
  PROVE  /\ Besides(e, d) /\ d.text = e.text /\ d.point = e.point /\ d.list = e.list
         /\ d.saved = <<>> /\ FreeIds(e) \subseteq FreeIds(d)
         /\ e.saved = <<>> => d = e
<1>1. e \in Editor
  BY DEF Fine
<1>2. CASE e.saved # <<>>
  <2>1. PICK p \in Pointer : p = e.saved[1].data
    BY <1>1, <1>2, Parts
  <2>2. PICK b : b = FreeChain(e, p)
    OBVIOUS
  <2>3. /\ Fine(b) /\ b.text = e.text /\ b.point = e.point /\ b.undo = e.undo
        /\ b.list = e.list /\ b.offset = e.offset /\ b.saved = e.saved
        /\ FreeIds(e) \subseteq FreeIds(b)
    BY <2>2, FreeChainFine
  <2>4. PICK q \in Pointer : q = IF b.undo = p THEN NULL ELSE b.undo
    BY <1>1, <2>3, Parts, Pointers
  <2>5. d = [b EXCEPT !.undo = q, !.saved = <<>>]
    <3>1. d = [b EXCEPT !.undo = IF @ = p THEN NULL ELSE @, !.saved = <<>>]
      BY <1>2, <2>1, <2>2 DEF FreeSaved
    <3> QED
      BY <2>3, <2>4, <3>1 DEF Fine, Editor
  <2>6. /\ d.text = b.text /\ d.point = b.point /\ d.rec = b.rec
        /\ d.list = b.list /\ d.offset = b.offset /\ d.saved = <<>> /\ d \in Editor
    BY <2>3, <2>5 DEF Fine, Editor
  <2>7. FreeIds(d) = FreeIds(b)
    BY <2>6 DEF FreeIds
  <2> QED
    BY <1>2, <2>3, <2>6, <2>7 DEF Besides, Fine
<1>3. CASE e.saved = <<>>
  <2>1. d = e
    BY <1>3 DEF FreeSaved
  <2> QED
    BY <1>3, <2>1 DEF Besides
<1> QED
  BY <1>2, <1>3

\* previous_history or next_history to an entry.
LEMMA GoToFine ==
  ASSUME NEW e, Fine(e), NEW j \in Nat, j < Len(e.list), NEW d, d = GoTo(e, j)
  PROVE  /\ Fine(d) /\ d.list = e.list /\ d.rec = e.rec /\ d.saved = e.saved /\ d.offset = j
         /\ d.text = e.list[j + 1].line /\ d.undo = e.list[j + 1].data /\ PointIn(d)
<1>1. e \in Editor /\ Sound(e.rec) /\ Len(e.list) \in Nat
  BY Parts DEF Fine
<1>2. j + 1 \in 1 .. Len(e.list)
  BY <1>1
<1>3. PICK x \in Entry : x = e.list[j + 1] /\ x.line \in Text /\ x.data \in Pointer
  BY <1>1, <1>2, Parts
<1>4. Len(x.line) \in Nat
  BY <1>3, TextLen
<1>5. /\ d.text = x.line /\ d.point = Len(x.line) /\ d.undo = x.data /\ d.offset = j
      /\ d.list = e.list /\ d.saved = e.saved /\ d.rec = e.rec
  BY <1>1, <1>3 DEF GoTo, Editor
<1>6. d \in Editor
  BY <1>1, <1>3, <1>4 DEF GoTo, Editor, Text
<1>7. j <= Len(e.list)
  BY <1>1
<1> QED
  BY <1>1, <1>3, <1>4, <1>5, <1>6, <1>7 DEF Fine, PointIn

-----------------------------------------------------------------------------
(* The line that is being typed *)

\* The line that is being typed, t, is in view after the entries, and saved else.
TypedHere(e, t) ==
  IF OnEntry(e) THEN e.saved # <<>> /\ e.saved[1].line = t ELSE e.saved = <<>> /\ e.text = t

\* A move leaves a sound memory with as many entries, and the line that was typed.
Moves(e, d) ==
  /\ Fine(d) /\ Len(d.list) = Len(e.list)
  /\ PointIn(e) => PointIn(d)
  /\ \A t : TypedHere(e, t) => TypedHere(d, t)

\* A move to an earlier line.
LEMMA BackwardFine ==
  ASSUME NEW e, Fine(e), NEW count \in Nat, count # 0, NEW d, d = Backward(e, count)
  PROVE  Moves(e, d)
<1>1. e \in Editor /\ Len(e.list) \in Nat /\ e.offset \in Nat /\ e.list \in Seq(Entry)
      /\ e.offset <= Len(e.list)
  BY Parts DEF Fine
<1>2. PICK s : s = MaybeSave(e)
  OBVIOUS
<1>3. PICK l : l = MaybeReplace(s)
  OBVIOUS
<1>4. /\ Besides(e, s) /\ s.text = e.text /\ s.point = e.point /\ s.undo = e.undo
      /\ s.list = e.list /\ s.rec = e.rec /\ s.saved # <<>>
      /\ e.saved # <<>> => s = e
      /\ e.saved = <<>> => s.saved[1].line = e.text
  BY <1>2, SaveFine
<1>5. Fine(s)
  BY <1>4 DEF Besides
<1>6. /\ Besides(s, l) /\ l.text = s.text /\ l.point = s.point /\ l.saved = s.saved /\ l.rec = s.rec
  BY <1>3, <1>5, ReplaceFine
<1>7. Fine(l) /\ Len(l.list) = Len(e.list) /\ l.offset = e.offset
  BY <1>4, <1>6 DEF Besides
<1>8. CASE e.list = <<>>
  <2>1. d = e
    BY <1>8 DEF Backward
  <2> QED
    BY <2>1 DEF Moves
<1>9. CASE e.list # <<>> /\ e.offset = 0
  <2>1. OnEntry(e)
    BY <1>1, <1>9 DEF OnEntry
  <2>2. CASE e.saved = <<>>
    <3>1. d = FreeSaved(l)
      BY <1>2, <1>3, <1>9, <2>2 DEF Backward
    <3>2. Besides(l, d) /\ d.text = l.text /\ d.point = l.point
      BY <1>7, <3>1, FreeSavedFine
    <3>3. \A t : ~TypedHere(e, t)
      BY <2>1, <2>2 DEF TypedHere
    <3> QED
      BY <1>4, <1>6, <1>7, <3>2, <3>3 DEF Moves, Besides, PointIn
  <2>3. CASE e.saved # <<>>
    <3>1. d = l
      BY <1>2, <1>3, <1>9, <2>3 DEF Backward
    <3>2. s = e
      BY <1>4, <2>3
    <3> QED
      BY <1>6, <1>7, <3>1, <3>2 DEF Moves, Besides, PointIn, TypedHere, OnEntry
  <2> QED
    BY <2>2, <2>3
<1>10. CASE e.list # <<>> /\ e.offset # 0
  <2>1. PICK j \in Nat : j = IF count > e.offset THEN 0 ELSE e.offset - count
    BY <1>1
  <2>2. j < Len(l.list)
    BY <1>1, <1>7, <1>10, <2>1
  <2>3. d = GoTo(l, j)
    BY <1>2, <1>3, <1>10, <2>1 DEF Backward
  <2>4. /\ Fine(d) /\ d.list = l.list /\ d.saved = l.saved /\ d.offset = j /\ PointIn(d)
    BY <1>7, <2>2, <2>3, GoToFine
  <2>5. OnEntry(d)
    BY <2>2, <2>4 DEF OnEntry
  <2>6. \A t : TypedHere(e, t) => TypedHere(d, t)
    BY <1>4, <1>6, <2>4, <2>5 DEF TypedHere
  <2> QED
    BY <1>7, <2>4, <2>6 DEF Moves
<1> QED
  BY <1>8, <1>9, <1>10

\* A move to a later line.
LEMMA ForwardFine ==
  ASSUME NEW e, Fine(e), NEW count \in Nat, count # 0, NEW d, d = Forward(e, count)
  PROVE  Moves(e, d)
<1>1. e \in Editor /\ Len(e.list) \in Nat /\ e.offset \in Nat /\ e.offset <= Len(e.list)
  BY Parts DEF Fine
<1>2. PICK l : l = MaybeReplace(e)
  OBVIOUS
<1>3. /\ Besides(e, l) /\ l.text = e.text /\ l.point = e.point /\ l.saved = e.saved /\ l.rec = e.rec
  BY <1>2, ReplaceFine
<1>4. Fine(l) /\ Len(l.list) = Len(e.list) /\ l.offset = e.offset
  BY <1>3 DEF Besides
<1>5. CASE e.offset + count < Len(e.list)
  <2>1. PICK j \in Nat : j = e.offset + count
    BY <1>1
  <2>2. d = GoTo(l, j) /\ j < Len(l.list)
    BY <1>2, <1>4, <1>5, <2>1 DEF Forward
  <2>3. /\ Fine(d) /\ d.list = l.list /\ d.saved = l.saved /\ d.offset = j /\ PointIn(d)
    BY <1>4, <2>2, GoToFine
  <2>4. OnEntry(d) /\ OnEntry(e)
    BY <1>1, <1>4, <1>5, <2>2, <2>3 DEF OnEntry
  <2> QED
    BY <1>3, <1>4, <2>3, <2>4 DEF Moves, TypedHere
<1>6. CASE ~(e.offset + count < Len(e.list))
  <2>1. PICK n \in Nat : n = Len(e.list)
    BY <1>1
  <2>2. PICK c : c = [l EXCEPT !.offset = n]
    OBVIOUS
  <2>3. /\ c.text = l.text /\ c.point = l.point /\ c.saved = l.saved /\ c.list = l.list
        /\ c.offset = n /\ c.rec = l.rec /\ c.undo = l.undo /\ c \in Editor
    BY <1>4, <2>2 DEF Fine, Editor
  <2>4. Fine(c) /\ Len(c.list) = n
    BY <1>4, <2>1, <2>3 DEF Fine
  <2>5. d = MaybeUnsave(c)
    BY <1>2, <1>6, <2>1, <2>2 DEF Forward
  <2>6. /\ Besides(c, d) /\ d.saved = <<>> /\ (PointIn(c) => PointIn(d))
        /\ c.saved = <<>> => d = c
        /\ c.saved # <<>> => d.text = c.saved[1].line
    BY <2>4, <2>5, UnsaveFine
  <2>7. ~OnEntry(d)
    BY <2>1, <2>3, <2>4, <2>6 DEF OnEntry, Besides
  <2>8. \A t : TypedHere(e, t) => TypedHere(d, t)
    BY <1>3, <2>3, <2>6, <2>7 DEF TypedHere
  <2>9. PointIn(e) => PointIn(d)
    BY <1>3, <2>3, <2>6 DEF PointIn
  <2> QED
    BY <2>1, <2>4, <2>6, <2>8, <2>9 DEF Moves, Besides
<1> QED
  BY <1>5, <1>6

-----------------------------------------------------------------------------
(* The line replaced by an entry *)

\* What a text is with nothing in it, and what is left without all of it.
LEMMA WholeText ==
  ASSUME NEW t \in Text, NEW n \in Nat, n = Len(t)
  PROVE  Without(t, 0, n) = <<>> /\ With(<<>>, 0, t) = t
<1>1. SubSeq(t, 1, 0) = <<>> /\ SubSeq(t, n + 1, n) = <<>>
  BY DEF Text
<1>2. <<>> \o <<>> = <<>>
  OBVIOUS
<1>3. Without(t, 0, n) = <<>>
  BY <1>1, <1>2 DEF Without
<1>4. <<>> \in Text /\ SubSeq(<<>>, 1, 0) = <<>> /\ Len(<<>>) = 0
  BY DEF Text
<1>5. PICK w \in Text : IsWith(<<>>, 0, 0, t, n, w)
  <2>1. 0 \in 0 .. 0 /\ 0 = Len(<<>>)
    OBVIOUS
  <2> QED
    BY <1>4, <2>1, WithIs
<1>6. w = With(<<>>, 0, t) /\ Len(w) = n /\ \A k \in Nat \ {0} : k <= n => w[k] = t[k]
  BY <1>5 DEF IsWith
<1>7. w = t
  BY <1>6, SameCharacters DEF Agree
<1> QED
  BY <1>3, <1>6, <1>7

\* The undo list of the line, unless the entry or the saved line holds it.
LEMMA FreedForEntryFine ==
  ASSUME NEW e, Fine(e), NEW entry, NEW d, d = FreedForEntry(e, entry)
  PROVE  Unlisted(e, d) /\ (d.undo = NULL \/ d = e)
<1>1. CASE d = e
  BY <1>1 DEF Unlisted, Besides
<1>2. CASE d # e
  <2>1. d = FreeUndoList(e)
    BY <1>2 DEF FreedForEntry
  <2> QED
    BY <2>1, FreeUndoFine
<1> QED
  BY <1>1, <1>2

\* d is f with the line replaced, and no saved line.
MadeOf(f, d) == Spares(f, d) /\ d.list = f.list /\ d.saved = <<>> /\ Alive(d)

\* The text of the entry replaces that of the line, unless a freed list is held:
\* then nothing else is known of it.
LEMMA MakeCurrentFine ==
  ASSUME NEW e, Fine(e), RoomFor(e, 4), NEW entry \in Entry, NEW d, d = MakeCurrent(e, entry)
  PROVE  /\ Besides(e, d)
         /\ \A k \in 1 .. Len(e.list) : d.list[k].line = e.list[k].line
         /\ ~Dangling(d) => d.text = entry.line /\ d.saved = <<>> /\ PointIn(d)
         /\ ~Dangling(FreedForEntry(e, entry)) => MadeOf(FreedForEntry(e, entry), d)
<1>1. PICK freed : freed = FreedForEntry(e, entry)
  OBVIOUS
<1>2. Unlisted(e, freed)
  BY <1>1, FreedForEntryFine
<1>3. Fine(freed) /\ RoomFor(freed, 4)
  BY <1>2, MoreRoom DEF Unlisted, Besides
<1>4. PICK t \in Text : t = e.text /\ t = freed.text
  BY <1>2, <1>3, Parts DEF Unlisted, Fine
<1>5. entry.line \in Text /\ entry.data \in Pointer
  BY DEF Entry, Text
<1>6. CASE Dangling(freed)
  <2>1. d = freed
    BY <1>1, <1>6 DEF MakeCurrent
  <2> QED
    BY <1>1, <1>2, <1>6, <2>1 DEF Unlisted
<1>7. CASE ~Dangling(freed)
  <2>1. Works(freed, 4)
    BY <1>3, <1>7, AliveIs DEF Works
  <2>2. PICK first : first = [freed EXCEPT !.point = 0]
    OBVIOUS
  <2>3. TextSet(freed, first, t, 0)
    <3>1. freed \in Editor
      BY <1>3 DEF Fine
    <3> QED
      BY <1>4, <2>2, <3>1 DEF TextSet, Editor
  <2>4. Works(first, 4) /\ SameLines(freed, first) /\ first.text = t /\ Spares(freed, first)
    BY <2>1, <2>3, TextWorks
  <2>5. PICK begun : begun = Group(first, "begin")
    OBVIOUS
  <2>6. /\ Works(begun, 3) /\ SameLines(first, begun) /\ begun.text = t /\ begun.point = 0
        /\ begun.undo \in Id /\ begun.rec[begun.undo].what = "begin" /\ Spares(first, begun)
    <3>1. OneLess(3, 4) /\ first.point = 0
      BY <2>1, <2>3, TextWorks DEF OneLess
    <3> QED
      BY <2>4, <2>5, <3>1, GroupWorks
  <2>7. PICK cut : cut = IF e.text = <<>> THEN begun ELSE DeleteText(begun, 0, Len(e.text))
    OBVIOUS
  <2>8. /\ Works(cut, 2) /\ SameLines(begun, cut) /\ cut.text = <<>> /\ cut.point = 0
        /\ cut.undo \in Id /\ cut.rec[cut.undo].what # "insert" /\ Spares(begun, cut)
    <3>1. CASE t = <<>>
      <4>1. cut = begun
        BY <1>4, <2>7, <3>1
      <4>2. RoomFor(begun, 2)
        <5>1. Cardinality(FreeIds(begun)) \in Nat
          BY FreeNumber, FS_CardinalityType
        <5> QED
          BY <2>6, <5>1 DEF Works, RoomFor
      <4>3. Spares(begun, cut)
        BY <4>1 DEF Spares
      <4> QED
        BY <2>6, <3>1, <4>1, <4>2, <4>3 DEF Works, SameLines
    <3>2. CASE t # <<>>
      <4>1. PICK n \in Nat : n = Len(t)
        BY TextLen
      <4>2. PartOf(t, 0, n) /\ OneLess(2, 3)
        BY <4>1 DEF PartOf, OneLess
      <4>3. cut = DeleteText(begun, 0, n)
        BY <1>4, <2>7, <3>2, <4>1
      <4>4. /\ Works(cut, 2) /\ SameLines(begun, cut) /\ cut.text = Without(t, 0, n) /\ cut.point = 0
            /\ cut.undo \in Id /\ cut.rec[cut.undo].what = "delete" /\ Spares(begun, cut)
        BY <2>6, <4>2, <4>3, DeleteWorks
      <4> QED
        BY <4>1, <4>4, WholeText
    <3> QED
      BY <3>1, <3>2
  <2>9. PICK replaced : replaced = InsertText(cut, entry.line)
    OBVIOUS
  <2>10. /\ Works(replaced, 1) /\ SameLines(cut, replaced) /\ replaced.text = entry.line
         /\ PointIn(replaced) /\ Spares(cut, replaced)
    <3>1. <<>> \in Text /\ Len(<<>>) = 0 /\ 0 \in 0 .. 0 /\ OneLess(1, 2)
      BY DEF Text, OneLess
    <3>2. /\ Works(replaced, 1) /\ SameLines(cut, replaced) /\ PointIn(replaced) /\ Spares(cut, replaced)
          /\ replaced.text = With(<<>>, 0, entry.line)
      <4>1. PICK none \in Text : none = <<>> /\ Len(none) = 0
        BY <3>1
      <4>2. PICK new \in Text : new = entry.line
        BY <1>5
      <4>3. Works(cut, 2) /\ cut.text = none /\ cut.point = 0 /\ cut.point \in 0 .. Len(none)
        BY <2>8, <3>1, <4>1
      <4>4. replaced = InsertText(cut, new)
        BY <2>9, <4>2
      <4>5. /\ Works(replaced, 1) /\ SameLines(cut, replaced) /\ PointIn(replaced) /\ Spares(cut, replaced)
            /\ replaced.text = With(none, cut.point, new)
        BY ONLY <3>1, <4>3, <4>4, InsertWorks, none \in Text, new \in Text
      <4> QED
        BY <4>1, <4>2, <4>3, <4>5
    <3>3. Len(entry.line) \in Nat
      BY <1>5, TextLen
    <3> QED
      BY <1>5, <3>2, <3>3, WholeText
  <2>11. PICK ended : ended = Group(replaced, "end")
    OBVIOUS
  <2>12. /\ Works(ended, 0) /\ SameLines(replaced, ended) /\ ended.text = entry.line
         /\ PointIn(ended) /\ Spares(replaced, ended)
    <3>1. OneLess(0, 1)
      BY DEF OneLess
    <3> QED
      BY <2>10, <2>11, <3>1, GroupWorks DEF PointIn
  <2>13. d = [ended EXCEPT !.saved = <<>>]
    BY <1>1, <1>7, <2>2, <2>5, <2>7, <2>9, <2>11 DEF MakeCurrent
  <2>14. Fine(ended) /\ SameLines(freed, ended)
    BY <2>4, <2>6, <2>8, <2>10, <2>12 DEF Works, SameLines
  <2>15. /\ d \in Editor /\ d.text = ended.text /\ d.point = ended.point /\ d.rec = ended.rec
         /\ d.list = ended.list /\ d.offset = ended.offset /\ d.saved = <<>>
    BY <2>13, <2>14 DEF Fine, Editor
  <2>16. Besides(e, d) /\ \A k \in 1 .. Len(e.list) : d.list[k].line = e.list[k].line
    BY <1>2, <2>14, <2>15 DEF Fine, Besides, Unlisted, SameLines
  <2>17. d.undo = ended.undo
    BY <2>13, <2>14 DEF Fine, Editor
  <2>18. Spares(freed, ended)
    BY <2>4, <2>6, <2>8, <2>10, <2>12, SparesOn
  <2>19. MadeOf(freed, d)
    BY <2>12, <2>14, <2>15, <2>17, <2>18 DEF MadeOf, Spares, Alive, Works, SameLines
  <2> QED
    BY <1>1, <2>12, <2>15, <2>16, <2>19 DEF PointIn
<1> QED
  BY <1>6, <1>7

-----------------------------------------------------------------------------
(* What accepting a line leaves, whatever the lists are *)

\* d is an editor with as many entries as e and the same place; its records end
\* where they start or after it.
Formed(e, d) ==
  /\ d \in Editor /\ \A i \in Id : d.rec[i].start <= d.rec[i].end
  /\ d.offset = e.offset /\ Len(d.list) = Len(e.list)

\* The entries told of a list.
LEMMA ReplaceDataForms ==
  ASSUME NEW e, NEW c, Formed(e, c), NEW old, NEW p \in Pointer, NEW d, d = ReplaceData(c, old, p)
  PROVE  Formed(e, d) /\ d.undo = c.undo /\ d.rec = c.rec /\ d.saved = c.saved /\ d.text = c.text
<1>1. c \in Editor
  BY DEF Formed
<1>2. PICK n \in Nat : n = Len(c.list)
  BY <1>1, Parts
<1>3. DOMAIN c.list = 1 .. n /\ \A k \in 1 .. n : c.list[k] \in Entry
  BY <1>1, <1>2, Parts
<1>4. PICK l : l = [k \in DOMAIN c.list |-> IF c.list[k].data = old
                                              THEN [c.list[k] EXCEPT !.data = p] ELSE c.list[k]]
  OBVIOUS
<1>5. \A k \in 1 .. n : l[k] \in Entry
  BY <1>3, <1>4 DEF Entry
<1>6. l \in Seq(Entry) /\ Len(l) = n
  <2>1. l = [k \in 1 .. n |-> l[k]]
    BY <1>3, <1>4
  <2>2. l \in [1 .. n -> Entry]
    BY <1>5, <2>1
  <2> QED
    BY <2>2
<1>7. d = [c EXCEPT !.list = l]
  BY <1>4 DEF ReplaceData
<1>8. /\ d.text = c.text /\ d.undo = c.undo /\ d.rec = c.rec
      /\ d.list = l /\ d.offset = c.offset /\ d.saved = c.saved /\ d \in Editor
  BY <1>1, <1>6, <1>7 DEF Editor
<1> QED
  BY <1>2, <1>6, <1>8 DEF Formed

\* A record undone.
LEMMA UndoRecordForms ==
  ASSUME NEW e, NEW c, Formed(e, c), c.undo # NULL, NEW d, d = UndoRecord(c)
  PROVE  Formed(e, d)
<1>1. c \in Editor
  BY DEF Formed
<1>2. PICK h \in Id : h = c.undo
  BY <1>1, Parts, Pointers
<1>3. PICK r \in UndoRec : r = c.rec[h] /\ r.start <= r.end
  BY <1>1, Parts DEF Formed
<1>4. PICK t \in Text : t = c.text
  BY <1>1, Parts
<1>5. PICK y \in Text : y = UndoneText(t, r)
  BY <1>3, UndoneIs
<1>6. PICK p \in Nat : p = UndonePoint(t, c.point, r)
  BY <1>1, <1>3, Parts, UndonePointNat
<1>7. PICK q \in Pointer : q = r.next
  BY <1>3 DEF UndoRec
<1>8. PICK a : a = [c EXCEPT !.text = y, !.point = p, !.undo = q]
  OBVIOUS
<1>9. Formed(e, a) /\ a.undo = q
  BY <1>1, <1>8 DEF Formed, Editor, Text
<1>10. PICK b : b = EntryTold(a, h)
  OBVIOUS
<1>11. Formed(e, b) /\ b.undo = q
  <2>1. CASE OnEntry(a) /\ Current(a).data = h
    <3>1. a \in Editor
      BY <1>9 DEF Formed
    <3>2. PICK n \in Nat : n = Len(a.list)
      BY <3>1, Parts
    <3>3. a.text \in Text /\ a.list \in Seq(Entry) /\ a.offset + 1 \in 1 .. n
      BY <2>1, <3>1, <3>2, Parts DEF OnEntry
    <3>4. PICK x \in Entry : x = [line |-> a.text, data |-> a.undo]
      BY <1>9, <3>3 DEF Entry, Text
    <3>5. PICK l : l = [a.list EXCEPT ![a.offset + 1] = x]
      OBVIOUS
    <3>6. l \in Seq(Entry) /\ Len(l) = n
      BY <3>2, <3>3, <3>5
    <3>7. b = [a EXCEPT !.list = l]
      BY <1>10, <2>1, <3>4, <3>5 DEF EntryTold
    <3>8. b \in Editor /\ b.list = l /\ b.undo = a.undo /\ b.rec = a.rec /\ b.offset = a.offset
      BY <3>1, <3>6, <3>7 DEF Editor
    <3> QED
      BY <1>9, <3>2, <3>6, <3>8 DEF Formed
  <2>2. CASE ~(OnEntry(a) /\ Current(a).data = h)
    BY <1>9, <1>10, <2>2 DEF EntryTold
  <2> QED
    BY <2>1, <2>2
<1>12. PICK told : told = ReplaceData(b, h, q)
  OBVIOUS
<1>13. Formed(e, told) /\ told.rec = b.rec /\ told.saved = b.saved
  BY <1>11, <1>12, ReplaceDataForms
<1>14. PICK o : o = OthersTold(b, h)
  OBVIOUS
<1>15. Formed(e, o)
  <2>1. CASE b.saved = <<>>
    BY <1>11, <1>12, <1>13, <1>14, <2>1 DEF OthersTold
  <2>2. CASE b.saved # <<>>
    <3>1. told \in Editor /\ b \in Editor
      BY <1>11, <1>13 DEF Formed
    <3>2. PICK s \in [{1} -> Entry] : s = told.saved
      BY <1>13, <2>2, <3>1, Parts
    <3>3. PICK z \in Pointer : z = IF s[1].data = h THEN q ELSE s[1].data
      BY <3>2 DEF Entry
    <3>4. PICK w : w = [s EXCEPT ![1].data = z]
      OBVIOUS
    <3>5. w \in [{1} -> Entry]
      BY <3>2, <3>3, <3>4 DEF Entry
    <3>6. PICK new : new = [i \in Id |-> IF i \in Range(Chain(b, b.saved[1].data)) /\ b.rec[i].next = h
                                           THEN [b.rec[i] EXCEPT !.next = q] ELSE b.rec[i]]
      OBVIOUS
    <3>7. b.rec \in [Id -> UndoRec] /\ \A i \in Id : b.rec[i].start <= b.rec[i].end
      BY <1>11, <3>1, Parts DEF Formed
    <3>8. \A i \in Id : new[i] \in UndoRec /\ new[i].start <= new[i].end
      BY <3>6, <3>7 DEF UndoRec
    <3>9. new \in [Id -> UndoRec]
      BY <3>6, <3>8
    <3>10. o = [told EXCEPT !.saved = w, !.rec = new]
      <4>1. o = [told EXCEPT !.saved[1].data = IF @ = h THEN q ELSE @, !.rec = new]
        BY <1>11, <1>12, <1>14, <2>2, <3>6 DEF OthersTold
      <4> QED
        BY <3>1, <3>2, <3>3, <3>4, <4>1 DEF Editor
    <3>11. o \in Editor /\ o.rec = new /\ o.offset = told.offset /\ o.list = told.list
      BY <3>1, <3>5, <3>9, <3>10 DEF Editor, UndoRec, Text
    <3> QED
      BY <1>13, <3>8, <3>11 DEF Formed
  <2> QED
    BY <2>1, <2>2
<1>16. d = [o EXCEPT !.rec[h] = Free]
  BY <1>2, <1>3, <1>4, <1>5, <1>6, <1>7, <1>8, <1>10, <1>14 DEF UndoRecord
<1>17. Free \in UndoRec /\ Free.start <= Free.end
  BY Pointers DEF Free, UndoRec, Text
<1>18. PICK new : new = [o.rec EXCEPT ![h] = Free]
  OBVIOUS
<1>19. o \in Editor /\ o.rec \in [Id -> UndoRec]
  BY <1>15, Parts DEF Formed
<1>20. new \in [Id -> UndoRec] /\ \A i \in Id : new[i].start <= new[i].end
  BY <1>15, <1>17, <1>18, <1>19 DEF Formed
<1>21. d = [o EXCEPT !.rec = new]
  BY <1>16, <1>18
<1>22. d \in Editor /\ d.rec = new /\ d.offset = o.offset /\ d.list = o.list
  BY <1>19, <1>20, <1>21 DEF Editor, UndoRec, Text
<1> QED
  BY <1>15, <1>20, <1>22 DEF Formed

\* All records undone.
LEMMA RevertLineForms ==
  ASSUME NEW e, Formed(e, e)
  PROVE  Formed(e, RevertLine(e))
<1>1. PICK S : \A d : d \in S <=> d \in Editor /\ Formed(e, d)
  <2>1. \A d : d \in {c \in Editor : Formed(e, c)} <=> d \in Editor /\ Formed(e, d)
    OBVIOUS
  <2> QED
    BY <2>1
<1>2. \A d \in S : d.undo # NULL => UndoRecord(d) \in S
  BY <1>1, UndoRecordForms DEF Formed
<1>3. \A d \in S : RevertRound(d) \in S
  <2> SUFFICES ASSUME NEW d \in S, d.undo # NULL PROVE DoUndo(d) \in S
    BY DEF RevertRound
  <2>1. d.undo \in Id
    BY <1>1, Parts, Pointers
  <2> QED
    BY <1>2, <2>1, DoUndoStays
<1>4. e \in S
  BY <1>1 DEF Formed
<1>5. PICK T : T = [k \in 0 .. MaxRecords |-> S]
  OBVIOUS
<1>6. e \in T[0] /\ \A k \in Id : \A d \in S : d \in T[k - 1] => RevertRound(d) \in T[k]
  <2>1. 0 \in 0 .. MaxRecords /\ \A k \in Id : k \in 0 .. MaxRecords
    BY LineEditorAssumption DEF Id
  <2> QED
    BY <1>3, <1>4, <1>5, <2>1
<1>7. RevertLine(e) \in S
  BY <1>3, <1>4, <1>6, RevertLineStays
<1> QED
  BY <1>1, <1>7

\* The entry of the line gets back its first text.
LEMMA RestoredForms ==
  ASSUME NEW e, Formed(e, e), NEW d, d = Restored(e)
  PROVE  Formed(e, d) /\ d.text = e.text
<1>1. CASE d = e
  BY <1>1
<1>2. CASE d # e
  <2>1. OnEntry(e) /\ e.undo # NULL
    BY <1>2 DEF Restored
  <2>2. PICK r : r = RevertLine(e)
    OBVIOUS
  <2>3. Formed(e, r) /\ r \in Editor /\ e \in Editor
    BY <2>2, RevertLineForms DEF Formed
  <2>4. PICK n \in Nat : n = Len(r.list)
    BY <2>3, Parts
  <2>5. r.text \in Text /\ r.list \in Seq(Entry) /\ e.offset + 1 \in 1 .. n /\ NULL \in Pointer
    BY <2>1, <2>3, <2>4, Parts, Pointers DEF OnEntry, Formed
  <2>6. PICK x \in Entry : x = [line |-> r.text, data |-> NULL]
    BY <2>5 DEF Entry, Text
  <2>7. PICK l : l = [r.list EXCEPT ![e.offset + 1] = x]
    OBVIOUS
  <2>8. l \in Seq(Entry) /\ Len(l) = n
    BY <2>4, <2>5, <2>7
  <2>9. PICK t \in Text : t = e.text
    BY <2>3, Parts
  <2>10. d = [r EXCEPT !.list = l, !.text = t]
    BY <2>1, <2>2, <2>6, <2>7, <2>9 DEF Restored
  <2>11. d \in Editor /\ d.list = l /\ d.text = t /\ d.rec = r.rec /\ d.offset = r.offset
    BY <2>3, <2>8, <2>10 DEF Editor, Text
  <2> QED
    BY <2>3, <2>4, <2>8, <2>9, <2>11 DEF Formed
<1> QED
  BY <1>1, <1>2

\* A list is freed.
LEMMA FreeChainForms ==
  ASSUME NEW e, NEW c, Formed(e, c), NEW p, NEW d, d = FreeChain(c, p)
  PROVE  /\ Formed(e, d) /\ d.undo = c.undo /\ d.text = c.text /\ d.list = c.list /\ d.saved = c.saved
<1>1. c \in Editor /\ c.rec \in [Id -> UndoRec]
  BY Parts DEF Formed
<1>2. PICK new : new = [i \in Id |-> IF i \in Range(Chain(c, p)) THEN Free ELSE c.rec[i]]
  OBVIOUS
<1>3. Free \in UndoRec /\ Free.start <= Free.end
  BY Pointers DEF Free, UndoRec, Text
<1>4. new \in [Id -> UndoRec] /\ \A i \in Id : new[i].start <= new[i].end
  BY <1>1, <1>2, <1>3 DEF Formed
<1>5. d = [c EXCEPT !.rec = new]
  BY <1>2 DEF FreeChain
<1>6. /\ d \in Editor /\ d.rec = new /\ d.offset = c.offset /\ d.list = c.list
      /\ d.undo = c.undo /\ d.text = c.text /\ d.saved = c.saved
  BY <1>1, <1>4, <1>5 DEF Editor, UndoRec, Text
<1> QED
  BY <1>4, <1>6 DEF Formed

\* The next line is empty, after the entries, of which there is one more unless the
\* line was empty.
LEMMA AcceptedForms ==
  ASSUME NEW e, Formed(e, e), NEW d, d = Accepted(e, FALSE)
  PROVE  /\ d \in Editor /\ d.text = <<>> /\ d.point = 0 /\ d.offset = Len(d.list)
         /\ Len(d.list) = OneMore(Len(e.list), e.text)
<1>1. PICK r : r = Restored(e)
  OBVIOUS
<1>2. Formed(e, r) /\ r.text = e.text /\ r \in Editor /\ r.undo \in Pointer
  BY <1>1, RestoredForms, Parts DEF Formed
<1>3. PICK b : b = FreeChain(r, r.undo)
  OBVIOUS
<1>4. Formed(e, b) /\ b.text = e.text /\ b \in Editor
  BY <1>2, <1>3, FreeChainForms DEF Formed
<1>5. PICK a : a = [b EXCEPT !.undo = NULL]
  OBVIOUS
<1>6. Formed(e, a) /\ a.text = e.text
  BY <1>4, <1>5, Pointers DEF Formed, Editor
<1>7. PICK c : c = ReplaceData(a, r.undo, NULL)
  OBVIOUS
<1>8. Formed(e, c) /\ c.text = e.text /\ c \in Editor /\ c = FreeUndoList(r)
  <2>1. NULL \in Pointer
    BY Pointers
  <2>2. Formed(e, c) /\ c.text = a.text
    BY <1>6, <1>7, <2>1, ReplaceDataForms
  <2>3. c = FreeUndoList(r)
    BY <1>3, <1>5, <1>7 DEF FreeUndoList
  <2> QED
    BY <1>6, <2>2, <2>3 DEF Formed
<1>9. d = NextLine(c)
  BY <1>1, <1>8 DEF Accepted
<1>10. PICK f : f = FreeSaved(c)
  OBVIOUS
<1>11. f \in Editor
  <2>1. CASE c.saved = <<>>
    BY <1>8, <1>10, <2>1 DEF FreeSaved
  <2>2. CASE c.saved # <<>>
    <3>1. PICK g : g = FreeChain(c, c.saved[1].data)
      OBVIOUS
    <3>2. g \in Editor
      BY <1>8, <3>1, FreeChainForms DEF Formed
    <3>3. f = [g EXCEPT !.undo = IF @ = c.saved[1].data THEN NULL ELSE @, !.saved = <<>>]
      BY <1>10, <2>2, <3>1 DEF FreeSaved
    <3> QED
      BY <3>2, <3>3, Pointers DEF Editor
  <2> QED
    BY <2>1, <2>2
<1>12. PICK n \in Nat : n = Len(c.list)
  BY <1>8, Parts
<1>13. PICK l : l = IF c.text = <<>> THEN c.list ELSE Append(c.list, [line |-> c.text, data |-> NULL])
  OBVIOUS
<1>14. l \in Seq(Entry) /\ Len(l) = OneMore(n, c.text)
  <2>1. c.text \in Text /\ c.list \in Seq(Entry) /\ NULL \in Pointer
    BY <1>8, Parts, Pointers
  <2>2. [line |-> c.text, data |-> NULL] \in Entry
    BY <2>1 DEF Entry, Text
  <2> QED
    BY <1>12, <1>13, <2>1, <2>2 DEF OneMore
<1>15. PICK n2 \in Nat : n2 = Len(l)
  BY <1>12, <1>14 DEF OneMore
<1>16. d = [f EXCEPT !.list = l, !.offset = n2, !.text = <<>>, !.point = 0]
  BY <1>9, <1>10, <1>13, <1>15 DEF NextLine
<1>17. d \in Editor /\ d.text = <<>> /\ d.point = 0 /\ d.list = l /\ d.offset = n2
  <2>1. PICK t \in Seq(Char) : t = <<>>
    <3>1. <<>> \in Seq(Char)
      OBVIOUS
    <3> QED
      BY <3>1
  <2>2. d = [f EXCEPT !.list = l, !.offset = n2, !.text = t, !.point = 0] /\ 0 \in Nat
    BY <1>16, <2>1
  <2>3. d \in Editor /\ d.text = t /\ d.point = 0 /\ d.list = l /\ d.offset = n2
    BY <1>11, <1>14, <2>2 DEF Editor
  <2> QED
    BY <2>1, <2>3
<1> QED
  BY <1>8, <1>12, <1>14, <1>15, <1>17 DEF Formed

-----------------------------------------------------------------------------
(* The incremental search: nearest places *)

\* Numbers between two others.
Within(S, a, b) == \A y \in S : y \in a .. b

\* The nearest number of a set, in either direction.
LEMMA NearestIs ==
  ASSUME NEW a \in Int, NEW b \in Int, NEW S, Within(S, a, b), S # {}, NEW r
  PROVE  /\ Nearest(r, S) \in S
         /\ \A y \in S : IF r THEN y <= Nearest(r, S) ELSE Nearest(r, S) <= y
<1>1. CASE r
  <2>1. PICK B : B = {b - y : y \in S}
    OBVIOUS
  <2>2. B \in SUBSET Nat /\ B # {}
    <3>1. \A y \in S : b - y \in Nat
      BY DEF Within
    <3>2. PICK y : y \in S
      OBVIOUS
    <3>3. b - y \in B
      BY <2>1, <3>2
    <3> QED
      BY <2>1, <3>1, <3>3
  <2>3. PICK x \in B : \A y \in B : x <= y
    BY <2>2, LeastNumber
  <2>4. PICK z \in S : x = b - z
    BY <2>1
  <2>5. \A y \in S : z >= y
    <3> SUFFICES ASSUME NEW y \in S PROVE z >= y
      OBVIOUS
    <3>1. x <= b - y
      BY <2>1, <2>3
    <3> QED
      BY <2>4, <3>1 DEF Within
  <2>6. Max(S) \in S /\ \A y \in S : Max(S) >= y
    BY <2>5 DEF Max
  <2> QED
    BY <1>1, <2>6 DEF Nearest
<1>2. CASE ~r
  <2>1. PICK B : B = {y - a : y \in S}
    OBVIOUS
  <2>2. B \in SUBSET Nat /\ B # {}
    <3>1. \A y \in S : y - a \in Nat
      BY DEF Within
    <3>2. PICK y : y \in S
      OBVIOUS
    <3>3. y - a \in B
      BY <2>1, <3>2
    <3> QED
      BY <2>1, <3>1, <3>3
  <2>3. PICK x \in B : \A y \in B : x <= y
    BY <2>2, LeastNumber
  <2>4. PICK z \in S : x = z - a
    BY <2>1
  <2>5. \A y \in S : z <= y
    <3> SUFFICES ASSUME NEW y \in S PROVE z <= y
      OBVIOUS
    <3>1. x <= y - a
      BY <2>1, <2>3
    <3> QED
      BY <2>4, <3>1 DEF Within
  <2>6. Min(S) \in S /\ \A y \in S : Min(S) <= y
    BY <2>5 DEF Min
  <2> QED
    BY <1>2, <2>6 DEF Nearest
<1> QED
  BY <1>1, <1>2

\* The greater of two numbers.
LEMMA GreaterIs ==
  ASSUME NEW a \in Int, NEW b \in Int
  PROVE  Max({a, b}) \in Int /\ Max({a, b}) >= a /\ Max({a, b}) >= b
<1>1. \E x \in {a, b} : \A y \in {a, b} : x >= y
  OBVIOUS
<1>2. Max({a, b}) \in {a, b} /\ \A y \in {a, b} : Max({a, b}) >= y
  BY <1>1 DEF Max
<1> QED
  BY <1>2

\* Of lines, the longest is as long as the greatest of their lengths.
LEMMA LongestIs ==
  ASSUME NEW n \in Nat, NEW f, \A k \in 1 .. n : f[k] \in Nat
  PROVE  \A k \in 1 .. n : f[k] <= Max({f[j] : j \in 1 .. n}) /\ Max({f[j] : j \in 1 .. n}) \in Nat
<1>1. PICK B : B = {m \in Nat : m # 0 /\ m <= n /\ \A j \in 1 .. m : \E k \in 1 .. m : ~(f[k] <= f[j])}
  OBVIOUS
<1>2. B = {}
  <2> SUFFICES ASSUME B # {} PROVE FALSE
    OBVIOUS
  <2>1. PICK m \in B : \A y \in B : m <= y
    BY <1>1, LeastNumber
  <2>2. m \in Nat /\ m # 0 /\ m <= n /\ \A j \in 1 .. m : \E k \in 1 .. m : ~(f[k] <= f[j])
    BY <1>1
  <2>3. CASE m = 1
    <3>1. 1 \in 1 .. m /\ \A k \in 1 .. m : k = 1
      BY <2>3
    <3>2. f[1] \in Nat
      BY <2>2, <2>3
    <3> QED
      BY <2>2, <3>1, <3>2
  <2>4. CASE m # 1
    <3>1. m - 1 \in Nat /\ m - 1 # 0 /\ m - 1 <= n /\ ~(m <= m - 1)
      BY <2>2, <2>4
    <3>2. m - 1 \notin B
      BY <2>1, <3>1
    <3>3. PICK j \in 1 .. m - 1 : \A k \in 1 .. m - 1 : f[k] <= f[j]
      BY <1>1, <3>1, <3>2
    <3>4. PICK x \in Nat, y \in Nat : x = f[j] /\ y = f[m]
      <4>1. j \in 1 .. n /\ m \in 1 .. n
        BY <2>2, <3>1
      <4> QED
        BY <4>1
    <3>5. \A k \in 1 .. m : k \in 1 .. m - 1 \/ k = m
      BY <2>2
    <3>6. CASE y <= x
      <4>1. j \in 1 .. m /\ \A k \in 1 .. m : f[k] <= f[j]
        BY <2>2, <3>3, <3>4, <3>5, <3>6
      <4> QED
        BY <2>2, <4>1
    <3>7. CASE ~(y <= x)
      <4>1. \A k \in 1 .. m - 1 : f[k] \in Nat
        BY <2>2
      <4>2. m \in 1 .. m /\ \A k \in 1 .. m : f[k] <= f[m]
        BY <2>2, <3>3, <3>4, <3>5, <3>7, <4>1
      <4> QED
        BY <2>2, <4>2
    <3> QED
      BY <3>6, <3>7
  <2> QED
    BY <2>3, <2>4
<1> SUFFICES ASSUME NEW k \in 1 .. n
             PROVE  f[k] <= Max({f[j] : j \in 1 .. n}) /\ Max({f[j] : j \in 1 .. n}) \in Nat
  OBVIOUS
<1>3. n # 0 /\ n \notin B
  BY <1>2
<1>4. PICK j \in 1 .. n : \A i \in 1 .. n : f[i] <= f[j]
  BY <1>1, <1>3
<1>5. PICK S : S = {f[i] : i \in 1 .. n}
  OBVIOUS
<1>6. f[j] \in S /\ \A y \in S : f[j] >= y
  BY <1>4, <1>5
<1>7. Max(S) \in S /\ \A y \in S : Max(S) >= y
  BY <1>6 DEF Max
<1> QED
  BY <1>5, <1>7

-----------------------------------------------------------------------------
(* The incremental search: the loop *)

\* The contexts of an incremental search.
ISearchContexts ==
  [reverse : BOOLEAN, start : Nat, point : Nat, typed : Text, string : Text,
   pos : Nat, found : Nat, prev : Text \cup {NoString}, sline : Text, at : Int,
   success : BOOLEAN, failed : BOOLEAN, before : Text, clean : BOOLEAN,
   missed : BOOLEAN, plain : BOOLEAN]

\* The lines that are searched.
LEMMA LinesAre ==
  ASSUME NEW e \in Editor, NEW cxt, cxt.typed \in Text
  PROVE  /\ Lines(e, cxt) \in Seq(Text) /\ Len(Lines(e, cxt)) = Len(e.list) + 1
         /\ \A k \in 1 .. Len(e.list) : Lines(e, cxt)[k] = e.list[k].line
         /\ Lines(e, cxt)[Len(e.list) + 1] = cxt.typed
<1>1. PICK n \in Nat : n = Len(e.list)
  BY Parts
<1>2. DOMAIN e.list = 1 .. n /\ \A k \in 1 .. n : e.list[k].line \in Text
  BY <1>1, Parts
<1>3. PICK a : a = [k \in 1 .. n |-> e.list[k].line]
  OBVIOUS
<1>4. a \in Seq(Text) /\ Len(a) = n /\ \A k \in 1 .. n : a[k] = e.list[k].line
  <2>1. a \in [1 .. n -> Text]
    BY <1>2, <1>3
  <2> QED
    BY <1>3, <2>1
<1>5. PICK t \in Text : t = cxt.typed
  OBVIOUS
<1>6. Lines(e, cxt) = a \o <<t>>
  BY <1>2, <1>3, <1>5 DEF Lines
<1>7. /\ a \o <<t>> \in Seq(Text) /\ Len(a \o <<t>>) = n + 1
      /\ \A k \in 1 .. n : (a \o <<t>>)[k] = a[k]
      /\ (a \o <<t>>)[n + 1] = t
  BY <1>4
<1> QED
  BY <1>1, <1>4, <1>5, <1>6, <1>7

\* A round of the loop at the end of _rl_isearch_dispatch.
SearchRound(c, lines) ==
  IF c.success \/ c.failed THEN c
  ELSE IF ScanLine(c).success THEN ScanLine(c) ELSE LineAfter(ScanLine(c), lines)

\* What the loop begins with.
Begun(cxt) == [cxt EXCEPT !.success = FALSE, !.failed = cxt.string = <<>>]

\* What the loop computes for every set of rounds.
SearchFold(f, cxt, lines) ==
  f = [x \in SUBSET DOMAIN [n \in 1 .. Len(lines) + 1 |-> n] |->
         IF x = {} THEN Begun(cxt) ELSE SearchRound(f[x \ {Max(x)}], lines)]

\* The loop leads where its rounds lead, one after the other.
LEMMA SearchLoopStays ==
  ASSUME NEW cxt, NEW lines, Len(lines) \in Nat,
         NEW S, \A c \in S : SearchRound(c, lines) \in S,
         NEW T, Begun(cxt) \in S, Begun(cxt) \in T[0],
         \A k \in 1 .. Len(lines) + 1 : \A c \in S : c \in T[k - 1] => SearchRound(c, lines) \in T[k]
  PROVE  SearchLoop(cxt, lines) \in S /\ SearchLoop(cxt, lines) \in T[Len(lines) + 1]
<1>1. PICK n \in Nat : n = Len(lines) + 1
  OBVIOUS
<1> DEFINE F == [k \in 1 .. n |-> [c \in S |-> SearchRound(c, lines)]]
<1>2. F \in [1 .. n -> [S -> S]]
  OBVIOUS
<1>3. \E f : SearchFold(f, cxt, lines)
  <2> HIDE DEF F
  <2>1. PICK f \in [SUBSET (1 .. n) -> S] : Folds(f, n, Begun(cxt), F)
    BY <1>2, FoldExists
  <2>2. \A x \in SUBSET (1 .. n) : x # {} => F[Max(x)][f[x \ {Max(x)}]]
                                               = SearchRound(f[x \ {Max(x)}], lines)
    <3> SUFFICES ASSUME NEW x \in SUBSET (1 .. n), x # {}
                 PROVE  F[Max(x)][f[x \ {Max(x)}]] = SearchRound(f[x \ {Max(x)}], lines)
      OBVIOUS
    <3>1. Max(x) \in 1 .. n
      BY GreatestIs
    <3>2. f[x \ {Max(x)}] \in S
      BY <2>1
    <3> QED
      BY <3>1, <3>2 DEF F
  <2>3. SearchFold(f, cxt, lines)
    BY <1>1, <2>1, <2>2 DEF SearchFold, Folds
  <2> QED
    BY <2>3
<1> HIDE DEF F
<1>4. PICK f : f = CHOOSE g : SearchFold(g, cxt, lines)
  OBVIOUS
<1>5. SearchFold(f, cxt, lines)
  BY <1>3, <1>4
<1>6. SearchLoop(cxt, lines) = f[1 .. n]
  BY <1>1, <1>4 DEF SearchFold, SearchLoop, SearchRound, Begun, FoldLeft, MapThenFoldSet
<1>7. PICK R : R = [k \in 0 .. n |-> {c \in S : c \in T[k]}]
  OBVIOUS
<1>8. f[{}] \in R[0]
  <2>1. f[{}] = Begun(cxt)
    BY <1>5 DEF SearchFold
  <2> QED
    BY <1>7, <2>1
<1>9. ASSUME NEW k \in 1 .. n, f[1 .. k - 1] \in R[k - 1]
      PROVE  f[1 .. k] \in R[k]
  <2>1. Max(1 .. k) = k /\ (1 .. k) \ {k} = 1 .. k - 1 /\ 1 .. k # {}
    <3> k \in Nat /\ k # 0
      OBVIOUS
    <3> QED
      BY GreatestUpTo
  <2>2. 1 .. k \in SUBSET (1 .. n)
    OBVIOUS
  <2>3. f[1 .. k] = SearchRound(f[1 .. k - 1], lines)
    BY <1>1, <1>5, <2>1, <2>2 DEF SearchFold
  <2>4. f[1 .. k - 1] \in S /\ f[1 .. k - 1] \in T[k - 1]
    <3>1. k - 1 \in 0 .. n
      OBVIOUS
    <3> QED
      BY <1>7, <1>9, <3>1
  <2>5. f[1 .. k] \in S /\ f[1 .. k] \in T[k]
    BY <1>1, <2>3, <2>4
  <2> QED
    BY <1>7, <2>5
<1>10. f[1 .. n] \in R[n]
  BY <1>8, <1>9, FoldStays
<1> QED
  BY <1>1, <1>6, <1>7, <1>10

-----------------------------------------------------------------------------
(* The incremental search: a round of the loop *)

\* d is the search c with another place, line or outcome.
SameSearch(c, d) ==
  /\ d.reverse = c.reverse /\ d.start = c.start /\ d.point = c.point /\ d.typed = c.typed
  /\ d.string = c.string /\ d.found = c.found /\ d.prev = c.prev
  /\ d.before = c.before /\ d.clean = c.clean /\ d.plain = c.plain

\* Index i is where a search comes that stands at index at, or that index itself.
Ahead(reverse, i, at) == IF reverse THEN i <= at ELSE i >= at

\* The string does not stand in the rest of the line.
NoHit(c) == \A i \in Nat : At(c.string, c.sline, i) => ~Ahead(c.reverse, i, c.at)

\* The line k (from 0) is where the search comes next, or later.
Farther(reverse, k, pos) == IF reverse THEN k < pos ELSE k > pos

\* It is, and is not passed over.
Wanted(c, lines, k) ==
  /\ k \in 0 .. Len(lines) - 1 /\ Farther(c.reverse, k, c.pos)
  /\ lines[k + 1] # c.prev /\ Len(c.string) <= Len(lines[k + 1])

\* The string is found in the rest of the line, at the nearest index.
FoundNext(c, d) ==
  /\ d.success /\ ~d.failed /\ d.pos = c.pos /\ d.sline = c.sline /\ d.missed = c.missed
  /\ d.at \in Nat /\ d.at <= Len(c.sline) /\ At(c.string, c.sline, d.at)
  /\ Ahead(c.reverse, d.at, c.at)
  /\ \A i \in Nat : At(c.string, c.sline, i) /\ Ahead(c.reverse, i, c.at) => Ahead(c.reverse, i, d.at)

\* The string is not there, and the search comes to the nearest line that is wanted.
PassedOn(c, d, lines) ==
  /\ ~d.success /\ ~d.failed /\ d.missed = c.missed /\ NoHit(c)
  /\ Wanted(c, lines, d.pos) /\ d.sline = lines[d.pos + 1]
  /\ d.at = IF c.reverse THEN Len(lines[d.pos + 1]) - Len(c.string) ELSE 0
  /\ d.at \in Nat
  /\ \A k : Wanted(c, lines, k) => Ahead(c.reverse, k, d.pos)

\* The string is not there, and no line is wanted.
MissedAll(c, d, lines) ==
  /\ ~d.success /\ d.failed /\ d.missed /\ d.pos = c.pos /\ NoHit(c)
  /\ IF c.reverse THEN d.at = 0 ELSE d.at \in Int /\ d.at >= c.at
  /\ \A k : ~Wanted(c, lines, k)
  /\ \/ d.sline = c.sline
     \/ \E k \in 0 .. Len(lines) - 1 : Farther(c.reverse, k, c.pos) /\ d.sline = lines[k + 1]

\* What the string stands at is in the line.
LEMMA AtInLine ==
  ASSUME NEW s \in Text, NEW t \in Text, NEW i \in Nat, At(s, t, i)
  PROVE  i <= Len(t) /\ i + Len(s) <= Len(t) /\ Len(s) \in Nat /\ Len(t) \in Nat
<1>1. Len(s) \in Nat /\ Len(t) \in Nat
  BY TextLen
<1> QED
  BY <1>1 DEF At

\* The rest of the current line is searched.
LEMMA ScanIs ==
  ASSUME NEW c \in ISearchContexts, ~c.success, ~c.failed, NEW d, d = ScanLine(c)
  PROVE  /\ d \in ISearchContexts /\ SameSearch(c, d)
         /\ d.success => FoundNext(c, d)
         /\ ~d.success => /\ NoHit(c) /\ ~d.failed /\ d.pos = c.pos /\ d.sline = c.sline
                          /\ d.missed = c.missed
                          /\ IF c.reverse THEN d.at = 0 ELSE d.at \in Int /\ d.at >= c.at
<1>1. /\ c.reverse \in BOOLEAN /\ c.string \in Text /\ c.sline \in Text /\ c.at \in Int
  BY DEF ISearchContexts
<1>2. PICK s \in Text, t \in Text, r \in BOOLEAN, at \in Int :
        s = c.string /\ t = c.sline /\ r = c.reverse /\ at = c.at
  BY <1>1
<1>3. PICK m \in Nat, n \in Nat : m = Len(s) /\ n = Len(t)
  BY TextLen
<1>4. PICK hits : hits = {i \in Matches(s, t) : IF r THEN i <= at ELSE i >= at}
  OBVIOUS
<1>5. \A i : i \in hits <=> i \in Nat /\ At(s, t, i) /\ Ahead(r, i, at)
  <2>1. \A i \in Nat : At(s, t, i) => i \in 0 .. n
    BY <1>3, AtInLine
  <2> QED
    BY <1>3, <1>4, <2>1 DEF Matches, Ahead
<1>6. Within(hits, 0, n) /\ 0 \in Int /\ n \in Int
  BY <1>3, <1>4 DEF Matches, Within
<1>7. CASE hits # {}
  <2>1. PICK i : i = Nearest(r, hits)
    OBVIOUS
  <2>2. i \in hits /\ \A y \in hits : Ahead(r, y, i)
    BY <1>6, <1>7, <2>1, NearestIs DEF Ahead
  <2>3. d = [c EXCEPT !.success = TRUE, !.at = i]
    BY <1>2, <1>4, <1>7, <2>1 DEF ScanLine
  <2>4. d \in ISearchContexts /\ SameSearch(c, d)
    <3>1. i \in Int
      BY <1>5, <2>2
    <3> QED
      BY <2>3, <3>1 DEF ISearchContexts, SameSearch
  <2>5. d.success /\ d.failed = c.failed /\ d.pos = c.pos /\ d.sline = t /\ d.missed = c.missed
        /\ d.at = i
    BY <1>2, <2>3 DEF ISearchContexts
  <2>6. FoundNext(c, d)
    <3>1. i \in Nat /\ i <= n /\ At(s, t, i) /\ Ahead(r, i, at)
      BY <1>3, <1>5, <2>2, AtInLine
    <3>2. \A y \in Nat : At(s, t, y) /\ Ahead(r, y, at) => Ahead(r, y, i)
      BY <1>5, <2>2
    <3> QED
      BY <1>2, <1>3, <2>5, <3>1, <3>2 DEF FoundNext
  <2> QED
    BY <2>4, <2>5, <2>6
<1>8. CASE hits = {}
  <2>1. PICK z \in Int : z = n - m + 1
    <3>1. n - m + 1 \in Int
      BY <1>3
    <3> QED
      BY <3>1
  <2>2. PICK x \in Int : x = (IF r THEN 0 ELSE Max({at, z})) /\ (r \/ x >= at)
    <3>1. Max({at, z}) \in Int /\ Max({at, z}) >= at
      BY GreaterIs
    <3>2. CASE r
      BY <3>2
    <3>3. CASE ~r
      BY <3>1, <3>3
    <3> QED
      BY <3>2, <3>3
  <2>3. d = [c EXCEPT !.at = x]
    <3>1. d = [c EXCEPT !.at = IF r THEN 0 ELSE Max({@, n - m + 1})]
      BY <1>2, <1>3, <1>4, <1>8 DEF ScanLine
    <3> QED
      BY <1>2, <2>1, <2>2, <3>1 DEF ISearchContexts
  <2>4. d \in ISearchContexts /\ SameSearch(c, d)
    BY <2>3 DEF ISearchContexts, SameSearch
  <2>5. d.success = c.success /\ d.failed = c.failed /\ d.pos = c.pos /\ d.sline = t
        /\ d.missed = c.missed /\ d.at = x
    BY <1>2, <2>3 DEF ISearchContexts
  <2>6. NoHit(c)
    BY <1>2, <1>5, <1>8 DEF NoHit
  <2> QED
    BY <1>2, <2>1, <2>2, <2>4, <2>5, <2>6
<1> QED
  BY <1>7, <1>8

\* A round of the loop finds the string, goes on to another line, or fails.
LEMMA RoundIs ==
  ASSUME NEW c \in ISearchContexts, ~c.success, ~c.failed,
         NEW lines \in Seq(Text), c.pos \in 0 .. Len(lines) - 1, NEW d, d = SearchRound(c, lines)
  PROVE  /\ d \in ISearchContexts /\ SameSearch(c, d)
         /\ FoundNext(c, d) \/ PassedOn(c, d, lines) \/ MissedAll(c, d, lines)
<1>1. PICK s : s = ScanLine(c)
  OBVIOUS
<1>2. s \in ISearchContexts /\ SameSearch(c, s)
  BY <1>1, ScanIs
<1>3. CASE s.success
  <2>1. d = s
    BY <1>1, <1>3 DEF SearchRound
  <2> QED
    BY <1>1, <1>2, <1>3, <2>1, ScanIs
<1>4. CASE ~s.success
  <2>1. d = LineAfter(s, lines)
    BY <1>1, <1>4 DEF SearchRound
  <2>2. /\ NoHit(c) /\ ~s.failed /\ s.pos = c.pos /\ s.sline = c.sline /\ s.missed = c.missed
        /\ IF c.reverse THEN s.at = 0 ELSE s.at \in Int /\ s.at >= c.at
    BY <1>1, <1>4, ScanIs
  <2>3. PICK n \in Nat : n = Len(lines)
    OBVIOUS
  <2>4. PICK r \in BOOLEAN, t \in Text, p \in 0 .. n - 1 : r = s.reverse /\ t = s.string /\ p = s.pos
    BY <1>2, <2>2, <2>3 DEF ISearchContexts
  <2>5. r = c.reverse /\ t = c.string /\ p = c.pos /\ s.prev = c.prev
    BY <1>2, <2>2, <2>4 DEF SameSearch
  <2>6. PICK beyond : beyond = IF r THEN 0 .. p - 1 ELSE p + 1 .. n - 1
    OBVIOUS
  <2>7. \A k : k \in beyond <=> k \in 0 .. n - 1 /\ Farther(r, k, p)
    BY <2>4, <2>6 DEF Farther
  <2>8. PICK wanted : wanted = {k \in beyond : lines[k + 1] # s.prev /\ Len(t) <= Len(lines[k + 1])}
    OBVIOUS
  <2>9. \A k : k \in wanted <=> Wanted(c, lines, k)
    BY <2>3, <2>5, <2>7, <2>8 DEF Wanted
  <2>10. Within(beyond, 0, n - 1) /\ Within(wanted, 0, n - 1) /\ n - 1 \in Int /\ 0 \in Int
    BY <2>3, <2>7, <2>8 DEF Within
  <2>11. CASE wanted # {}
    <3>1. PICK k : k = Nearest(r, wanted)
      OBVIOUS
    <3>2. k \in wanted /\ k \in 0 .. n - 1 /\ \A y \in wanted : Ahead(r, y, k)
      BY <2>10, <2>11, <3>1, NearestIs DEF Ahead, Within
    <3>3. PICK x \in Text : x = lines[k + 1]
      BY <2>3, <3>2
    <3>4. Len(x) \in Nat /\ Len(t) \in Nat /\ Len(t) <= Len(x)
      BY <2>8, <3>2, <3>3, TextLen
    <3>5. PICK i \in Nat : i = IF r THEN Len(x) - Len(t) ELSE 0
      <4>1. Len(x) - Len(t) \in Nat
        BY <3>4
      <4> QED
        BY <4>1
    <3>6. d = [s EXCEPT !.pos = k, !.sline = x, !.at = i]
      BY <2>1, <2>3, <2>4, <2>6, <2>8, <2>11, <3>1, <3>3, <3>5 DEF LineAfter, EnteredAt
    <3>7. d \in ISearchContexts /\ SameSearch(s, d)
      <4>1. k \in Nat /\ i \in Int
        BY <3>2
      <4> QED
        BY <1>2, <3>6, <4>1 DEF ISearchContexts, SameSearch
    <3>8. ~d.success /\ ~d.failed /\ d.missed = s.missed /\ d.pos = k /\ d.sline = x /\ d.at = i
      BY <1>2, <1>4, <2>2, <3>6 DEF ISearchContexts
    <3>9. PassedOn(c, d, lines)
      <4>1. Wanted(c, lines, k) /\ \A y : Wanted(c, lines, y) => Ahead(r, y, k)
        BY <2>9, <3>2
      <4> QED
        BY <2>2, <2>5, <3>3, <3>5, <3>8, <4>1 DEF PassedOn
    <3> QED
      BY <1>2, <3>7, <3>9 DEF SameSearch
  <2>12. CASE wanted = {}
    <3>1. PICK x \in Text : x = IF beyond = {} THEN s.sline ELSE lines[Nearest(~r, beyond) + 1]
      <4>1. beyond # {} => Nearest(~r, beyond) \in 0 .. n - 1
        BY <2>10, NearestIs DEF Within
      <4>2. s.sline \in Text
        BY <1>2 DEF ISearchContexts
      <4> QED
        BY <2>3, <4>1, <4>2
    <3>2. x = c.sline \/ \E k \in 0 .. n - 1 : Farther(r, k, p) /\ x = lines[k + 1]
      <4>1. CASE beyond = {}
        BY <2>2, <3>1, <4>1
      <4>2. CASE beyond # {}
        <5>1. PICK k : k = Nearest(~r, beyond)
          OBVIOUS
        <5>2. k \in beyond
          BY <2>10, <4>2, <5>1, NearestIs
        <5> QED
          BY <2>7, <3>1, <4>2, <5>1, <5>2
      <4> QED
        BY <4>1, <4>2
    <3>3. d = [s EXCEPT !.failed = TRUE, !.missed = TRUE, !.sline = x]
      <4>1. d = [s EXCEPT !.failed = TRUE, !.missed = TRUE,
                          !.sline = IF beyond = {} THEN @ ELSE lines[Nearest(~r, beyond) + 1]]
        BY <2>1, <2>3, <2>4, <2>6, <2>8, <2>12 DEF LineAfter
      <4> QED
        BY <1>2, <3>1, <4>1 DEF ISearchContexts
    <3>4. d \in ISearchContexts /\ SameSearch(s, d)
      BY <1>2, <3>3 DEF ISearchContexts, SameSearch
    <3>5. ~d.success /\ d.failed /\ d.missed /\ d.pos = s.pos /\ d.sline = x /\ d.at = s.at
      BY <1>2, <1>4, <3>3 DEF ISearchContexts
    <3>6. MissedAll(c, d, lines)
      BY <2>2, <2>3, <2>5, <2>9, <2>12, <3>2, <3>5 DEF MissedAll
    <3> QED
      BY <1>2, <3>4, <3>6 DEF SameSearch
  <2> QED
    BY <2>11, <2>12
<1> QED
  BY <1>3, <1>4

-----------------------------------------------------------------------------
(* The incremental search: what the loop comes to *)

\* During the loop of the search cxt: d is that search with another outcome; what is
\* found stands in the line it is at.
Looping(cxt, lines, d) ==
  /\ d \in ISearchContexts /\ SameSearch(cxt, d)
  /\ d.pos \in 0 .. Len(lines) - 1
  /\ ~d.missed => d.sline = lines[d.pos + 1]
  /\ d.success => /\ ~d.failed /\ d.at \in Nat /\ d.at <= Len(d.sline)
                  /\ At(d.string, d.sline, d.at)
  /\ d.failed => d.missed /\ d.at \in Nat
  /\ ~d.reverse => d.at \in Nat

\* A round leaves it so, and ends the search or comes to a line that is farther.
LEMMA RoundLoops ==
  ASSUME NEW cxt, NEW lines \in Seq(Text), NEW c, Looping(cxt, lines, c),
         NEW d, d = SearchRound(c, lines)
  PROVE  /\ Looping(cxt, lines, d)
         /\ IF c.success \/ c.failed THEN d = c
            ELSE d.success \/ d.failed \/ Farther(cxt.reverse, d.pos, c.pos)
<1>1. c \in ISearchContexts /\ SameSearch(cxt, c) /\ c.pos \in 0 .. Len(lines) - 1
  BY DEF Looping
<1>2. CASE c.success \/ c.failed
  BY <1>2 DEF SearchRound
<1>3. CASE ~c.success /\ ~c.failed
  <2>1. d \in ISearchContexts /\ SameSearch(c, d)
    BY <1>1, <1>3, RoundIs
  <2>2. SameSearch(cxt, d) /\ d.reverse = c.reverse /\ d.reverse = cxt.reverse /\ d.string = c.string
    BY <1>1, <2>1 DEF SameSearch
  <2>3. ~c.reverse => c.at \in Nat
    BY DEF Looping
  <2>4. ~c.missed => c.sline = lines[c.pos + 1]
    BY DEF Looping
  <2>5. CASE FoundNext(c, d)
    <3>1. /\ d.success /\ ~d.failed /\ d.pos = c.pos /\ d.sline = c.sline /\ d.missed = c.missed
          /\ d.at \in Nat /\ d.at <= Len(d.sline) /\ At(d.string, d.sline, d.at)
      BY <2>2, <2>5 DEF FoundNext
    <3>2. Looping(cxt, lines, d)
      BY <1>1, <2>1, <2>2, <2>4, <3>1 DEF Looping
    <3> QED
      BY <1>3, <3>1, <3>2
  <2>6. CASE PassedOn(c, d, lines)
    <3>1. /\ ~d.success /\ ~d.failed /\ d.sline = lines[d.pos + 1] /\ d.at \in Nat
          /\ Wanted(c, lines, d.pos)
      BY <2>6 DEF PassedOn
    <3>2. d.pos \in 0 .. Len(lines) - 1 /\ Farther(cxt.reverse, d.pos, c.pos)
      BY <2>2, <3>1 DEF Wanted
    <3>3. Looping(cxt, lines, d)
      BY <2>1, <2>2, <3>1, <3>2 DEF Looping
    <3> QED
      BY <1>3, <3>2, <3>3
  <2>7. CASE MissedAll(c, d, lines)
    <3>1. ~d.success /\ d.failed /\ d.missed /\ d.pos = c.pos
      BY <2>7 DEF MissedAll
    <3>2. d.at \in Nat
      BY <2>3, <2>7 DEF MissedAll
    <3>3. Looping(cxt, lines, d)
      BY <1>1, <2>1, <2>2, <3>1, <3>2 DEF Looping
    <3> QED
      BY <1>3, <3>1, <3>3
  <2> QED
    BY <1>1, <1>3, <2>5, <2>6, <2>7, RoundIs
<1> QED
  BY <1>2, <1>3

\* A search that may begin: it is at a line, and what it has found it stands at.
Ready(cxt, lines) ==
  /\ cxt \in ISearchContexts /\ cxt.pos \in 0 .. Len(lines) - 1
  /\ ~cxt.missed => cxt.sline = lines[cxt.pos + 1]
  /\ ~cxt.reverse => cxt.at \in Nat

\* What a search begins with.
LEMMA BegunIs ==
  ASSUME NEW cxt \in ISearchContexts, NEW d, d = Begun(cxt)
  PROVE  /\ d \in ISearchContexts /\ SameSearch(cxt, d) /\ ~d.success
         /\ d.pos = cxt.pos /\ d.sline = cxt.sline /\ d.at = cxt.at /\ d.missed = cxt.missed
         /\ d.failed = (cxt.string = <<>>)
         /\ d = [cxt EXCEPT !.success = FALSE, !.failed = cxt.string = <<>>]
  BY DEF Begun, ISearchContexts, SameSearch

\* With a string the loop ends with what it was looking for, or with a failure.
LEMMA LoopEnds ==
  ASSUME NEW lines \in Seq(Text), NEW cxt, Ready(cxt, lines), cxt.string # <<>>,
         NEW d, d = SearchLoop(cxt, lines)
  PROVE  Looping(cxt, lines, d) /\ (d.success \/ d.failed)
<1>1. PICK n \in Nat : n = Len(lines)
  OBVIOUS
<1>2. cxt \in ISearchContexts
  BY DEF Ready
<1>3. PICK p \in Nat, r \in BOOLEAN : p = cxt.pos /\ r = cxt.reverse
  BY <1>2 DEF ISearchContexts
<1>4. p \in 0 .. n - 1
  BY <1>1, <1>3 DEF Ready
<1>5. PICK S : S = {c \in ISearchContexts : Looping(cxt, lines, c)}
  OBVIOUS
<1>6. \A c : c \in S <=> Looping(cxt, lines, c)
  BY <1>5 DEF Looping
<1>7. PICK T : T = [k \in 0 .. n + 1 |-> {c \in ISearchContexts :
                      c.success \/ c.failed \/ IF r THEN c.pos <= p - k ELSE c.pos >= p + k}]
  OBVIOUS
<1>8. \A c \in S : SearchRound(c, lines) \in S
  BY <1>6, RoundLoops
<1>9. Begun(cxt) \in S /\ Begun(cxt) \in T[0]
  <2>1. PICK b : b = Begun(cxt)
    OBVIOUS
  <2>2. /\ b \in ISearchContexts /\ SameSearch(cxt, b) /\ ~b.success /\ ~b.failed
        /\ b.pos = cxt.pos /\ b.sline = cxt.sline /\ b.at = cxt.at /\ b.missed = cxt.missed
    BY <1>2, <2>1, BegunIs
  <2>3. b.reverse = cxt.reverse
    BY <2>2 DEF SameSearch
  <2>4. Looping(cxt, lines, b)
    BY <2>2, <2>3 DEF Looping, Ready
  <2>5. b \in T[0]
    BY <1>3, <1>7, <2>2
  <2> QED
    BY <1>6, <2>1, <2>4, <2>5
<1>10. \A k \in 1 .. Len(lines) + 1 : \A c \in S : c \in T[k - 1] => SearchRound(c, lines) \in T[k]
  <2> SUFFICES ASSUME NEW k \in 1 .. n + 1, NEW c \in S, c \in T[k - 1]
               PROVE  SearchRound(c, lines) \in T[k]
    BY <1>1
  <2>1. k - 1 \in 0 .. n + 1 /\ k \in 0 .. n + 1
    OBVIOUS
  <2>2. c.success \/ c.failed \/ IF r THEN c.pos <= p - (k - 1) ELSE c.pos >= p + (k - 1)
    BY <1>7, <2>1
  <2>3. PICK e : e = SearchRound(c, lines)
    OBVIOUS
  <2>4. /\ Looping(cxt, lines, e)
        /\ IF c.success \/ c.failed THEN e = c ELSE e.success \/ e.failed \/ Farther(r, e.pos, c.pos)
    BY <1>3, <1>6, <2>3, RoundLoops
  <2>5. e \in ISearchContexts /\ e.pos \in Nat /\ c.pos \in Nat
    BY <1>6, <2>4 DEF Looping, ISearchContexts
  <2>6. e.success \/ e.failed \/ IF r THEN e.pos <= p - k ELSE e.pos >= p + k
    BY <2>2, <2>4, <2>5 DEF Farther
  <2>7. T[k] = {x \in ISearchContexts : x.success \/ x.failed \/ IF r THEN x.pos <= p - k ELSE x.pos >= p + k}
    BY <1>7, <2>1
  <2> QED
    BY <2>3, <2>5, <2>6, <2>7
<1>11. d \in S /\ d \in T[n + 1]
  <2>1. Len(lines) \in Nat
    OBVIOUS
  <2> QED
    BY <1>1, <1>8, <1>9, <1>10, <2>1, SearchLoopStays
<1>12. Looping(cxt, lines, d)
  BY <1>6, <1>11
<1>13. d.pos \in 0 .. n - 1
  BY <1>1, <1>12 DEF Looping
<1>14. d.success \/ d.failed \/ IF r THEN d.pos <= p - (n + 1) ELSE d.pos >= p + (n + 1)
  BY <1>7, <1>11
<1> QED
  BY <1>4, <1>12, <1>13, <1>14

\* Without a string it only fails.
LEMMA LoopIdle ==
  ASSUME NEW lines \in Seq(Text), NEW cxt \in ISearchContexts, cxt.string = <<>>
  PROVE  SearchLoop(cxt, lines) = Begun(cxt)
<1>1. PICK S : S = {Begun(cxt)}
  OBVIOUS
<1>2. PICK n \in Nat : n = Len(lines)
  OBVIOUS
<1>3. PICK T : T = [k \in 0 .. n + 1 |-> S]
  OBVIOUS
<1>4. \A c \in S : SearchRound(c, lines) = c
  <2>1. Begun(cxt).failed
    BY BegunIs
  <2> QED
    BY <1>1, <2>1 DEF SearchRound
<1>5. \A k \in 0 .. n + 1 : T[k] = S
  BY <1>3
<1>6. \A k \in 1 .. Len(lines) + 1 : \A c \in S : c \in T[k - 1] => SearchRound(c, lines) \in T[k]
  <2>1. \A k \in 1 .. n + 1 : k - 1 \in 0 .. n + 1 /\ k \in 0 .. n + 1
    OBVIOUS
  <2> QED
    BY <1>2, <1>4, <1>5, <2>1
<1>7. Begun(cxt) \in S /\ Begun(cxt) \in T[0]
  BY <1>1, <1>5
<1>8. SearchLoop(cxt, lines) \in S
  <2>1. Len(lines) \in Nat /\ \A c \in S : SearchRound(c, lines) \in S
    BY <1>4
  <2> QED
    BY <1>6, <1>7, <2>1, SearchLoopStays
<1> QED
  BY <1>1, <1>8

-----------------------------------------------------------------------------
(* The incremental search: the nearest place *)

\* Index i of line k (from 1) is on the side of the start the search goes to.
OnSide(cxt, k, i) ==
  IF cxt.reverse THEN k <= cxt.start \/ (k = cxt.start + 1 /\ i <= cxt.point)
                 ELSE k > cxt.start + 1 \/ (k = cxt.start + 1 /\ i >= cxt.point)

\* The string stands there, on that side.
IsPlace(cxt, lines, k, i) ==
  k \in 1 .. Len(lines) /\ i \in Nat /\ At(cxt.string, lines[k], i) /\ OnSide(cxt, k, i)

\* A search that goes on from index j of line m comes to index i of line k.
Comes(reverse, m, j, k, i) == Farther(reverse, k, m) \/ (k = m /\ Ahead(reverse, i, j))

\* These are the places of NearestFound.
LEMMA PlacesAre ==
  ASSUME NEW cxt \in ISearchContexts, NEW lines \in Seq(Text)
  PROVE  /\ \A k, i : IsPlace(cxt, lines, k, i) => <<k, i>> \in Places(cxt, lines)
         /\ \A p \in Places(cxt, lines) : IsPlace(cxt, lines, p[1], p[2])
<1>1. PICK n \in Nat : n = Len(lines) /\ DOMAIN lines = 1 .. n
  OBVIOUS
<1>2. PICK f : f = [k \in 1 .. n |-> Len(lines[k])]
  OBVIOUS
<1>3. \A k \in 1 .. n : f[k] \in Nat
  BY <1>1, <1>2, TextLen
<1>4. PICK m : m = Max({f[j] : j \in 1 .. n})
  OBVIOUS
<1>5. m \in Nat \/ n = 0
  BY <1>3, <1>4, LongestIs
<1>6. {f[j] : j \in 1 .. n} = {Len(lines[k]) : k \in DOMAIN lines}
  BY <1>1, <1>2
<1>7. \A p : p \in Places(cxt, lines) <=>
        p \in (1 .. n) \X (0 .. m) /\ At(cxt.string, lines[p[1]], p[2]) /\ OnSide(cxt, p[1], p[2])
  BY <1>1, <1>4, <1>6 DEF Places, OnSide
<1>8. ASSUME NEW k, NEW i, IsPlace(cxt, lines, k, i)
      PROVE  <<k, i>> \in Places(cxt, lines)
  <2>1. k \in 1 .. n /\ i \in Nat /\ At(cxt.string, lines[k], i) /\ OnSide(cxt, k, i)
    BY <1>1, <1>8 DEF IsPlace
  <2>2. PICK t \in Text, s \in Text : t = lines[k] /\ s = cxt.string
    BY <1>1, <2>1 DEF ISearchContexts
  <2>3. i <= Len(t) /\ Len(t) = f[k]
    BY <1>2, <2>1, <2>2, AtInLine
  <2>4. f[k] <= m /\ m \in Nat
    BY <1>3, <1>4, <2>1, LongestIs
  <2>5. i \in 0 .. m
    BY <1>3, <2>1, <2>3, <2>4
  <2>6. <<k, i>> \in (1 .. n) \X (0 .. m) /\ <<k, i>>[1] = k /\ <<k, i>>[2] = i
    BY <2>1, <2>5
  <2> QED
    BY <1>7, <2>1, <2>6
<1>9. ASSUME NEW p \in Places(cxt, lines)
      PROVE  IsPlace(cxt, lines, p[1], p[2])
  <2>1. p[1] \in 1 .. n /\ p[2] \in 0 .. m /\ n # 0
    BY <1>7, <1>9
  <2>2. p[2] \in Nat
    BY <1>5, <2>1
  <2> QED
    BY <1>1, <1>7, <2>1, <2>2 DEF IsPlace
<1> QED
  BY <1>8, <1>9

\* In a search with other outcomes the places are the same.
LEMMA SamePlaces ==
  ASSUME NEW c, NEW d, SameSearch(c, d), NEW lines, NEW k, NEW i
  PROVE  (IsPlace(c, lines, k, i) <=> IsPlace(d, lines, k, i)) /\ (OnSide(c, k, i) <=> OnSide(d, k, i))
  BY DEF IsPlace, OnSide, SameSearch

\* A longer string stands only where the shorter one does.
LEMMA AtShorter ==
  ASSUME NEW s \in Text, NEW ch \in Char, NEW t \in Text, NEW i \in Nat, At(Append(s, ch), t, i)
  PROVE  At(s, t, i)
<1>1. PICK u \in Text : u = Append(s, ch)
  <2>1. Append(s, ch) \in Text
    BY DEF Text
  <2> QED
    BY <2>1
<1>2. Len(u) = Len(s) + 1 /\ Len(s) \in Nat /\ Len(t) \in Nat /\ \A j \in 1 .. Len(s) : u[j] = s[j]
  BY <1>1 DEF Text
<1>3. PICK n \in Nat : n = Len(s) /\ Len(u) = n + 1
  BY <1>2
<1>4. PICK l \in Nat, m \in Nat : l = i + n /\ m = i + (n + 1)
  BY <1>3
<1>5. m <= Len(t) /\ SubSeq(t, i + 1, m) = u
  BY <1>1, <1>3, <1>4 DEF At
<1>6. PICK w \in Text : /\ w = SubSeq(t, i + 1, m) /\ Len(w) = m - i
                        /\ \A j \in Nat \ {0} : j <= m - i => w[j] = t[i + j]
  <2>1. m \in 0 .. Len(t) /\ i \in 0 .. m
    BY <1>2, <1>4, <1>5
  <2> QED
    BY <2>1, PartBetween
<1>7. PICK v \in Text : /\ v = SubSeq(t, i + 1, l) /\ Len(v) = l - i
                        /\ \A j \in Nat \ {0} : j <= l - i => v[j] = t[i + j]
  <2>1. l \in 0 .. Len(t) /\ i \in 0 .. l
    BY <1>2, <1>4, <1>5
  <2> QED
    BY <2>1, PartBetween
<1>8. v = s
  <2>1. Len(v) = n
    BY <1>4, <1>7
  <2>2. ASSUME NEW j \in 1 .. n PROVE v[j] = s[j]
    <3>1. j \in Nat \ {0} /\ j <= m - i /\ j <= l - i
      BY <1>4
    <3>2. v[j] = t[i + j] /\ w[j] = t[i + j] /\ w = u
      BY <1>5, <1>6, <1>7, <3>1
    <3> QED
      BY <1>2, <1>3, <3>2
  <2> QED
    BY <1>3, <2>1, <2>2, SameText
<1>9. i + Len(s) <= Len(t) /\ SubSeq(t, i + 1, i + Len(s)) = s
  <2>1. l = i + Len(s) /\ l <= Len(t)
    BY <1>2, <1>3, <1>4, <1>5
  <2>2. SubSeq(t, i + 1, l) = s
    BY <1>7, <1>8
  <2> QED
    BY <2>1, <2>2
<1> QED
  BY <1>9 DEF At

\* d is the search c with a character more in the string.
LongerString(c, d, ch) ==
  /\ d.string = Append(c.string, ch)
  /\ d.reverse = c.reverse /\ d.start = c.start /\ d.point = c.point

\* Its places are places of c.
LEMMA LongerPlaces ==
  ASSUME NEW c \in ISearchContexts, NEW d, NEW ch \in Char, LongerString(c, d, ch),
         NEW lines \in Seq(Text), NEW k, NEW i, IsPlace(d, lines, k, i)
  PROVE  IsPlace(c, lines, k, i)
<1>1. d.reverse = c.reverse /\ d.start = c.start /\ d.point = c.point /\ d.string = Append(c.string, ch)
  BY DEF LongerString
<1>2. k \in 1 .. Len(lines) /\ i \in Nat /\ At(Append(c.string, ch), lines[k], i) /\ OnSide(d, k, i)
  BY <1>1 DEF IsPlace
<1>3. OnSide(c, k, i)
  BY <1>1, <1>2 DEF OnSide
<1>4. PICK s \in Text, t \in Text : s = c.string /\ t = lines[k]
  BY <1>2 DEF ISearchContexts
<1>5. At(s, t, i)
  BY <1>2, <1>4, AtShorter
<1> QED
  BY <1>2, <1>3, <1>4, <1>5 DEF IsPlace

\* The string stands nowhere on the side of the start the search goes to.
NoPlace(c, lines) == \A k, i : ~IsPlace(c, lines, k, i)

\* The search comes to every place from where it is.
FromHere(c, lines) ==
  /\ c.sline = lines[c.pos + 1]
  /\ \A k, i : IsPlace(c, lines, k, i) => Comes(c.reverse, c.pos + 1, c.at, k, i)

\* The search has not passed the start, or what was found before, and no place.
Nearing(c, lines) ==
  /\ c.at \in Nat /\ c.found \in 0 .. Len(lines) - 1
  /\ c.reverse => c.at <= Len(c.sline)
  /\ \E k \in 1 .. Len(lines) : c.sline = lines[k] /\ OnSide(c, k, c.at)
  /\ IF c.reverse THEN c.pos <= c.found /\ c.found <= c.start
                  ELSE c.pos >= c.found /\ c.found >= c.start
  /\ c.prev = NoString \/ c.prev = lines[c.found + 1]
  /\ c.success => IsPlace(c, lines, c.pos + 1, c.at) /\ FromHere(c, lines)
  /\ c.failed => NoPlace(c, lines)
  /\ ~c.success /\ ~c.failed => NoPlace(c, lines) \/ FromHere(c, lines)

\* A text is not the NULL pointer.
LEMMA NoStringIs == NoString \notin Text
<1>1. ASSUME NoString \in Text PROVE FALSE
  <2>1. NoString[1] \in Char /\ NoString[1] = "none"
    BY <1>1 DEF Text, NoString
  <2> QED
    BY <2>1, HistorySearchAssumption
<1> QED
  BY <1>1

\* Where there is no hit in the line, every place is in a line that is wanted.
LEMMA PlacesWanted ==
  ASSUME NEW c \in ISearchContexts, NEW lines \in Seq(Text), IsInjective(lines), Nearing(c, lines),
         c.pos \in 0 .. Len(lines) - 1, ~c.success, ~c.failed, NoHit(c),
         NEW k, NEW i, IsPlace(c, lines, k, i)
  PROVE  FromHere(c, lines) /\ Wanted(c, lines, k - 1) /\ k - 1 \in Nat /\ (k - 1) + 1 = k
<1>1. PICK n \in Nat : n = Len(lines) /\ DOMAIN lines = 1 .. n
  OBVIOUS
<1>2. k \in 1 .. n /\ i \in Nat /\ At(c.string, lines[k], i)
  BY <1>1 DEF IsPlace
<1>3. FromHere(c, lines)
  BY DEF Nearing, NoPlace
<1>4. c.sline = lines[c.pos + 1] /\ Comes(c.reverse, c.pos + 1, c.at, k, i)
  BY <1>3 DEF FromHere
<1>5. ~(k = c.pos + 1 /\ Ahead(c.reverse, i, c.at))
  BY <1>2, <1>4 DEF NoHit
<1>6. PICK p \in 0 .. n - 1, f \in 0 .. n - 1, r \in BOOLEAN : p = c.pos /\ f = c.found /\ r = c.reverse
  BY <1>1 DEF Nearing, ISearchContexts
<1>7. Farther(r, k, p + 1)
  BY <1>4, <1>5, <1>6 DEF Comes
<1>8. k - 1 \in 0 .. n - 1 /\ Farther(r, k - 1, p) /\ k # f + 1
  <2>1. IF r THEN p <= f ELSE p >= f
    BY <1>6 DEF Nearing
  <2> QED
    BY <1>2, <1>6, <1>7, <2>1 DEF Farther
<1>9. lines[k] # c.prev
  <2>1. c.prev = NoString \/ c.prev = lines[f + 1]
    BY <1>6 DEF Nearing
  <2>2. lines[k] \in Text
    BY <1>1, <1>2
  <2>3. lines[k] # lines[f + 1]
    BY <1>1, <1>2, <1>6, <1>8 DEF IsInjective
  <2> QED
    BY <2>1, <2>2, <2>3, NoStringIs
<1>10. Len(c.string) <= Len(lines[k])
  <2>1. PICK s \in Text, t \in Text : s = c.string /\ t = lines[k]
    BY <1>1, <1>2 DEF ISearchContexts
  <2> QED
    BY <1>2, <2>1, AtInLine
<1> QED
  BY <1>1, <1>2, <1>3, <1>6, <1>8, <1>9, <1>10 DEF Wanted

\* A round of the loop passes no place.
LEMMA RoundNears ==
  ASSUME NEW cxt, NEW lines \in Seq(Text), IsInjective(lines),
         NEW c, Looping(cxt, lines, c), Nearing(c, lines), NEW d, d = SearchRound(c, lines)
  PROVE  Nearing(d, lines)
<1>1. c \in ISearchContexts /\ c.pos \in 0 .. Len(lines) - 1
  BY DEF Looping
<1>2. CASE c.success \/ c.failed
  BY <1>2, RoundLoops
<1>3. CASE ~c.success /\ ~c.failed
  <2>1. d \in ISearchContexts /\ SameSearch(c, d)
    BY <1>1, <1>3, RoundIs
  <2>2. PICK n \in Nat : n = Len(lines) /\ DOMAIN lines = 1 .. n
    OBVIOUS
  <2>3. PICK p \in 0 .. n - 1, r \in BOOLEAN, s \in Nat, f \in Nat, q \in Nat :
          p = c.pos /\ r = c.reverse /\ s = c.start /\ f = c.found /\ q = c.point
    BY <1>1, <2>2 DEF ISearchContexts
  <2>4. d.reverse = r /\ d.start = s /\ d.found = f /\ d.prev = c.prev /\ d.string = c.string /\ d.point = q
    BY <2>1, <2>3 DEF SameSearch
  <2>5. \A k, i : /\ IsPlace(c, lines, k, i) <=> IsPlace(d, lines, k, i)
                  /\ OnSide(c, k, i) <=> OnSide(d, k, i)
    BY <2>1, SamePlaces
  <2>6. PICK m \in 1 .. n : c.sline = lines[m] /\ OnSide(c, m, c.at)
    BY <2>2 DEF Nearing
  <2>7. PICK a \in Nat : a = c.at
    BY DEF Nearing
  <2>8. IF r THEN p <= f /\ f <= s /\ p <= s ELSE p >= f /\ f >= s /\ p >= s
    <3>1. IF r THEN p <= f /\ f <= s ELSE p >= f /\ f >= s
      BY <2>3 DEF Nearing
    <3> QED
      BY <3>1
  <2>9. (d.prev = NoString \/ d.prev = lines[d.found + 1]) /\ d.found \in 0 .. Len(lines) - 1
    BY <2>3, <2>4 DEF Nearing
  <2>10. CASE FoundNext(c, d)
    <3>1. /\ d.success /\ ~d.failed /\ d.pos = p /\ d.sline = c.sline
          /\ d.at \in Nat /\ d.at <= Len(c.sline) /\ At(c.string, c.sline, d.at) /\ Ahead(r, d.at, a)
          /\ \A i \in Nat : At(c.string, c.sline, i) /\ Ahead(r, i, a) => Ahead(r, i, d.at)
      BY <2>3, <2>7, <2>10 DEF FoundNext
    <3>2. PICK b \in Nat : b = d.at
      BY <3>1
    <3>3. OnSide(c, m, b)
      BY <2>3, <2>6, <2>7, <3>1, <3>2 DEF OnSide, Ahead
    <3>4. IsPlace(c, lines, m, b)
      BY <2>2, <2>6, <3>1, <3>2, <3>3 DEF IsPlace
    <3>5. FromHere(c, lines)
      BY <1>3, <3>4 DEF Nearing, NoPlace
    <3>6. m = p + 1
      <4>1. lines[m] = lines[p + 1] /\ p + 1 \in 1 .. n
        BY <2>3, <2>6, <3>5 DEF FromHere
      <4> QED
        BY <2>2, <4>1 DEF IsInjective
    <3>7. FromHere(d, lines)
      <4>1. ASSUME NEW k, NEW i, IsPlace(d, lines, k, i)
            PROVE  Comes(r, p + 1, b, k, i)
        <5>1. IsPlace(c, lines, k, i) /\ Comes(r, p + 1, a, k, i)
          BY <2>3, <2>5, <2>7, <3>5, <4>1 DEF FromHere
        <5>2. CASE Farther(r, k, p + 1)
          BY <5>2 DEF Comes
        <5>3. CASE k = p + 1 /\ Ahead(r, i, a)
          <6>1. i \in Nat /\ At(c.string, c.sline, i)
            BY <2>6, <3>6, <5>1, <5>3 DEF IsPlace
          <6> QED
            BY <3>1, <3>2, <5>3, <6>1 DEF Comes
        <5> QED
          BY <5>1, <5>2, <5>3 DEF Comes
      <4> QED
        BY <2>4, <2>6, <3>1, <3>2, <3>6, <4>1 DEF FromHere
    <3>8. IsPlace(d, lines, d.pos + 1, d.at)
      BY <2>5, <3>1, <3>2, <3>4, <3>6
    <3>9. \E k \in 1 .. Len(lines) : d.sline = lines[k] /\ OnSide(d, k, d.at)
      BY <2>2, <2>5, <2>6, <3>1, <3>2, <3>3
    <3> QED
      BY <2>4, <2>8, <2>9, <3>1, <3>7, <3>8, <3>9 DEF Nearing
  <2>11. CASE PassedOn(c, d, lines)
    <3>1. /\ ~d.success /\ ~d.failed /\ NoHit(c) /\ Wanted(c, lines, d.pos)
          /\ d.sline = lines[d.pos + 1] /\ d.at \in Nat
          /\ d.at = IF r THEN Len(lines[d.pos + 1]) - Len(c.string) ELSE 0
          /\ \A k : Wanted(c, lines, k) => Ahead(r, k, d.pos)
      BY <2>3, <2>11 DEF PassedOn
    <3>2. PICK b \in 0 .. n - 1 : b = d.pos
      BY <2>2, <3>1 DEF Wanted
    <3>3. Farther(r, b, p)
      BY <2>3, <3>1, <3>2 DEF Wanted
    <3>4. IF r THEN b < s /\ b < f ELSE b > s /\ b > f
      BY <2>3, <2>8, <3>2, <3>3 DEF Farther
    <3>5. OnSide(d, b + 1, d.at)
      BY <2>4, <3>2, <3>4 DEF OnSide
    <3>6. PICK x \in Text, y \in Text : x = lines[b + 1] /\ y = c.string
      BY <1>1, <2>2, <3>2 DEF ISearchContexts
    <3>7. Len(x) \in Nat /\ Len(y) \in Nat
      BY <3>6, TextLen
    <3>8. ASSUME NEW k, NEW i, IsPlace(d, lines, k, i)
          PROVE  Comes(r, b + 1, d.at, k, i)
      <4>1. IsPlace(c, lines, k, i)
        BY <2>5, <3>8
      <4>2. Wanted(c, lines, k - 1) /\ k - 1 \in Nat /\ (k - 1) + 1 = k
        BY <1>1, <1>3, <3>1, <4>1, PlacesWanted
      <4>3. Ahead(r, k - 1, b)
        BY <3>1, <3>2, <4>2
      <4>4. CASE k - 1 = b
        <5>1. k = b + 1
          BY <4>2, <4>4
        <5>2. i \in Nat /\ At(y, x, i)
          BY <3>6, <4>1, <5>1 DEF IsPlace
        <5>3. i + Len(y) <= Len(x)
          BY <3>6, <5>2, AtInLine
        <5> QED
          BY <3>1, <3>2, <3>6, <3>7, <5>1, <5>2, <5>3 DEF Comes, Ahead
      <4>5. CASE k - 1 # b
        <5>1. k \in Int
          BY <4>1 DEF IsPlace
        <5>2. Farther(r, k, b + 1)
          BY <3>2, <4>2, <4>3, <4>5, <5>1 DEF Ahead, Farther
        <5> QED
          BY <5>2 DEF Comes
      <4> QED
        BY <4>4, <4>5
    <3>9. FromHere(d, lines)
      BY <2>4, <3>1, <3>2, <3>8 DEF FromHere
    <3>10. \E k \in 1 .. Len(lines) : d.sline = lines[k] /\ OnSide(d, k, d.at)
      <4>1. b + 1 \in 1 .. n
        BY <3>2
      <4> QED
        BY <2>2, <3>1, <3>2, <3>5, <4>1
    <3>11. d.reverse => d.at <= Len(d.sline)
      <4>1. d.sline = x
        BY <3>1, <3>2, <3>6
      <4>2. r => d.at = Len(x) - Len(y)
        BY <3>1, <3>2, <3>6
      <4> QED
        BY <2>4, <3>7, <4>1, <4>2
    <3>12. IF d.reverse THEN d.pos <= d.found /\ d.found <= d.start
           ELSE d.pos >= d.found /\ d.found >= d.start
      BY <2>3, <2>4, <2>8, <3>2, <3>4
    <3>13. d.at \in Nat /\ ~d.success /\ ~d.failed
      BY <3>1
    <3> QED
      BY <2>9, <3>9, <3>10, <3>11, <3>12, <3>13 DEF Nearing
  <2>12. CASE MissedAll(c, d, lines)
    <3>1. /\ ~d.success /\ d.failed /\ d.pos = p /\ NoHit(c) /\ \A k : ~Wanted(c, lines, k)
          /\ IF r THEN d.at = 0 ELSE d.at \in Int /\ d.at >= a
          /\ \/ d.sline = c.sline
             \/ \E k \in 0 .. n - 1 : Farther(r, k, p) /\ d.sline = lines[k + 1]
      BY <2>2, <2>3, <2>7, <2>12 DEF MissedAll
    <3>2. PICK b \in Nat : b = d.at /\ IF r THEN b = 0 ELSE b >= a
      BY <2>7, <3>1
    <3>3. NoPlace(d, lines)
      <4>1. ASSUME NEW k, NEW i, IsPlace(d, lines, k, i) PROVE FALSE
        <5>1. IsPlace(c, lines, k, i)
          BY <2>5, <4>1
        <5> QED
          BY <1>1, <1>3, <3>1, <5>1, PlacesWanted
      <4> QED
        BY <4>1 DEF NoPlace
    <3>4. \E k \in 1 .. n : d.sline = lines[k] /\ OnSide(d, k, d.at)
      <4>1. CASE d.sline = c.sline
        <5>1. OnSide(d, m, b)
          BY <2>3, <2>4, <2>6, <2>7, <3>2 DEF OnSide
        <5> QED
          BY <2>6, <3>2, <4>1, <5>1
      <4>2. CASE \E k \in 0 .. n - 1 : Farther(r, k, p) /\ d.sline = lines[k + 1]
        <5>1. PICK k \in 0 .. n - 1 : Farther(r, k, p) /\ d.sline = lines[k + 1]
          BY <4>2
        <5>2. OnSide(d, k + 1, b) /\ k + 1 \in 1 .. n
          BY <2>3, <2>4, <2>8, <3>2, <5>1 DEF OnSide, Farther
        <5> QED
          BY <3>2, <5>1, <5>2
      <4> QED
        BY <3>1, <4>1, <4>2
    <3>5. d.reverse => d.at <= Len(d.sline)
      <4>1. d.sline \in Text
        BY <2>1 DEF ISearchContexts
      <4>2. Len(d.sline) \in Nat
        BY <4>1, TextLen
      <4> QED
        BY <2>4, <3>2, <4>2
    <3> QED
      BY <2>2, <2>4, <2>8, <2>9, <3>1, <3>2, <3>3, <3>4, <3>5 DEF Nearing
  <2> QED
    BY <1>1, <1>3, <2>10, <2>11, <2>12, RoundIs
<1> QED
  BY <1>2, <1>3

\* So the loop comes to the nearest place, or fails where there is none.
LEMMA LoopNears ==
  ASSUME NEW lines \in Seq(Text), IsInjective(lines), NEW cxt, Ready(cxt, lines), cxt.string # <<>>,
         Nearing(Begun(cxt), lines), NEW d, d = SearchLoop(cxt, lines)
  PROVE  Nearing(d, lines)
<1>1. PICK n \in Nat : n = Len(lines)
  OBVIOUS
<1>2. cxt \in ISearchContexts
  BY DEF Ready
<1>3. PICK S : S = {c \in ISearchContexts : Looping(cxt, lines, c) /\ Nearing(c, lines)}
  OBVIOUS
<1>4. \A c : c \in S <=> Looping(cxt, lines, c) /\ Nearing(c, lines)
  BY <1>3 DEF Looping
<1>5. PICK T : T = [k \in 0 .. n + 1 |-> S]
  OBVIOUS
<1>6. \A k \in 0 .. n + 1 : T[k] = S
  BY <1>5
<1>7. \A c \in S : SearchRound(c, lines) \in S
  BY <1>4, RoundLoops, RoundNears
<1>8. Begun(cxt) \in S /\ Begun(cxt) \in T[0]
  <2>1. PICK b : b = Begun(cxt)
    OBVIOUS
  <2>2. /\ b \in ISearchContexts /\ SameSearch(cxt, b) /\ ~b.success /\ ~b.failed
        /\ b.pos = cxt.pos /\ b.sline = cxt.sline /\ b.at = cxt.at /\ b.missed = cxt.missed
    BY <1>2, <2>1, BegunIs
  <2>3. b.reverse = cxt.reverse
    BY <2>2 DEF SameSearch
  <2>4. Looping(cxt, lines, b)
    BY <2>2, <2>3 DEF Looping, Ready
  <2> QED
    BY <1>4, <1>6, <2>1, <2>4
<1>9. \A k \in 1 .. Len(lines) + 1 : \A c \in S : c \in T[k - 1] => SearchRound(c, lines) \in T[k]
  <2>1. \A k \in 1 .. n + 1 : k - 1 \in 0 .. n + 1 /\ k \in 0 .. n + 1
    OBVIOUS
  <2> QED
    BY <1>1, <1>6, <1>7, <2>1
<1>10. SearchLoop(cxt, lines) \in S
  <2>1. Len(lines) \in Nat
    OBVIOUS
  <2> QED
    BY <1>7, <1>8, <1>9, <2>1, SearchLoopStays
<1> QED
  BY <1>4, <1>10

-----------------------------------------------------------------------------
(* The incremental search: from key to key *)

\* In a search that is plain, where no line is a copy of another: it is at the start,
\* or at the nearest place, or there is none.
Nears(cxt, lines) ==
  IF cxt.string = <<>>
    THEN /\ cxt.found = cxt.start /\ cxt.at = cxt.point
         /\ cxt.sline = lines[cxt.start + 1] /\ cxt.at <= Len(cxt.sline)
         /\ cxt.prev = NoString \/ cxt.prev = lines[cxt.found + 1]
    ELSE Nearing(cxt, lines)

\* The context of a search of these lines, with the text and the point displayed.
Searching(cxt, lines, text, point) ==
  /\ cxt \in ISearchContexts /\ cxt.pos = cxt.found /\ cxt.found \in 0 .. Len(lines) - 1
  /\ cxt.at \in Nat
  /\ ~cxt.missed => cxt.sline = lines[cxt.found + 1] /\ cxt.at <= Len(cxt.sline)
  /\ cxt.success => /\ ~cxt.failed /\ text = lines[cxt.found + 1] /\ point = cxt.at
                    /\ ~cxt.missed => At(cxt.string, text, point)
  /\ IF cxt.string = <<>> THEN ~cxt.success ELSE cxt.success \/ cxt.failed
  /\ cxt.plain /\ IsInjective(lines) => Nears(cxt, lines)

\* Such a context after a key, before the search goes on.
Resumed(cxt, lines) ==
  /\ cxt \in ISearchContexts /\ cxt.pos = cxt.found /\ cxt.found \in 0 .. Len(lines) - 1
  /\ ~cxt.missed => cxt.sline = lines[cxt.found + 1] /\ cxt.at <= Len(cxt.sline)
  /\ ~cxt.reverse \/ cxt.string = <<>> => cxt.at \in Nat
  /\ cxt.plain /\ IsInjective(lines) =>
       IF cxt.string = <<>> THEN Nears(cxt, lines) ELSE Nearing(Begun(cxt), lines)

\* d is the search c, which began at the same place of the same lines.
SameStart(c, d) ==
  /\ d.start = c.start /\ d.point = c.point /\ d.typed = c.typed
  /\ d.before = c.before /\ d.clean = c.clean

\* What the search came to is kept, and what was found shown.
LEMMA SettledIs ==
  ASSUME NEW lines \in Seq(Text), NEW cxt \in ISearchContexts,
         NEW c, Looping(cxt, lines, c), c.success \/ c.failed, cxt.string # <<>>,
         cxt.found \in 0 .. Len(lines) - 1,
         ~c.missed => c.success,
         c.plain /\ IsInjective(lines) => Nearing(c, lines),
         NEW d, d = Settled(c, lines),
         NEW text, NEW point, c.success => text = lines[c.pos + 1] /\ point = c.at
  PROVE  Searching(d, lines, text, point) /\ SameStart(cxt, d)
<1>1. /\ c \in ISearchContexts /\ SameSearch(cxt, c) /\ c.pos \in 0 .. Len(lines) - 1
      /\ ~c.missed => c.sline = lines[c.pos + 1]
      /\ c.success => ~c.failed /\ c.at \in Nat /\ c.at <= Len(c.sline) /\ At(c.string, c.sline, c.at)
      /\ c.failed => c.at \in Nat
  BY DEF Looping
<1>2. /\ c.found = cxt.found /\ c.start = cxt.start /\ c.point = cxt.point /\ c.typed = cxt.typed
      /\ c.before = cxt.before /\ c.clean = cxt.clean /\ c.string # <<>>
  BY <1>1 DEF SameSearch
<1>3. PICK n \in Nat : n = Len(lines) /\ DOMAIN lines = 1 .. n
  OBVIOUS
<1>4. CASE c.success
  <2>1. PICK x \in Text, p \in Nat : p = c.pos /\ x = lines[p + 1] /\ p \in 0 .. n - 1
    BY <1>1, <1>3
  <2>2. d = [c EXCEPT !.found = p, !.prev = x]
    BY <1>4, <2>1 DEF Settled
  <2>3. /\ d \in ISearchContexts /\ d.found = p /\ d.pos = p /\ d.prev = x
        /\ d.start = c.start /\ d.point = c.point /\ d.typed = c.typed /\ d.reverse = c.reverse
        /\ d.before = c.before /\ d.clean = c.clean /\ d.string = c.string /\ d.at = c.at
        /\ d.missed = c.missed /\ d.sline = c.sline /\ d.success /\ ~d.failed /\ d.plain = c.plain
    BY <1>1, <1>4, <2>1, <2>2 DEF ISearchContexts
  <2>4. SameStart(cxt, d)
    BY <1>2, <2>3 DEF SameStart
  <2>5. ASSUME d.plain, IsInjective(lines) PROVE Nearing(d, lines)
    <3>1. Nearing(c, lines)
      BY <2>3, <2>5
    <3>2. \A k, i : IsPlace(c, lines, k, i) <=> IsPlace(d, lines, k, i)
      BY <2>3 DEF IsPlace, OnSide
    <3>3. \E k \in 1 .. Len(lines) : d.sline = lines[k] /\ OnSide(d, k, d.at)
      <4>1. PICK k \in 1 .. Len(lines) : c.sline = lines[k] /\ OnSide(c, k, c.at)
        BY <3>1 DEF Nearing
      <4>2. OnSide(d, k, d.at)
        BY <2>3, <4>1 DEF OnSide
      <4> QED
        BY <2>3, <4>1, <4>2
    <3>4. IsPlace(d, lines, d.pos + 1, d.at) /\ FromHere(d, lines)
      <4>1. IsPlace(c, lines, c.pos + 1, c.at) /\ FromHere(c, lines)
        BY <1>4, <3>1 DEF Nearing
      <4> QED
        BY <2>1, <2>3, <3>2, <4>1 DEF FromHere
    <3>5. IF d.reverse THEN d.pos <= d.found /\ d.found <= d.start
          ELSE d.pos >= d.found /\ d.found >= d.start
      <4>1. IF c.reverse THEN c.pos <= c.found /\ c.found <= c.start
            ELSE c.pos >= c.found /\ c.found >= c.start
        BY <3>1 DEF Nearing
      <4>2. c.found \in Nat /\ c.start \in Nat
        BY <1>1 DEF ISearchContexts
      <4> QED
        BY <2>1, <2>3, <4>1, <4>2
    <3>6. d.reverse => d.at <= Len(d.sline)
      BY <2>3, <3>1 DEF Nearing
    <3> QED
      BY <1>1, <1>3, <1>4, <2>1, <2>3, <3>3, <3>4, <3>5, <3>6 DEF Nearing
  <2>6. Searching(d, lines, text, point)
    BY <1>1, <1>2, <1>3, <1>4, <2>1, <2>3, <2>5 DEF Searching, Nears
  <2> QED
    BY <2>4, <2>6
<1>5. CASE ~c.success
  <2>1. c.failed /\ c.missed
    BY <1>5
  <2>2. PICK f \in Nat : f = c.found /\ f \in 0 .. n - 1
    BY <1>2, <1>3
  <2>3. d = [c EXCEPT !.pos = f]
    BY <1>5, <2>2 DEF Settled
  <2>4. /\ d \in ISearchContexts /\ d.found = f /\ d.pos = f /\ d.prev = c.prev
        /\ d.start = c.start /\ d.point = c.point /\ d.typed = c.typed /\ d.reverse = c.reverse
        /\ d.before = c.before /\ d.clean = c.clean /\ d.string = c.string /\ d.at = c.at
        /\ d.missed /\ d.sline = c.sline /\ ~d.success /\ d.failed /\ d.plain = c.plain
    BY <1>1, <1>5, <2>1, <2>2, <2>3 DEF ISearchContexts
  <2>5. SameStart(cxt, d)
    BY <1>2, <2>4 DEF SameStart
  <2>6. ASSUME d.plain, IsInjective(lines) PROVE Nearing(d, lines)
    <3>1. Nearing(c, lines)
      BY <2>4, <2>6
    <3>2. \A k, i : IsPlace(c, lines, k, i) <=> IsPlace(d, lines, k, i)
      BY <2>4 DEF IsPlace, OnSide
    <3>3. \E k \in 1 .. Len(lines) : d.sline = lines[k] /\ OnSide(d, k, d.at)
      <4>1. PICK k \in 1 .. Len(lines) : c.sline = lines[k] /\ OnSide(c, k, c.at)
        BY <3>1 DEF Nearing
      <4>2. OnSide(d, k, d.at)
        BY <2>4, <4>1 DEF OnSide
      <4> QED
        BY <2>4, <4>1, <4>2
    <3>4. NoPlace(d, lines)
      <4>1. NoPlace(c, lines)
        BY <2>1, <3>1 DEF Nearing
      <4> QED
        BY <3>2, <4>1 DEF NoPlace
    <3>5. IF d.reverse THEN d.pos <= d.found /\ d.found <= d.start
          ELSE d.pos >= d.found /\ d.found >= d.start
      <4>1. IF c.reverse THEN c.pos <= c.found /\ c.found <= c.start
            ELSE c.pos >= c.found /\ c.found >= c.start
        BY <3>1 DEF Nearing
      <4>2. c.found \in Nat /\ c.start \in Nat
        BY <1>1 DEF ISearchContexts
      <4> QED
        BY <2>2, <2>4, <4>1, <4>2
    <3>6. d.reverse => d.at <= Len(d.sline)
      BY <2>4, <3>1 DEF Nearing
    <3>7. d.prev = NoString \/ d.prev = lines[d.found + 1]
      <4>1. c.prev = NoString \/ c.prev = lines[c.found + 1]
        BY <3>1 DEF Nearing
      <4> QED
        BY <2>2, <2>4, <4>1
    <3> QED
      BY <1>1, <1>3, <2>1, <2>2, <2>4, <3>3, <3>4, <3>5, <3>6, <3>7 DEF Nearing
  <2>7. Searching(d, lines, text, point)
    BY <1>1, <1>2, <1>3, <2>1, <2>2, <2>4, <2>6 DEF Searching, Nears
  <2> QED
    BY <2>5, <2>7
<1> QED
  BY <1>4, <1>5

\* c is the search cxt with a match at index i of its line, wherever that is.
MatchedAt(cxt, c, i) == c = [cxt EXCEPT !.success = TRUE, !.failed = FALSE, !.at = i]

\* What the library holds after the end of a line that a search backwards runs past.
LEMMA OutsideIs ==
  ASSUME NEW lines \in Seq(Text), NEW cxt, Resumed(cxt, lines), cxt.string # <<>>, cxt.reverse,
         NEW i \in Len(cxt.sline) + 1 .. cxt.at,
         NEW c, MatchedAt(cxt, c, i),
         NEW d, d = Settled(c, lines),
         NEW text, NEW point, text = lines[c.pos + 1], point = c.at
  PROVE  Searching(d, lines, text, point) /\ SameStart(cxt, d)
<1>1. cxt \in ISearchContexts /\ cxt.pos = cxt.found /\ cxt.found \in 0 .. Len(lines) - 1
  BY DEF Resumed
<1>2. PICK a \in Int, l \in Nat, j \in Nat : a = cxt.at /\ l = Len(cxt.sline) /\ j = i /\ l < a
  <2>1. cxt.at \in Int /\ cxt.sline \in Text
    BY <1>1 DEF ISearchContexts
  <2>2. Len(cxt.sline) \in Nat
    BY <2>1, TextLen
  <2> QED
    BY <2>1, <2>2
<1>3. cxt.missed
  <2>1. ~cxt.missed => cxt.at <= Len(cxt.sline)
    BY DEF Resumed
  <2> QED
    BY <1>2, <2>1
<1>4. PICK x \in Text, p \in Nat : p = cxt.found /\ x = lines[p + 1] /\ p \in 0 .. Len(lines) - 1
  BY <1>1
<1>5. c = [cxt EXCEPT !.success = TRUE, !.failed = FALSE, !.at = j]
  BY <1>2 DEF MatchedAt
<1>6. c.success /\ c.pos = p /\ c \in ISearchContexts /\ c.at = j
  <2>1. j \in Int /\ p \in Nat /\ cxt \in ISearchContexts /\ cxt.pos = p
    BY <1>1, <1>2, <1>4
  <2> QED
    BY <1>5, <2>1 DEF ISearchContexts
<1>7. d = [cxt EXCEPT !.success = TRUE, !.failed = FALSE, !.at = j, !.found = p, !.prev = x]
  <2>1. d = [c EXCEPT !.found = p, !.prev = x]
    BY <1>4, <1>6 DEF Settled
  <2> QED
    BY <1>1, <1>5, <2>1 DEF ISearchContexts
<1>8. /\ d \in ISearchContexts /\ d.found = p /\ d.pos = p /\ d.success /\ ~d.failed /\ d.at = j
      /\ d.start = cxt.start /\ d.point = cxt.point /\ d.typed = cxt.typed
      /\ d.before = cxt.before /\ d.clean = cxt.clean /\ d.string = cxt.string
      /\ d.missed /\ d.plain = cxt.plain
  <2>1. j \in Int /\ p \in Nat /\ x \in Text /\ cxt \in ISearchContexts /\ cxt.pos = p /\ cxt.missed
    BY <1>1, <1>2, <1>3, <1>4
  <2>2. d \in ISearchContexts
    <3>1. d = [c EXCEPT !.found = p, !.prev = x]
      BY <1>4, <1>6 DEF Settled
    <3> QED
      BY <1>6, <2>1, <3>1 DEF ISearchContexts
  <2>3. d.found = p /\ d.pos = p /\ d.success /\ ~d.failed /\ d.at = j
    BY <1>7, <2>1 DEF ISearchContexts
  <2>4. /\ d.start = cxt.start /\ d.point = cxt.point /\ d.typed = cxt.typed
        /\ d.before = cxt.before /\ d.clean = cxt.clean /\ d.string = cxt.string
        /\ d.missed /\ d.plain = cxt.plain
    BY <1>7, <2>1 DEF ISearchContexts
  <2> QED
    BY <2>2, <2>3, <2>4
<1>9. SameStart(cxt, d)
  BY <1>8 DEF SameStart
<1>10. ~(d.plain /\ IsInjective(lines))
  <2>1. ASSUME d.plain, IsInjective(lines) PROVE FALSE
    <3>1. Nearing(Begun(cxt), lines)
      BY <1>8, <2>1 DEF Resumed
    <3>2. Begun(cxt).reverse = cxt.reverse /\ Begun(cxt).at = cxt.at /\ Begun(cxt).sline = cxt.sline
      BY <1>1 DEF Begun, ISearchContexts
    <3>3. cxt.at <= Len(cxt.sline)
      BY <3>1, <3>2 DEF Nearing
    <3> QED
      BY <1>2, <3>3
  <2> QED
    BY <2>1
<1> QED
  BY <1>4, <1>6, <1>8, <1>9, <1>10 DEF Searching

\* Without a string the search stays where it is.
LEMMA IdleIs ==
  ASSUME NEW lines \in Seq(Text), NEW cxt, Resumed(cxt, lines), cxt.string = <<>>,
         NEW d, d = Settled(Begun(cxt), lines), NEW text, NEW point
  PROVE  Searching(d, lines, text, point) /\ SameStart(cxt, d)
<1>1. cxt \in ISearchContexts /\ cxt.pos = cxt.found /\ cxt.found \in 0 .. Len(lines) - 1 /\ cxt.at \in Nat
  BY DEF Resumed
<1>2. d = [cxt EXCEPT !.success = FALSE, !.failed = TRUE]
  <2>1. PICK b : b = Begun(cxt)
    OBVIOUS
  <2>2. b = [cxt EXCEPT !.success = FALSE, !.failed = TRUE]
    BY <2>1 DEF Begun
  <2>3. d = [b EXCEPT !.pos = b.found]
    BY <1>1, <2>1, <2>2 DEF Settled, ISearchContexts
  <2> QED
    BY <1>1, <2>2, <2>3 DEF ISearchContexts
<1>3. /\ d \in ISearchContexts /\ d.found = cxt.found /\ d.pos = cxt.pos /\ ~d.success /\ d.failed
      /\ d.at = cxt.at /\ d.start = cxt.start /\ d.point = cxt.point /\ d.typed = cxt.typed
      /\ d.before = cxt.before /\ d.clean = cxt.clean /\ d.string = cxt.string
      /\ d.missed = cxt.missed /\ d.plain = cxt.plain /\ d.sline = cxt.sline /\ d.prev = cxt.prev
  BY <1>1, <1>2 DEF ISearchContexts
<1>4. SameStart(cxt, d)
  BY <1>3 DEF SameStart
<1>5. ~cxt.missed => cxt.sline = lines[cxt.found + 1] /\ cxt.at <= Len(cxt.sline)
  BY DEF Resumed
<1>6. d.plain /\ IsInjective(lines) => Nears(d, lines)
  <2>1. cxt.plain /\ IsInjective(lines) => Nears(cxt, lines)
    BY DEF Resumed
  <2> QED
    BY <1>3, <2>1 DEF Nears
<1> QED
  BY <1>1, <1>3, <1>4, <1>5, <1>6 DEF Searching

\* f is e with another text and point.
Displays(e, f, text, point) ==
  text \in Text /\ point \in Nat /\ f = [e EXCEPT !.text = text, !.point = point]

\* A key that is searched for leaves a search of the same lines.
LEMMA SearchGoesOn ==
  ASSUME NEW lines \in Seq(Text), NEW cxt, Resumed(cxt, lines), NEW c \in Searched(cxt, lines),
         NEW d, d = Settled(c, lines), NEW e \in Editor, NEW f, f = Shown(e, c, lines)
  PROVE  /\ SameStart(cxt, d)
         /\ \E text, point : Displays(e, f, text, point) /\ Searching(d, lines, text, point)
<1>1. cxt \in ISearchContexts /\ cxt.pos = cxt.found /\ cxt.found \in 0 .. Len(lines) - 1
  BY DEF Resumed
<1>2. e.text \in Text /\ e.point \in Nat /\ e = [e EXCEPT !.text = e.text, !.point = e.point]
  BY DEF Editor, Text
<1>3. CASE cxt.string = <<>>
  <2>1. c = Begun(cxt)
    BY <1>1, <1>3, LoopIdle DEF Searched
  <2>2. ~c.success
    BY <1>1, <2>1, BegunIs
  <2>3. f = e
    BY <2>2 DEF Shown
  <2>4. Searching(d, lines, e.text, e.point) /\ SameStart(cxt, d)
    BY <1>3, <2>1, IdleIs
  <2> QED
    BY <1>2, <2>3, <2>4 DEF Displays
<1>4. CASE cxt.string # <<>> /\ c = SearchLoop(cxt, lines)
  <2>1. Ready(cxt, lines)
    <3>1. ~cxt.missed => cxt.sline = lines[cxt.pos + 1]
      BY <1>1 DEF Resumed
    <3>2. ~cxt.reverse => cxt.at \in Nat
      BY DEF Resumed
    <3> QED
      BY <1>1, <3>1, <3>2 DEF Ready
  <2>2. Looping(cxt, lines, c) /\ (c.success \/ c.failed)
    BY <1>4, <2>1, LoopEnds
  <2>3. c.plain /\ IsInjective(lines) => Nearing(c, lines)
    <3>1. SUFFICES ASSUME c.plain, IsInjective(lines) PROVE Nearing(c, lines)
      OBVIOUS
    <3>2. c.plain = cxt.plain
      BY <2>2 DEF Looping, SameSearch
    <3>3. Nearing(Begun(cxt), lines)
      BY <1>4, <3>1, <3>2 DEF Resumed
    <3> QED
      BY <1>4, <2>1, <3>1, <3>3, LoopNears
  <2>4. ~c.missed => c.success
    BY <2>2 DEF Looping
  <2>5. PICK text, point : /\ text = IF c.success THEN lines[c.pos + 1] ELSE e.text
                           /\ point = IF c.success THEN c.at ELSE e.point
    OBVIOUS
  <2>6. Displays(e, f, text, point)
    <3>1. c.success => c.at \in Nat /\ lines[c.pos + 1] \in Text
      <4>1. c.success => c.at \in Nat /\ c.pos \in 0 .. Len(lines) - 1
        BY <2>2 DEF Looping
      <4> QED
        BY <4>1
    <3>2. text \in Text /\ point \in Nat
      BY <1>2, <2>5, <3>1
    <3>3. f = [e EXCEPT !.text = text, !.point = point]
      BY <1>2, <2>5 DEF Shown
    <3> QED
      BY <3>2, <3>3 DEF Displays
  <2>7. Searching(d, lines, text, point) /\ SameStart(cxt, d)
    BY <1>1, <1>4, <2>2, <2>3, <2>4, <2>5, SettledIs
  <2> QED
    BY <2>6, <2>7
<1>5. CASE cxt.string # <<>> /\ c # SearchLoop(cxt, lines)
  <2>1. /\ cxt.reverse
        /\ \E i \in Len(cxt.sline) + 1 .. cxt.at : MatchedAt(cxt, c, i)
    BY <1>5 DEF Searched, MatchedAt
  <2>2. PICK i \in Len(cxt.sline) + 1 .. cxt.at : MatchedAt(cxt, c, i)
    BY <2>1
  <2>3. i \in Nat
    <3>1. cxt.at \in Int /\ cxt.sline \in Text
      BY <1>1 DEF ISearchContexts
    <3>2. Len(cxt.sline) \in Nat
      BY <3>1, TextLen
    <3> QED
      BY <3>1, <3>2
  <2>4. c.success /\ c.pos = cxt.found /\ c.at = i
    BY <1>1, <2>2 DEF ISearchContexts, MatchedAt
  <2>5. PICK text \in Text : text = lines[c.pos + 1]
    BY <1>1, <2>4
  <2>6. Displays(e, f, text, i)
    BY <2>3, <2>4, <2>5 DEF Shown, Displays
  <2>7. Searching(d, lines, text, i) /\ SameStart(cxt, d)
    BY <1>5, <2>1, <2>2, <2>4, <2>5, OutsideIs
  <2> QED
    BY <2>6, <2>7
<1> QED
  BY <1>3, <1>4, <1>5

\* What the search shows is what it says it found.
LEMMA SearchingMatches ==
  ASSUME NEW cxt, NEW lines, NEW text, NEW point, Searching(cxt, lines, text, point),
         cxt.success, ~cxt.missed
  PROVE  text = lines[cxt.found + 1] /\ At(cxt.string, text, point)
  BY DEF Searching

\* k is the search c after a key: it may go on, from the same start.
Goes(c, k, lines) == Resumed(k, lines) /\ SameStart(c, k)

\* Keys other than those that add to the string.
LEMMA OtherKeys ==
  ASSUME NEW lines \in Seq(Text), NEW cxt, NEW text, NEW point, Searching(cxt, lines, text, point),
         NEW k \in ISearchContexts, ~k.plain, SameStart(cxt, k),
         k.pos = cxt.pos, k.found = cxt.found, k.missed = cxt.missed, k.sline = cxt.sline,
         ~k.reverse \/ k.string = <<>> => k.at \in Nat, ~k.missed => k.at <= Len(k.sline)
  PROVE  Goes(cxt, k, lines)
  BY DEF Goes, Resumed, Searching

\* From no string to one.
LEMMA FirstString ==
  ASSUME NEW lines \in Seq(Text), NEW cxt, NEW text, NEW point, Searching(cxt, lines, text, point),
         cxt.string = <<>>, cxt.start \in 0 .. Len(lines) - 1,
         NEW t \in Text, NEW k, k = [cxt EXCEPT !.string = t]
  PROVE  Goes(cxt, k, lines)
<1>1. cxt \in ISearchContexts /\ cxt.pos = cxt.found /\ cxt.found \in 0 .. Len(lines) - 1 /\ cxt.at \in Nat
  BY DEF Searching
<1>2. /\ k \in ISearchContexts /\ k.string = t /\ k.reverse = cxt.reverse
      /\ k.start = cxt.start /\ k.point = cxt.point /\ k.typed = cxt.typed
      /\ k.before = cxt.before /\ k.clean = cxt.clean /\ k.plain = cxt.plain
      /\ k.pos = cxt.pos /\ k.found = cxt.found /\ k.missed = cxt.missed /\ k.sline = cxt.sline
      /\ k.at = cxt.at /\ k.prev = cxt.prev
  BY <1>1 DEF ISearchContexts
<1>3. ~k.missed => k.sline = lines[k.found + 1] /\ k.at <= Len(k.sline)
  BY <1>2 DEF Searching
<1>4. SameStart(cxt, k)
  BY <1>2 DEF SameStart
<1>5. ASSUME k.plain, IsInjective(lines)
      PROVE  /\ t = <<>> => Nears(k, lines)
             /\ t # <<>> => Nearing(Begun(k), lines)
  <2>1. Nears(cxt, lines)
    BY <1>2, <1>5 DEF Searching
  <2>2. /\ cxt.found = cxt.start /\ cxt.at = cxt.point
        /\ cxt.sline = lines[cxt.start + 1] /\ cxt.at <= Len(cxt.sline)
        /\ cxt.prev = NoString \/ cxt.prev = lines[cxt.found + 1]
    BY <2>1 DEF Nears
  <2>3. CASE t = <<>>
    BY <1>2, <2>2, <2>3 DEF Nears
  <2>4. CASE t # <<>>
    <3>1. PICK b : b = Begun(k)
      OBVIOUS
    <3>2. /\ b \in ISearchContexts /\ SameSearch(k, b) /\ ~b.success /\ ~b.failed
          /\ b.pos = k.pos /\ b.sline = k.sline /\ b.at = k.at /\ b.missed = k.missed
      <4>1. k \in ISearchContexts /\ k.string # <<>>
        BY <1>2, <2>4
      <4> QED
        BY <3>1, <4>1, BegunIs
    <3>3. /\ b.reverse = cxt.reverse /\ b.start = cxt.start /\ b.point = cxt.point
          /\ b.found = cxt.found /\ b.prev = cxt.prev
      BY <1>2, <3>2 DEF SameSearch
    <3>4. PICK s \in Nat, q \in Nat, r \in BOOLEAN :
            s = cxt.start /\ q = cxt.point /\ r = cxt.reverse
      BY <1>1 DEF ISearchContexts
    <3>5. b.pos = s /\ b.found = s /\ b.start = s /\ b.point = q /\ b.at = q /\ b.reverse = r
      BY <1>1, <1>2, <2>2, <3>2, <3>3, <3>4
    <3>6. b.sline = lines[s + 1] /\ OnSide(b, s + 1, q) /\ s + 1 \in 1 .. Len(lines)
      BY <1>2, <2>2, <3>2, <3>4, <3>5 DEF OnSide
    <3>7. FromHere(b, lines)
      <4>1. ASSUME NEW m, NEW i, IsPlace(b, lines, m, i) PROVE Comes(r, s + 1, q, m, i)
        <5>1. m \in 1 .. Len(lines) /\ i \in Nat /\ OnSide(b, m, i)
          BY <4>1 DEF IsPlace
        <5> QED
          BY <3>4, <3>5, <5>1 DEF OnSide, Comes, Farther, Ahead
      <4> QED
        BY <3>5, <3>6, <4>1 DEF FromHere
    <3>8. b.reverse => b.at <= Len(b.sline)
      BY <1>2, <2>2, <3>2
    <3>9. b.prev = NoString \/ b.prev = lines[b.found + 1]
      BY <2>2, <3>3
    <3>10. \E m \in 1 .. Len(lines) : b.sline = lines[m] /\ OnSide(b, m, b.at)
      BY <3>5, <3>6
    <3>11. b.at \in Nat /\ b.found \in 0 .. Len(lines) - 1
      BY <1>1, <3>3, <3>4, <3>5
    <3>12. Nearing(b, lines)
      BY <3>2, <3>4, <3>5, <3>7, <3>8, <3>9, <3>10, <3>11 DEF Nearing
    <3> QED
      BY <2>4, <3>1, <3>12
  <2> QED
    BY <2>3, <2>4
<1>6. Resumed(k, lines)
  BY <1>1, <1>2, <1>3, <1>5 DEF Resumed
<1> QED
  BY <1>4, <1>6 DEF Goes

\* A character more.
LEMMA OneCharacter ==
  ASSUME NEW lines \in Seq(Text), NEW cxt, NEW text, NEW point, Searching(cxt, lines, text, point),
         cxt.start \in 0 .. Len(lines) - 1,
         NEW ch \in Char, NEW k, k = [cxt EXCEPT !.string = Append(@, ch)]
  PROVE  Goes(cxt, k, lines)
<1>1. cxt \in ISearchContexts /\ cxt.pos = cxt.found /\ cxt.found \in 0 .. Len(lines) - 1 /\ cxt.at \in Nat
  BY DEF Searching
<1>2. PICK s \in Text : s = cxt.string
  BY <1>1 DEF ISearchContexts
<1>3. PICK t \in Text : t = Append(s, ch) /\ t # <<>>
  <2>1. Append(s, ch) \in Text /\ Append(s, ch) # <<>>
    <3>1. Append(s, ch) \in Text /\ Len(Append(s, ch)) = Len(s) + 1 /\ Len(s) \in Nat
      BY <1>2 DEF Text
    <3>2. ASSUME Append(s, ch) = <<>> PROVE FALSE
      <4>1. Len(Append(s, ch)) = 0
        BY <3>2
      <4> QED
        BY <3>1, <4>1
    <3> QED
      BY <3>1, <3>2
  <2> QED
    BY <2>1
<1>4. k = [cxt EXCEPT !.string = t]
  BY <1>1, <1>2, <1>3 DEF ISearchContexts
<1>5. CASE s = <<>>
  BY <1>2, <1>4, <1>5, FirstString
<1>6. CASE s # <<>>
  <2>1. /\ k \in ISearchContexts /\ k.string = t /\ k.reverse = cxt.reverse
        /\ k.start = cxt.start /\ k.point = cxt.point /\ k.typed = cxt.typed
        /\ k.before = cxt.before /\ k.clean = cxt.clean /\ k.plain = cxt.plain
        /\ k.pos = cxt.pos /\ k.found = cxt.found /\ k.missed = cxt.missed /\ k.sline = cxt.sline
        /\ k.at = cxt.at /\ k.prev = cxt.prev
    BY <1>1, <1>3, <1>4 DEF ISearchContexts
  <2>2. ~k.missed => k.sline = lines[k.found + 1] /\ k.at <= Len(k.sline)
    BY <2>1 DEF Searching
  <2>3. SameStart(cxt, k)
    BY <2>1 DEF SameStart
  <2>4. ASSUME k.plain, IsInjective(lines)
        PROVE  Nearing(Begun(k), lines)
    <3>1. Nearing(cxt, lines)
      BY <1>2, <1>6, <2>1, <2>4 DEF Searching, Nears
    <3>2. PICK b : b = Begun(k)
      OBVIOUS
    <3>3. /\ b \in ISearchContexts /\ SameSearch(k, b) /\ ~b.success /\ ~b.failed
          /\ b.pos = k.pos /\ b.sline = k.sline /\ b.at = k.at /\ b.missed = k.missed
      <4>1. /\ b \in ISearchContexts /\ SameSearch(k, b) /\ ~b.success
            /\ b.pos = k.pos /\ b.sline = k.sline /\ b.at = k.at /\ b.missed = k.missed
            /\ b.failed = (k.string = <<>>)
        BY ONLY <2>1, <3>2, BegunIs
      <4> QED
        BY <1>3, <2>1, <4>1
    <3>4. /\ b.reverse = cxt.reverse /\ b.start = cxt.start /\ b.point = cxt.point
          /\ b.found = cxt.found /\ b.prev = cxt.prev /\ b.string = t
          /\ b.pos = cxt.pos /\ b.sline = cxt.sline /\ b.at = cxt.at
      BY <2>1, <3>3 DEF SameSearch
    <3>5. LongerString(cxt, b, ch)
      BY <1>2, <1>3, <3>4 DEF LongerString
    <3>6. \A m, i : IsPlace(b, lines, m, i) => IsPlace(cxt, lines, m, i)
      BY <1>1, <3>5, LongerPlaces
    <3>7. NoPlace(b, lines) \/ FromHere(b, lines)
      <4>1. CASE cxt.success
        <5>1. FromHere(cxt, lines)
          BY <3>1, <4>1 DEF Nearing
        <5> QED
          BY <3>4, <3>6, <5>1 DEF FromHere
      <4>2. CASE cxt.failed
        <5>1. NoPlace(cxt, lines)
          BY <3>1, <4>2 DEF Nearing
        <5> QED
          BY <3>6, <5>1 DEF NoPlace
      <4> QED
        BY <1>2, <1>6, <4>1, <4>2 DEF Searching
    <3>8. \E m \in 1 .. Len(lines) : b.sline = lines[m] /\ OnSide(b, m, b.at)
      <4>1. PICK m \in 1 .. Len(lines) : cxt.sline = lines[m] /\ OnSide(cxt, m, cxt.at)
        BY <3>1 DEF Nearing
      <4>2. OnSide(b, m, b.at)
        BY <3>4, <4>1 DEF OnSide
      <4> QED
        BY <3>4, <4>1, <4>2
    <3>9. /\ b.at \in Nat /\ b.found \in 0 .. Len(lines) - 1
          /\ b.reverse => b.at <= Len(b.sline)
          /\ IF b.reverse THEN b.pos <= b.found /\ b.found <= b.start
                          ELSE b.pos >= b.found /\ b.found >= b.start
          /\ b.prev = NoString \/ b.prev = lines[b.found + 1]
      BY <3>1, <3>4 DEF Nearing
    <3> QED
      BY <3>2, <3>3, <3>7, <3>8, <3>9 DEF Nearing
  <2>5. Resumed(k, lines)
    BY <1>1, <1>3, <2>1, <2>2, <2>4 DEF Resumed
  <2> QED
    BY <2>3, <2>5 DEF Goes
<1> QED
  BY <1>5, <1>6

\* The first context.
LEMMA FirstSearch ==
  ASSUME NEW e, Fine(e), PointIn(e), NEW reverse \in BOOLEAN, used.line \in BOOLEAN,
         NEW cxt, cxt = ISearchContext(e, reverse),
         e.text = Lines(e, cxt)[cxt.start + 1]
  PROVE  /\ Searching(cxt, Lines(e, cxt), e.text, e.point)
         /\ cxt.start = e.offset /\ cxt.before = e.text /\ cxt.point = e.point
         /\ cxt.clean = ~used.line
         /\ cxt.typed = IF e.saved = <<>> THEN e.text ELSE e.saved[1].line
<1>1. e \in Editor /\ e.text \in Text /\ e.point \in Nat /\ e.offset \in Nat /\ e.offset <= Len(e.list)
  BY DEF Fine, Editor, Text
<1>2. PICK t \in Text : t = IF e.saved = <<>> THEN e.text ELSE e.saved[1].line
  <2>1. e.saved # <<>> => e.saved[1].line \in Text
    BY <1>1 DEF Editor, Entry, Text
  <2> QED
    BY <1>1, <2>1
<1>3. PICK x \in Text, o \in Nat, p \in Nat : x = e.text /\ o = e.offset /\ p = e.point
  BY <1>1
<1>4. PICK b \in BOOLEAN : b = ~used.line
  OBVIOUS
<1>5. cxt = [reverse |-> reverse, start |-> o, point |-> p, typed |-> t,
             string |-> <<>>, pos |-> o, found |-> o, prev |-> NoString,
             sline |-> x, at |-> p, success |-> FALSE, failed |-> FALSE,
             before |-> x, clean |-> b, missed |-> FALSE, plain |-> TRUE]
  BY <1>2, <1>3, <1>4 DEF ISearchContext
<1>6. <<>> \in Text /\ NoString \in Text \cup {NoString} /\ p \in Int
  BY DEF Text
<1>7. cxt \in ISearchContexts
  BY <1>2, <1>3, <1>5, <1>6 DEF ISearchContexts
<1>8. PICK lines \in Seq(Text) : lines = Lines(e, cxt) /\ Len(lines) = Len(e.list) + 1
  <2>1. cxt.typed \in Text
    BY <1>2, <1>5
  <2> QED
    BY <1>1, <2>1, LinesAre
<1>9. o \in 0 .. Len(lines) - 1
  BY <1>1, <1>3, <1>8 DEF Editor
<1>10. p <= Len(x)
  BY <1>3 DEF PointIn
<1>11. x = lines[o + 1]
  BY <1>3, <1>5, <1>8
<1>12. Searching(cxt, lines, e.text, e.point)
  BY <1>3, <1>5, <1>7, <1>9, <1>10, <1>11 DEF Searching, Nears
<1>13. cxt.start = o /\ cxt.before = x /\ cxt.point = p /\ cxt.clean = b /\ cxt.typed = t
  BY <1>5
<1> QED
  BY <1>2, <1>3, <1>4, <1>8, <1>12, <1>13

\* In a plain search the nearest place is shown.
LEMMA SearchingNearest ==
  ASSUME NEW cxt, NEW lines \in Seq(Text), NEW text, NEW point, Searching(cxt, lines, text, point),
         cxt.plain, cxt.string # <<>>, IsInjective(lines)
  PROVE  IF Places(cxt, lines) = {} THEN cxt.failed
         ELSE \E p \in Places(cxt, lines) :
                /\ \A q \in Places(cxt, lines) : Comes(cxt.reverse, p[1], p[2], q[1], q[2])
                /\ cxt.success /\ cxt.found + 1 = p[1] /\ point = p[2]
<1>1. cxt \in ISearchContexts /\ cxt.pos = cxt.found /\ Nearing(cxt, lines)
  BY DEF Searching, Nears
<1>2. \A p \in Places(cxt, lines) : IsPlace(cxt, lines, p[1], p[2])
  BY <1>1, PlacesAre
<1>3. CASE cxt.success
  <2>1. PICK m, i : m = cxt.found + 1 /\ i = cxt.at
    OBVIOUS
  <2>2. IsPlace(cxt, lines, m, i) /\ \A k, j : IsPlace(cxt, lines, k, j) => Comes(cxt.reverse, m, i, k, j)
    BY <1>1, <1>3, <2>1 DEF Nearing, FromHere
  <2>3. <<m, i>> \in Places(cxt, lines) /\ <<m, i>>[1] = m /\ <<m, i>>[2] = i
    BY <1>1, <2>2, PlacesAre
  <2>4. point = i
    BY <1>3, <2>1 DEF Searching
  <2> QED
    BY <1>2, <1>3, <2>1, <2>2, <2>3, <2>4
<1>4. CASE cxt.failed
  <2>1. NoPlace(cxt, lines)
    BY <1>1, <1>4 DEF Nearing
  <2>2. Places(cxt, lines) = {}
    BY <1>2, <2>1 DEF NoPlace
  <2> QED
    BY <1>4, <2>2
<1> QED
  BY <1>3, <1>4 DEF Searching

-----------------------------------------------------------------------------
(* The inductive invariant *)

\* What the searches keep, with n entries.
Memories ==
  [isearch : Text \cup {NoString}, nsearch : Text \cup {NoString}, pos : Nat,
   last : [kind : {"other", "prefix", "substring"}, string : Text, pos : Nat,
           prev : Text \cup {NoString}]]

Remembered(m, n) == m \in Memories /\ m.pos <= n /\ m.last.pos <= n

Uses == [line : BOOLEAN, onEntry : BOOLEAN, count : Nat]

\* After the search s for the entries with the beginning of the line.
Prefixed(e, s) ==
  s.string # <<>> /\ ~Dangling(e) =>
    /\ e.saved = <<>> /\ Len(s.string) <= Len(e.text)
    /\ s.kind = "prefix" => SubSeq(e.text, 1, Len(s.string)) = s.string /\ e.point = Len(s.string)

\* Between two commands.
Editing(e, m, t, u) ==
  /\ Fine(e) /\ Remembered(m, Len(e.list)) /\ t \in Text /\ u \in Uses
  /\ u.count = 0 => ~u.line
  /\ ~Dangling(e) => PointIn(e)
  /\ m.last.kind # "other" => Prefixed(e, m.last)
  /\ ~u.line => TypedHere(e, t)

\* The line and the point an incremental search began with.
Before(e, c) == [e EXCEPT !.text = Lines(e, c)[c.start + 1], !.point = c.point]

\* During an incremental search.
InSearch(e, c, m, t, u) ==
  /\ Editing(Before(e, c), m, t, u) /\ m.last.kind = "other"
  /\ e \in Editor /\ c.start = e.offset /\ c.before = Before(e, c).text
  /\ Searching(c, Lines(e, c), e.text, e.point)

\* While the string of another search is typed.
InString(e, c, m, t, u) ==
  /\ Editing(e, m, t, u) /\ m.last.kind = "other" /\ u.line
  /\ c.reverse \in BOOLEAN /\ c.start = e.offset /\ c.point \in Nat
  /\ c.before \in Text /\ c.point <= Len(c.before)
  /\ c.clean => e.saved # <<>> /\ e.saved[1].line = c.before

\* After the line.
Ended(e, m) ==
  /\ e \in Editor /\ e.offset = Len(e.list) /\ PointIn(e)
  /\ Remembered(m, Len(e.list)) /\ m.last.kind = "other"

Good(e, md, c, m, t, u) ==
  \/ md = "edit" /\ Editing(e, m, t, u)
  \/ md = "isearch" /\ InSearch(e, c, m, t, u)
  \/ md = "nsearch" /\ InString(e, c, m, t, u)
  \/ md = "accepted" /\ Ended(e, m)

\* What the searches keep after another command.
LEMMA OtherIs ==
  ASSUME NEW n \in Nat, NEW m, Remembered(m, n), NEW k, k = OtherCommand(m)
  PROVE  /\ Remembered(k, n) /\ k.last.kind = "other"
         /\ k.isearch = m.isearch /\ k.nsearch = m.nsearch /\ k.pos = m.pos
<1>1. <<>> \in Text
  BY DEF Text
<1>2. NoSearch \in [kind : {"other", "prefix", "substring"}, string : Text, pos : Nat,
                    prev : Text \cup {NoString}]
  BY <1>1 DEF NoSearch
<1>3. m \in Memories /\ k = [m EXCEPT !.last = NoSearch]
  BY DEF Remembered, OtherCommand
<1>4. /\ k \in Memories /\ k.last = NoSearch
      /\ k.isearch = m.isearch /\ k.nsearch = m.nsearch /\ k.pos = m.pos
  BY <1>2, <1>3 DEF Memories
<1>5. NoSearch.pos = 0 /\ NoSearch.kind = "other"
  BY DEF NoSearch
<1> QED
  BY <1>4, <1>5 DEF Remembered

\* A command that is no search leaves what it must.
LEMMA EditingAfter ==
  ASSUME NEW e, NEW m, NEW t, NEW u, Editing(e, m, t, u),
         NEW d, Fine(d), Len(d.list) = Len(e.list), ~Dangling(d) => PointIn(d),
         NEW s \in Text, NEW k, k = OtherCommand(m), NEW w \in Uses,
         w.count = 0 => ~w.line, ~w.line => TypedHere(d, s)
  PROVE  Editing(d, k, s, w) /\ k.last.kind = "other"
<1>1. Remembered(m, Len(e.list)) /\ Len(e.list) \in Nat
  BY DEF Editing, Fine, Editor
<1>2. Remembered(k, Len(d.list)) /\ k.last.kind = "other"
  BY <1>1, OtherIs
<1> QED
  BY <1>2 DEF Editing

\* Forgetting what no list holds.
LEMMA EditingSwept ==
  ASSUME NEW e, NEW m, NEW t, NEW u, Editing(e, m, t, u), NEW d, d = Swept(e)
  PROVE  Editing(d, m, t, u)
<1>1. Fine(e)
  BY DEF Editing
<1>2. Sweeps(e, d) /\ (Dangling(d) <=> Dangling(e))
  BY <1>1, SweptIs
<1>3. /\ Fine(d) /\ d.text = e.text /\ d.point = e.point
      /\ d.list = e.list /\ d.offset = e.offset /\ d.saved = e.saved
  BY <1>2 DEF Sweeps
<1>4. (PointIn(d) <=> PointIn(e)) /\ (TypedHere(d, t) <=> TypedHere(e, t))
      /\ (Prefixed(d, m.last) <=> Prefixed(e, m.last))
  BY <1>2, <1>3 DEF PointIn, TypedHere, OnEntry, Prefixed
<1> QED
  BY <1>2, <1>3, <1>4 DEF Editing

\* What is known of the uses.
LEMMA UsesIs ==
  ASSUME NEW u \in Uses
  PROVE  u.line \in BOOLEAN /\ u.onEntry \in BOOLEAN /\ u.count \in Nat
  BY DEF Uses

-----------------------------------------------------------------------------
(* The commands that are no search *)

\* Moving in the line keeps the invariant.
LEMMA MoveGood ==
  ASSUME NEW t, NEW u, Editing(editor, memory, t, u), Move
  PROVE  Editing(editor', memory', t, u)
<1>1. Fine(editor) /\ t \in Text /\ u \in Uses /\ (u.count = 0 => ~u.line)
  BY DEF Editing
<1>2. PICK x \in Text : x = editor.text
  BY <1>1 DEF Fine, Editor, Text
<1>3. PICK p \in 0 .. Len(x) : editor' = [editor EXCEPT !.point = p]
  BY <1>2 DEF Move
<1>4. PICK d : d = editor'
  OBVIOUS
<1>5. p \in Nat /\ d = [editor EXCEPT !.point = p]
  BY <1>2, <1>3, <1>4, TextLen
<1>6. /\ d \in Editor /\ d.text = x /\ d.point = p /\ d.list = editor.list /\ d.offset = editor.offset
      /\ d.saved = editor.saved /\ d.rec = editor.rec
  BY <1>1, <1>2, <1>5 DEF Editor, Fine
<1>7. Fine(d) /\ PointIn(d)
  BY <1>1, <1>2, <1>3, <1>6, TextLen DEF Fine, PointIn
<1>8. ~u.line => TypedHere(d, t)
  BY <1>2, <1>6 DEF Editing, TypedHere, OnEntry
<1>9. memory' = OtherCommand(memory)
  BY DEF Move
<1> QED
  BY <1>1, <1>4, <1>6, <1>7, <1>8, <1>9, EditingAfter

\* Moving in the history keeps it.
LEMMA MoveInHistoryGood ==
  ASSUME NEW t, NEW u, Editing(editor, memory, t, u), ~Dangling(editor), MoveInHistory
  PROVE  Editing(editor', memory', t, u)
<1>1. Fine(editor) /\ PointIn(editor) /\ t \in Text /\ u \in Uses /\ (u.count = 0 => ~u.line)
  BY DEF Editing
<1>2. PICK d : d \in {Backward(editor, 1), Forward(editor, 1)} /\ editor' = Swept(d)
  BY DEF MoveInHistory
<1>3. 1 \in Nat /\ 1 # 0
  OBVIOUS
<1>4. Moves(editor, d)
  BY <1>1, <1>2, <1>3, BackwardFine, ForwardFine
<1>5. Fine(d) /\ Len(d.list) = Len(editor.list) /\ PointIn(d)
  BY <1>1, <1>4 DEF Moves
<1>6. ~u.line => TypedHere(d, t)
  BY <1>4 DEF Editing, Moves
<1>7. memory' = OtherCommand(memory)
  BY DEF MoveInHistory
<1>8. Editing(d, memory', t, u)
  BY <1>1, <1>5, <1>6, <1>7, EditingAfter
<1> QED
  BY <1>2, <1>8, EditingSwept

\* Typing a character keeps it.
LEMMA TypeGood ==
  ASSUME Editing(editor, memory, typed, used), ~Dangling(editor), Type
  PROVE  Editing(editor', memory', typed', used')
<1>1. Fine(editor) /\ PointIn(editor) /\ typed \in Text /\ used \in Uses /\ used.count = 0 /\ ~used.line
      /\ TypedHere(editor, typed)
  BY DEF Editing, Type
<1>2. PICK c \in Char : editor' = InsertText(editor, <<c>>)
  BY HistorySearchAssumption DEF Type
<1>3. PICK x \in Text, new \in Text : x = editor.text /\ new = <<c>>
  <2>1. <<c>> \in Text /\ editor.text \in Text
    BY <1>1 DEF Text, Fine, Editor
  <2> QED
    BY <2>1
<1>4. PICK k \in Nat, j \in Nat : k = 1 /\ j = 2 /\ OneLess(k, j)
  BY DEF OneLess
<1>5. Works(editor, j)
  <2>1. Room(editor, 2)
    BY DEF Type
  <2> QED
    BY <1>1, <1>4, <2>1, AliveIs DEF Works, Room, RoomFor
<1>6. PICK d : d = editor'
  OBVIOUS
<1>7. editor.point \in 0 .. Len(x)
  BY <1>1, <1>3, TextLen DEF PointIn, Fine, Editor
<1>8. Works(d, k) /\ SameLines(editor, d) /\ d.text \in Text /\ PointIn(d)
  BY <1>2, <1>3, <1>4, <1>5, <1>6, <1>7, InsertWorks
<1>9. Fine(d) /\ d.list = editor.list /\ d.offset = editor.offset /\ d.saved = editor.saved
  BY <1>8 DEF Works, SameLines
<1>10. PICK s \in Text : s = typed'
  <2>1. typed' = IF OnEntry(editor) THEN typed ELSE d.text
    BY <1>6 DEF Type
  <2> QED
    BY <1>1, <1>8, <2>1
<1>11. TypedHere(d, s)
  <2>1. s = IF OnEntry(editor) THEN typed ELSE d.text
    BY <1>6, <1>10 DEF Type
  <2> QED
    BY <1>1, <1>9, <2>1 DEF TypedHere, OnEntry
<1>12. memory' = OtherCommand(memory) /\ used' = used
  BY DEF Type
<1> QED
  BY <1>1, <1>6, <1>8, <1>9, <1>10, <1>11, <1>12, EditingAfter

\* Accepting the line keeps it.
LEMMA AcceptGood ==
  ASSUME Editing(editor, memory, typed, used), Accept
  PROVE  Ended(editor', memory')
<1>1. Fine(editor)
  BY DEF Editing
<1>2. PICK d : d = Accepted(editor, FALSE)
  OBVIOUS
<1>3. Formed(editor, editor)
  BY <1>1 DEF Formed, Fine, Sound
<1>4. /\ d \in Editor /\ d.text = <<>> /\ d.point = 0 /\ d.offset = Len(d.list)
      /\ Len(d.list) = OneMore(Len(editor.list), editor.text)
  BY <1>2, <1>3, AcceptedForms
<1>5. PICK f : f = editor'
  OBVIOUS
<1>6. f = Swept(d)
  BY <1>2, <1>5 DEF Accept
<1>7. PICK r : r = [i \in Id |-> IF i \in Held(d) THEN d.rec[i] ELSE Free]
  OBVIOUS
<1>8. r \in [Id -> UndoRec]
  <2>1. d.rec \in [Id -> UndoRec]
    BY <1>4, Parts
  <2>2. Free \in UndoRec
    BY Pointers DEF Free, UndoRec, Text
  <2> QED
    BY <1>7, <2>1, <2>2
<1>9. f = [d EXCEPT !.rec = r]
  BY <1>6, <1>7 DEF Swept
<1>10. f \in Editor /\ f.text = <<>> /\ f.point = 0 /\ f.offset = Len(f.list) /\ f.list = d.list
  BY <1>4, <1>8, <1>9 DEF Editor, UndoRec, Text
<1>11. PointIn(f)
  BY <1>10 DEF PointIn
<1>12. PICK n \in Nat : n = Len(editor.list)
  BY <1>1 DEF Fine, Editor
<1>13. Len(f.list) >= n /\ Len(f.list) \in Nat
  BY <1>4, <1>10, <1>12 DEF OneMore
<1>14. memory' = OtherCommand(memory)
  BY DEF Accept
<1>15. Remembered(memory', n) /\ memory'.last.kind = "other"
  BY <1>12, <1>14, OtherIs DEF Editing
<1>16. Remembered(memory', Len(f.list))
  BY <1>13, <1>15 DEF Remembered, Memories
<1> QED
  BY <1>5, <1>10, <1>11, <1>15, <1>16 DEF Ended

-----------------------------------------------------------------------------
(* The incremental search keeps the invariant *)

\* d is e with the point at p, or within the line.
PointedAt(e, d, p) == d = PointAt(e, p)

\* Nothing else is changed by that.
LEMMA PointAtIs ==
  ASSUME NEW e, Fine(e), NEW p \in Nat, NEW d, PointedAt(e, d, p)
  PROVE  /\ Fine(d) /\ PointIn(d) /\ d.text = e.text /\ d.undo = e.undo /\ d.list = e.list
         /\ d.offset = e.offset /\ d.saved = e.saved /\ d.rec = e.rec
         /\ p <= Len(e.text) => d.point = p
<1>1. PICK t \in Text : t = e.text
  BY DEF Fine, Editor, Text
<1>2. Len(t) \in Nat
  BY <1>1, TextLen
<1>3. PICK c \in Nat : c = Clip(p, t) /\ c <= Len(t) /\ (p <= Len(t) => c = p)
  <2>1. Clip(p, t) \in Nat /\ Clip(p, t) <= Len(t) /\ (p <= Len(t) => Clip(p, t) = p)
    BY <1>2 DEF Clip
  <2> QED
    BY <2>1
<1>4. d = [e EXCEPT !.point = c]
  BY <1>1, <1>3 DEF PointedAt, PointAt
<1>5. /\ d \in Editor /\ d.text = e.text /\ d.undo = e.undo /\ d.list = e.list /\ d.point = c
      /\ d.offset = e.offset /\ d.saved = e.saved /\ d.rec = e.rec
  BY <1>3, <1>4 DEF Fine, Editor
<1>6. Fine(d)
  BY <1>5 DEF Fine
<1> QED
  BY <1>1, <1>3, <1>5, <1>6 DEF PointIn

\* The line the search began with.
LEMMA BeforeIs ==
  ASSUME NEW e \in Editor, NEW c, NEW lines, lines = Lines(e, c), lines \in Seq(Text),
         c.start \in 0 .. Len(lines) - 1, c.point \in Nat, NEW d, d = Before(e, c)
  PROVE  /\ d \in Editor /\ d.text = lines[c.start + 1] /\ d.text \in Text /\ d.point = c.point
         /\ d.undo = e.undo /\ d.list = e.list /\ d.offset = e.offset /\ d.saved = e.saved
         /\ d.rec = e.rec /\ (Fine(d) <=> Fine(e))
<1>1. PICK x \in Text, p \in Nat : x = lines[c.start + 1] /\ p = c.point
  <2>1. lines[c.start + 1] \in Text
    OBVIOUS
  <2> QED
    BY <2>1
<1>2. d = [e EXCEPT !.text = x, !.point = p]
  BY <1>1 DEF Before
<1>3. /\ d \in Editor /\ d.text = x /\ d.point = p /\ d.undo = e.undo /\ d.list = e.list
      /\ d.offset = e.offset /\ d.saved = e.saved /\ d.rec = e.rec
  BY <1>1, <1>2 DEF Editor, Text
<1> QED
  BY <1>1, <1>3 DEF Fine

\* What is known during a search.
LEMMA InSearchIs ==
  ASSUME NEW e, NEW c, NEW m, NEW t, NEW u, InSearch(e, c, m, t, u)
  PROVE  /\ Fine(e) /\ c \in ISearchContexts /\ Lines(e, c) \in Seq(Text)
         /\ Len(Lines(e, c)) = Len(e.list) + 1 /\ c.start = e.offset
         /\ c.start \in 0 .. Len(Lines(e, c)) - 1 /\ c.found \in 0 .. Len(Lines(e, c)) - 1
         /\ c.point \in Nat /\ c.at \in Nat /\ c.string \in Text /\ Fine(Before(e, c))
         /\ Searching(c, Lines(e, c), e.text, e.point)
<1>1. e \in Editor /\ c.start = e.offset /\ Searching(c, Lines(e, c), e.text, e.point)
  BY DEF InSearch
<1>2. /\ c \in ISearchContexts /\ c.at \in Nat /\ c.found \in 0 .. Len(Lines(e, c)) - 1
  BY <1>1 DEF Searching
<1>3. c.typed \in Text /\ c.point \in Nat /\ c.string \in Text /\ c.start \in Nat
  BY <1>2 DEF ISearchContexts
<1>4. Lines(e, c) \in Seq(Text) /\ Len(Lines(e, c)) = Len(e.list) + 1
  BY <1>1, <1>3, LinesAre
<1>5. PICK d : d = Before(e, c)
  OBVIOUS
<1>6. Fine(d)
  BY <1>5 DEF InSearch, Editing
<1>7. d.offset = e.offset /\ d.list = e.list /\ d.rec = e.rec
  BY <1>1, <1>5 DEF Before, Editor
<1>8. Fine(e)
  BY <1>1, <1>6, <1>7 DEF Fine
<1>9. Len(e.list) \in Nat /\ e.offset <= Len(e.list)
  BY <1>8 DEF Fine, Editor
<1>10. c.start \in 0 .. Len(Lines(e, c)) - 1
  BY <1>1, <1>3, <1>4, <1>9
<1> QED
  BY <1>1, <1>2, <1>3, <1>4, <1>5, <1>6, <1>8, <1>10

\* Beginning a search.
LEMMA ISearchGood ==
  ASSUME Editing(editor, memory, typed, used), ~Dangling(editor), ISearch
  PROVE  InSearch(editor', context', memory', typed', used')
<1>1. Fine(editor) /\ PointIn(editor) /\ typed \in Text /\ used \in Uses /\ (used.count = 0 => ~used.line)
  BY DEF Editing
<1>2. PICK r \in BOOLEAN :
        /\ MaybeReplace(editor).text
             = Lines(MaybeReplace(editor), ISearchContext(MaybeReplace(editor), r))
                 [ISearchContext(MaybeReplace(editor), r).start + 1]
        /\ editor' = MaybeReplace(editor) /\ context' = ISearchContext(MaybeReplace(editor), r)
  BY DEF ISearch
<1>3. PICK e, c : e = editor' /\ c = context'
  OBVIOUS
<1>4. e = MaybeReplace(editor) /\ c = ISearchContext(e, r) /\ e.text = Lines(e, c)[c.start + 1]
  BY <1>2, <1>3
<1>5. /\ Besides(editor, e) /\ e.text = editor.text /\ e.point = editor.point /\ e.saved = editor.saved
  BY <1>1, <1>4, ReplaceFine
<1>6. Fine(e) /\ PointIn(e) /\ Len(e.list) = Len(editor.list) /\ e.offset = editor.offset
  BY <1>1, <1>5 DEF Besides, PointIn
<1>7. used.line \in BOOLEAN
  BY <1>1, UsesIs
<1>8. /\ Searching(c, Lines(e, c), e.text, e.point)
      /\ c.start = e.offset /\ c.before = e.text /\ c.point = e.point
  BY <1>4, <1>6, <1>7, FirstSearch
<1>9. Before(e, c) = e
  BY <1>4, <1>6, <1>8 DEF Before, Fine, Editor
<1>10. ~used.line => TypedHere(e, typed)
  BY <1>5, <1>6 DEF Editing, TypedHere, OnEntry
<1>11. PICK w : w = used'
  OBVIOUS
<1>12. w \in Uses /\ w.line = used.line /\ (w.count = 0 => ~w.line)
  <2>1. PICK n \in Nat : n = used.count + 1 /\ n # 0
    <3>1. used.count \in Nat
      BY <1>1, UsesIs
    <3> QED
      BY <3>1
  <2>2. w = [used EXCEPT !.count = n]
    BY <1>1, <1>11, <2>1 DEF ISearch, Uses
  <2> QED
    BY <1>1, <2>1, <2>2 DEF Uses
<1>13. memory' = OtherCommand(memory) /\ typed' = typed
  BY DEF ISearch
<1>14. Editing(e, memory', typed, w) /\ memory'.last.kind = "other"
  BY <1>1, <1>6, <1>10, <1>11, <1>12, <1>13, EditingAfter
<1> QED
  BY <1>3, <1>6, <1>8, <1>9, <1>11, <1>13, <1>14 DEF InSearch, Fine

\* The search goes on after a key.
LEMMA SearchOnGood ==
  ASSUME InSearch(editor, context, memory, typed, used),
         NEW k, Goes(context, k, Lines(editor, context)), SearchOn(k)
  PROVE  /\ InSearch(editor', context', memory', typed', used')
         /\ Before(editor', context') = Before(editor, context)
<1>1. PICK lines : lines = Lines(editor, context)
  OBVIOUS
<1>2. /\ Fine(editor) /\ lines \in Seq(Text) /\ context.start \in 0 .. Len(lines) - 1
      /\ context.point \in Nat /\ editor \in Editor
  BY <1>1, InSearchIs DEF Fine
<1>3. SameStart(context, k) /\ Resumed(k, lines)
  BY <1>1 DEF Goes
<1>4. Lines(editor, k) = lines
  BY <1>1, <1>3 DEF SameStart, Lines
<1>5. PICK c \in Searched(k, lines) : context' = Settled(c, lines) /\ editor' = Shown(editor, c, lines)
  BY <1>4 DEF SearchOn
<1>6. PICK d, f : d = context' /\ f = editor'
  OBVIOUS
<1>7. /\ SameStart(k, d)
      /\ \E text, point : Displays(editor, f, text, point) /\ Searching(d, lines, text, point)
  BY <1>2, <1>3, <1>5, <1>6, SearchGoesOn
<1>8. PICK text, point : Displays(editor, f, text, point) /\ Searching(d, lines, text, point)
  BY <1>7
<1>9. text \in Text /\ point \in Nat /\ f = [editor EXCEPT !.text = text, !.point = point]
  BY <1>8 DEF Displays
<1>10. /\ f \in Editor /\ f.text = text /\ f.point = point /\ f.list = editor.list
       /\ f.offset = editor.offset
  BY <1>2, <1>9 DEF Editor, Text
<1>11. /\ d.start = context.start /\ d.point = context.point /\ d.typed = context.typed
       /\ d.before = context.before /\ d.clean = context.clean
  BY <1>3, <1>7 DEF SameStart
<1>12. Lines(f, d) = lines
  BY <1>1, <1>10, <1>11 DEF Lines
<1>13. Before(f, d) = Before(editor, context)
  <2>1. PICK x \in Text, p \in Nat : x = lines[context.start + 1] /\ p = context.point
    <3>1. lines[context.start + 1] \in Text
      BY <1>2
    <3> QED
      BY <1>2, <3>1
  <2>2. Before(f, d) = [f EXCEPT !.text = x, !.point = p]
    BY <1>11, <1>12, <2>1 DEF Before
  <2>3. Before(editor, context) = [editor EXCEPT !.text = x, !.point = p]
    BY <1>1, <2>1 DEF Before
  <2> QED
    BY <1>2, <1>9, <2>2, <2>3 DEF Editor
<1>14. memory' = memory /\ typed' = typed /\ used' = used
  BY DEF SearchOn
<1> QED
  BY <1>6, <1>8, <1>10, <1>11, <1>12, <1>13, <1>14 DEF InSearch

\* A character for the string.
LEMMA CharGood ==
  ASSUME InSearch(editor, context, memory, typed, used), ISearchChar
  PROVE  /\ InSearch(editor', context', memory', typed', used')
         /\ Before(editor', context') = Before(editor, context)
<1>1. PICK lines : lines = Lines(editor, context)
  OBVIOUS
<1>2. /\ lines \in Seq(Text) /\ context.start \in 0 .. Len(lines) - 1
      /\ Searching(context, lines, editor.text, editor.point)
  BY <1>1, InSearchIs
<1>3. PICK ch \in Char : SearchOn([context EXCEPT !.string = Append(@, ch)])
  BY DEF ISearchChar
<1>4. PICK k : k = [context EXCEPT !.string = Append(@, ch)]
  OBVIOUS
<1>5. Goes(context, k, lines)
  BY <1>2, <1>3, <1>4, OneCharacter
<1> QED
  BY <1>1, <1>3, <1>4, <1>5, SearchOnGood

\* A search that is not plain any more, from the same start.
Turned(c, k) ==
  /\ k \in ISearchContexts /\ ~k.plain /\ SameStart(c, k)
  /\ k.pos = c.pos /\ k.found = c.found /\ k.missed = c.missed /\ k.sline = c.sline

\* The key of the same search.
LEMMA AgainGood ==
  ASSUME InSearch(editor, context, memory, typed, used), ISearchAgain
  PROVE  /\ InSearch(editor', context', memory', typed', used')
         /\ Before(editor', context') = Before(editor, context)
<1>1. PICK lines : lines = Lines(editor, context)
  OBVIOUS
<1>2. /\ lines \in Seq(Text) /\ context.start \in 0 .. Len(lines) - 1
      /\ Searching(context, lines, editor.text, editor.point)
      /\ context \in ISearchContexts /\ context.at \in Nat
  BY <1>1, InSearchIs
<1>3. CASE context.string = <<>>
  <2>1. PICK t \in Text : t = memory.isearch
    <3>1. memory \in Memories /\ memory.isearch # NoString
      BY <1>3 DEF InSearch, Editing, Remembered, ISearchAgain
    <3>2. memory.isearch \in Text
      BY <3>1 DEF Memories
    <3> QED
      BY <3>2
  <2>2. PICK k : k = [context EXCEPT !.string = t]
    OBVIOUS
  <2>3. SearchOn(k)
    BY <1>3, <2>1, <2>2 DEF ISearchAgain
  <2>4. Goes(context, k, lines)
    BY <1>2, <1>3, <2>1, <2>2, FirstString
  <2> QED
    BY <1>1, <2>3, <2>4, SearchOnGood
<1>4. CASE context.string # <<>>
  <2>1. PICK a \in Nat, x \in Text : a = context.at /\ x = context.sline
    BY <1>2 DEF ISearchContexts
  <2>2. PICK b \in Int : b = IF context.reverse THEN a - 1 ELSE IF a # Len(x) THEN a + 1 ELSE a
    <3>1. a - 1 \in Int /\ a + 1 \in Int /\ a \in Int
      OBVIOUS
    <3> QED
      BY <3>1
  <2>3. PICK k : k = [context EXCEPT !.plain = FALSE, !.at = b]
    OBVIOUS
  <2>4. SearchOn(k)
    BY <1>2, <1>4, <2>1, <2>2, <2>3 DEF ISearchAgain, ISearchContexts
  <2>5. k \in ISearchContexts /\ ~k.plain /\ k.at = b /\ k.reverse = context.reverse
        /\ k.string = context.string /\ k.pos = context.pos /\ k.found = context.found
        /\ k.missed = context.missed /\ k.sline = x /\ SameStart(context, k)
    BY <1>2, <2>1, <2>2, <2>3 DEF ISearchContexts, SameStart
  <2>6. ~k.reverse \/ k.string = <<>> => k.at \in Nat
    BY <1>4, <2>1, <2>2, <2>5
  <2>7. ~k.missed => k.at <= Len(k.sline)
    <3>1. ~context.missed => a <= Len(x)
      BY <1>2, <2>1 DEF Searching
    <3>2. Len(x) \in Nat
      BY <2>1, TextLen
    <3> QED
      BY <2>1, <2>2, <2>5, <3>1, <3>2
  <2>8. Goes(context, k, lines)
    BY <1>2, <2>1, <2>5, <2>6, <2>7, OtherKeys
  <2> QED
    BY <1>1, <2>4, <2>8, SearchOnGood
<1> QED
  BY <1>3, <1>4

\* The string or the direction is changed.
LEMMA ChangeGood ==
  ASSUME InSearch(editor, context, memory, typed, used), NEW k, Turned(context, k), k.at = context.at,
         SearchOn(k)
  PROVE  /\ InSearch(editor', context', memory', typed', used')
         /\ Before(editor', context') = Before(editor, context)
<1>1. PICK lines : lines = Lines(editor, context)
  OBVIOUS
<1>2. /\ lines \in Seq(Text) /\ Searching(context, lines, editor.text, editor.point)
      /\ context.at \in Nat
  BY <1>1, InSearchIs
<1>3. /\ k \in ISearchContexts /\ ~k.plain /\ SameStart(context, k) /\ k.pos = context.pos
      /\ k.found = context.found /\ k.missed = context.missed /\ k.sline = context.sline
  BY DEF Turned
<1>4. ~k.missed => k.at <= Len(k.sline)
  BY <1>2, <1>3 DEF Searching
<1>5. Goes(context, k, lines)
  BY <1>2, <1>3, <1>4, OtherKeys
<1> QED
  BY <1>1, <1>5, SearchOnGood

\* The key of the search in the other direction.
LEMMA SwitchGood ==
  ASSUME InSearch(editor, context, memory, typed, used), ISearchSwitch
  PROVE  /\ InSearch(editor', context', memory', typed', used')
         /\ Before(editor', context') = Before(editor, context)
<1>1. context \in ISearchContexts
  BY InSearchIs
<1>2. PICK k : k = [context EXCEPT !.reverse = ~@, !.plain = FALSE]
  OBVIOUS
<1>3. Turned(context, k) /\ k.at = context.at
  BY <1>1, <1>2 DEF Turned, SameStart, ISearchContexts
<1>4. SearchOn(k)
  BY <1>2 DEF ISearchSwitch
<1> QED
  BY <1>3, <1>4, ChangeGood

\* Another string.
LEMMA StringGood ==
  ASSUME InSearch(editor, context, memory, typed, used), NEW t \in Text,
         SearchOn([context EXCEPT !.string = t, !.plain = FALSE])
  PROVE  /\ InSearch(editor', context', memory', typed', used')
         /\ Before(editor', context') = Before(editor, context)
<1>1. context \in ISearchContexts
  BY InSearchIs
<1>2. PICK k : k = [context EXCEPT !.string = t, !.plain = FALSE]
  OBVIOUS
<1>3. Turned(context, k) /\ k.at = context.at
  BY <1>1, <1>2 DEF Turned, SameStart, ISearchContexts
<1> QED
  BY <1>2, <1>3, ChangeGood

\* DEL.
LEMMA RuboutGood ==
  ASSUME InSearch(editor, context, memory, typed, used), ISearchRubout
  PROVE  /\ InSearch(editor', context', memory', typed', used')
         /\ Before(editor', context') = Before(editor, context)
<1>1. PICK s \in Text : s = context.string
  BY InSearchIs
<1>2. PICK t \in Text : t = IF s = <<>> THEN s ELSE Front(s)
  <2>1. s # <<>> => Front(s) \in Text
    BY <1>1 DEF Front, Text
  <2> QED
    BY <1>1, <2>1
<1>3. context \in ISearchContexts
  BY InSearchIs
<1>4. SearchOn([context EXCEPT !.string = t, !.plain = FALSE])
  BY <1>1, <1>2, <1>3 DEF ISearchRubout, ISearchContexts
<1> QED
  BY <1>4, StringGood

\* The rest of the line joins the string.
LEMMA YankGood ==
  ASSUME InSearch(editor, context, memory, typed, used), ISearchYank
  PROVE  /\ InSearch(editor', context', memory', typed', used')
         /\ Before(editor', context') = Before(editor, context)
<1>1. context \in ISearchContexts /\ Fine(editor)
  BY InSearchIs
<1>2. PICK s \in Text, x \in Text, p \in Nat : s = context.string /\ x = editor.text /\ p = editor.point
  BY <1>1 DEF ISearchContexts, Fine, Editor, Text
<1>3. Len(s) \in Nat /\ Len(x) \in Nat
  BY <1>2, TextLen
<1>4. PICK y \in Text : y = SubSeq(x, p + Len(s) + 1, Len(x))
  <2>1. SubSeq(x, p + Len(s) + 1, Len(x)) \in Text
    BY <1>2, <1>3, PartOfText
  <2> QED
    BY <2>1
<1>5. PICK t \in Text : t = s \o y
  <2>1. s \o y \in Text
    BY <1>2, <1>4 DEF Text
  <2> QED
    BY <2>1
<1>6. SearchOn([context EXCEPT !.string = t, !.plain = FALSE])
  BY <1>1, <1>2, <1>4, <1>5 DEF ISearchYank, ISearchContexts
<1> QED
  BY <1>6, StringGood

\* C-g gives back the line and the point.
LEMMA AbortGood ==
  ASSUME InSearch(editor, context, memory, typed, used), ~Dangling(editor), ISearchAbort
  PROVE  /\ Editing(editor', memory', typed', used') /\ editor' = Before(editor, context)
         /\ editor'.text = context.before /\ editor'.point = context.point
<1>1. PICK lines : lines = Lines(editor, context)
  OBVIOUS
<1>2. /\ Fine(editor) /\ editor \in Editor /\ lines \in Seq(Text) /\ context.start \in 0 .. Len(lines) - 1
      /\ context.point \in Nat
  BY <1>1, InSearchIs DEF Fine
<1>3. PICK b : b = Before(editor, context)
  OBVIOUS
<1>4. /\ b \in Editor /\ b.text = lines[context.start + 1] /\ b.text \in Text /\ b.point = context.point
      /\ b.undo = editor.undo /\ b.list = editor.list /\ b.offset = editor.offset
      /\ b.saved = editor.saved /\ b.rec = editor.rec /\ Fine(b)
  BY <1>1, <1>2, <1>3, BeforeIs
<1>5. ~Dangling(b)
  BY <1>2, <1>4, SameHeld
<1>6. Editing(b, memory, typed, used) /\ context.before = b.text
  BY <1>3 DEF InSearch
<1>7. b.point <= Len(b.text)
  BY <1>5, <1>6 DEF Editing, PointIn
<1>8. PICK p \in Nat, x \in Text : p = context.point /\ x = b.text
  BY <1>2, <1>4
<1>9. Len(x) \in Nat
  BY <1>8, TextLen
<1>10. editor' = b
  <2>1. PutBack(editor, context) = [editor EXCEPT !.text = x]
    BY <1>1, <1>4, <1>8 DEF PutBack
  <2>2. Clip(p, x) = p
    BY <1>4, <1>7, <1>8, <1>9 DEF Clip
  <2>3. editor' = [[editor EXCEPT !.text = x] EXCEPT !.point = Clip(p, [editor EXCEPT !.text = x].text)]
    BY <1>8, <2>1 DEF ISearchAbort, PointAt, Aborted
  <2>4. [editor EXCEPT !.text = x].text = x
    BY <1>2, <1>8 DEF Editor
  <2>5. editor' = [[editor EXCEPT !.text = x] EXCEPT !.point = p]
    BY <2>2, <2>3, <2>4
  <2>6. b = [editor EXCEPT !.text = x, !.point = p]
    BY <1>1, <1>3, <1>4, <1>8 DEF Before
  <2> QED
    BY <1>2, <2>5, <2>6 DEF Editor
<1>11. memory' = memory /\ typed' = typed /\ used' = used
  BY DEF ISearchAbort
<1> QED
  BY <1>3, <1>4, <1>6, <1>10, <1>11

\* The line found becomes the line in view.
LEMMA EndGood ==
  ASSUME InSearch(editor, context, memory, typed, used), ISearchEnd
  PROVE  Editing(editor', memory', typed', used')
<1>1. PICK lines : lines = Lines(editor, context)
  OBVIOUS
<1>2. /\ Fine(editor) /\ editor \in Editor /\ lines \in Seq(Text) /\ context.start \in 0 .. Len(lines) - 1
      /\ context.point \in Nat /\ context.at \in Nat /\ context.found \in 0 .. Len(lines) - 1
      /\ context.string \in Text
  BY <1>1, InSearchIs DEF Fine
<1>3. PICK b : b = Before(editor, context)
  OBVIOUS
<1>4. /\ b \in Editor /\ b.text = lines[context.start + 1] /\ b.text \in Text
      /\ b.undo = editor.undo /\ b.list = editor.list /\ b.offset = editor.offset
      /\ b.saved = editor.saved /\ b.rec = editor.rec /\ Fine(b)
  BY <1>1, <1>2, <1>3, BeforeIs
<1>5. PICK back : back = PutBack(editor, context)
  OBVIOUS
<1>6. PICK x \in Text : x = b.text
  BY <1>4
<1>7. /\ Fine(back) /\ back.text = x /\ back.list = b.list /\ back.offset = b.offset
      /\ back.saved = b.saved
  <2>1. back = [editor EXCEPT !.text = x]
    BY <1>1, <1>4, <1>5, <1>6 DEF PutBack
  <2>2. /\ back \in Editor /\ back.text = x /\ back.list = editor.list /\ back.offset = editor.offset
        /\ back.saved = editor.saved /\ back.rec = editor.rec
    BY <1>2, <1>6, <2>1 DEF Editor, Text
  <2> QED
    BY <1>2, <1>4, <2>2 DEF Fine
<1>8. Editing(b, memory, typed, used) /\ memory.last.kind = "other"
  BY <1>3 DEF InSearch
<1>9. PICK s \in Nat, f \in Nat : s = context.start /\ f = context.found
  BY <1>2
<1>10. PICK e : e = IF f < s THEN Backward(back, s - f)
                    ELSE IF f > s THEN Forward(back, f - s) ELSE back
  OBVIOUS
<1>11. Fine(e) /\ Len(e.list) = Len(back.list) /\ \A t : TypedHere(back, t) => TypedHere(e, t)
  <2>1. CASE f < s
    <3>1. PICK n \in Nat : n = s - f /\ n # 0
      BY <1>9, <2>1
    <3>2. e = Backward(back, n)
      BY <1>10, <2>1, <3>1
    <3> QED
      BY <1>7, <3>1, <3>2, BackwardFine DEF Moves
  <2>2. CASE f > s
    <3>1. PICK n \in Nat : n = f - s /\ n # 0
      BY <1>9, <2>2
    <3>2. e = Forward(back, n)
      BY <1>9, <1>10, <2>2, <3>1
    <3> QED
      BY <1>7, <3>1, <3>2, ForwardFine DEF Moves
  <2>3. CASE f = s
    BY <1>7, <1>9, <1>10, <2>3
  <2> QED
    BY <1>9, <2>1, <2>2, <2>3
<1>12. PICK d : d = PointAt(e, context.at)
  OBVIOUS
<1>13. Fine(d) /\ PointIn(d) /\ d.text = e.text /\ d.list = e.list /\ d.offset = e.offset /\ d.saved = e.saved
  <2>1. PICK a \in Nat : a = context.at
    BY <1>2
  <2>2. PointedAt(e, d, a) /\ Fine(e)
    BY <1>11, <1>12, <2>1 DEF PointedAt
  <2> QED
    BY ONLY <2>1, <2>2, PointAtIs
<1>14. ~used.line => TypedHere(d, typed)
  <2>1. ~used.line => TypedHere(b, typed)
    BY <1>8 DEF Editing
  <2>2. TypedHere(b, typed) => TypedHere(back, typed)
    BY <1>6, <1>7 DEF TypedHere, OnEntry
  <2>3. TypedHere(e, typed) => TypedHere(d, typed)
    BY <1>13 DEF TypedHere, OnEntry
  <2> QED
    BY <1>11, <2>1, <2>2, <2>3
<1>15. PICK m : m = memory'
  OBVIOUS
<1>16. m = [memory EXCEPT !.isearch = context.string] /\ typed' = typed /\ used' = used
       /\ editor' = Swept(d)
  BY <1>5, <1>9, <1>10, <1>12, <1>15 DEF ISearchEnd
<1>17. Remembered(memory, Len(b.list))
  BY <1>8 DEF Editing
<1>18. Remembered(m, Len(d.list)) /\ m.last.kind = "other"
  <2>1. Len(d.list) = Len(b.list)
    BY <1>7, <1>11, <1>13
  <2> QED
    BY <1>2, <1>8, <1>16, <1>17, <2>1 DEF Remembered, Memories
<1>19. Editing(d, m, typed, used)
  BY <1>8, <1>13, <1>14, <1>18 DEF Editing
<1> QED
  BY <1>15, <1>16, <1>19, EditingSwept

-----------------------------------------------------------------------------
(* The non-incremental search keeps the invariant *)

\* d is e with another point.
PointSet(e, d, p) == d = [e EXCEPT !.point = p]

\* Nothing else is changed.
LEMMA PointSetIs ==
  ASSUME NEW e, Fine(e), NEW p \in Nat, NEW d, PointSet(e, d, p)
  PROVE  /\ Fine(d) /\ d.point = p /\ d.text = e.text /\ d.undo = e.undo /\ d.list = e.list
         /\ d.offset = e.offset /\ d.saved = e.saved /\ d.rec = e.rec
         /\ (Dangling(d) <=> Dangling(e)) /\ Len(d.text) \in Nat
<1>1. /\ d \in Editor /\ d.text = e.text /\ d.undo = e.undo /\ d.list = e.list /\ d.point = p
      /\ d.offset = e.offset /\ d.saved = e.saved /\ d.rec = e.rec
  BY DEF PointSet, Fine, Editor
<1>2. Fine(d)
  BY <1>1 DEF Fine
<1>3. Len(d.text) \in Nat
  BY <1>1 DEF Editor
<1> QED
  BY <1>1, <1>2, <1>3, SameHeld

\* The uses after a search that is not incremental.
LEMMA SearchUsedIs ==
  ASSUME used \in Uses
  PROVE  /\ SearchUsed \in Uses /\ SearchUsed.line /\ SearchUsed.count # 0
         /\ (SearchUsed.onEntry <=> used.onEntry \/ OnEntry(editor))
<1>1. used.onEntry \in BOOLEAN /\ used.count \in Nat
  BY UsesIs
<1>2. PICK b \in BOOLEAN : b = (used.onEntry \/ OnEntry(editor))
  BY <1>1 DEF OnEntry
<1>3. PICK n \in Nat : n = used.count + 1 /\ n # 0
  BY <1>1
<1>4. SearchUsed = [line |-> TRUE, onEntry |-> b, count |-> n]
  BY <1>2, <1>3 DEF SearchUsed
<1> QED
  BY <1>2, <1>3, <1>4 DEF Uses

\* The line left for the string.
Emptied(e) == [MaybeSave(e) EXCEPT !.undo = NULL, !.text = <<>>, !.point = 0]

\* What it is.
LEMMA EmptiedIs ==
  ASSUME NEW e, Fine(e), NEW d, d = Emptied(e)
  PROVE  /\ Besides(e, d) /\ d.text = <<>> /\ d.point = 0 /\ d.undo = NULL /\ PointIn(d)
         /\ d.list = e.list /\ d.rec = e.rec /\ d.saved # <<>>
         /\ e.saved # <<>> => d.saved = e.saved
         /\ e.saved = <<>> => d.saved[1].line = e.text /\ d.saved[1].data = e.undo
<1>1. PICK f : f = MaybeSave(e)
  OBVIOUS
<1>2. /\ Besides(e, f) /\ f.list = e.list /\ f.rec = e.rec /\ f.saved # <<>>
      /\ e.saved # <<>> => f = e
      /\ e.saved = <<>> => f.saved[1].line = e.text /\ f.saved[1].data = e.undo
  BY <1>1, SaveFine
<1>3. Fine(f) /\ f.offset = e.offset
  BY <1>2 DEF Besides
<1>4. NULL \in Pointer /\ <<>> \in Text
  BY Pointers DEF Text
<1>5. d = [f EXCEPT !.undo = NULL, !.text = <<>>, !.point = 0]
  BY <1>1 DEF Emptied
<1>6. /\ d \in Editor /\ d.text = <<>> /\ d.point = 0 /\ d.undo = NULL /\ d.list = f.list
      /\ d.offset = f.offset /\ d.saved = f.saved /\ d.rec = f.rec
  <2>1. PICK x \in Text, q \in Pointer, n \in Nat : x = <<>> /\ q = NULL /\ n = 0
    BY <1>4
  <2>2. d = [f EXCEPT !.undo = q, !.text = x, !.point = n] /\ f \in Editor
    BY <1>3, <1>5, <2>1 DEF Fine
  <2>3. /\ d \in Editor /\ d.text = x /\ d.point = n /\ d.undo = q /\ d.list = f.list
        /\ d.offset = f.offset /\ d.saved = f.saved /\ d.rec = f.rec
    BY <2>1, <2>2 DEF Editor, Text
  <2> QED
    BY <2>1, <2>3
<1>7. Fine(d) /\ PointIn(d)
  BY <1>3, <1>6 DEF Fine, PointIn
<1> QED
  BY <1>2, <1>3, <1>6, <1>7 DEF Besides

\* The string is asked for.
LEMMA NSearchGood ==
  ASSUME Editing(editor, memory, typed, used), ~Dangling(editor), NSearch
  PROVE  InString(editor', context', memory', typed', used')
<1>1. Fine(editor) /\ PointIn(editor) /\ typed \in Text /\ used \in Uses
  BY DEF Editing
<1>2. PICK r \in BOOLEAN : context' = NSearchContext(editor, r)
  BY DEF NSearch
<1>3. PICK d, c, f : d = Emptied(editor) /\ c = context' /\ f = editor'
  OBVIOUS
<1>4. f = Swept(d) /\ memory' = OtherCommand(memory) /\ typed' = typed /\ used' = SearchUsed
  BY <1>3 DEF NSearch, Emptied
<1>5. /\ Besides(editor, d) /\ PointIn(d) /\ d.saved # <<>>
      /\ editor.saved = <<>> => d.saved[1].line = editor.text
  BY <1>1, <1>3, EmptiedIs
<1>6. Fine(d) /\ d.offset = editor.offset /\ Len(d.list) = Len(editor.list)
  BY <1>5 DEF Besides
<1>7. SearchUsed \in Uses /\ SearchUsed.line /\ SearchUsed.count # 0
  BY <1>1, SearchUsedIs
<1>8. Editing(d, memory', typed, SearchUsed) /\ memory'.last.kind = "other"
  BY <1>1, <1>4, <1>5, <1>6, <1>7, EditingAfter
<1>9. Editing(f, memory', typed, SearchUsed)
  BY <1>4, <1>8, EditingSwept
<1>10. f.offset = d.offset /\ f.saved = d.saved
  BY <1>4, <1>6, SweptIs DEF Sweeps
<1>11. PICK x \in Text, p \in Nat, o \in Nat : x = editor.text /\ p = editor.point /\ o = editor.offset
  BY <1>1 DEF Fine, Editor, Text
<1>12. c = [reverse |-> r, start |-> o, point |-> p, before |-> x,
            clean |-> ~used.line /\ ~OnEntry(editor)]
  BY <1>2, <1>3, <1>11 DEF NSearchContext
<1>13. c.clean => f.saved # <<>> /\ f.saved[1].line = c.before
  <2>1. SUFFICES ASSUME ~used.line, ~OnEntry(editor) PROVE f.saved # <<>> /\ f.saved[1].line = x
    BY <1>12
  <2>2. editor.saved = <<>>
    BY <2>1 DEF Editing, TypedHere
  <2> QED
    BY <1>5, <1>10, <1>11, <2>2
<1>14. p <= Len(x)
  BY <1>1, <1>11 DEF PointIn
<1>15. /\ c.reverse \in BOOLEAN /\ c.start = f.offset /\ c.point \in Nat
       /\ c.before \in Text /\ c.point <= Len(c.before)
  BY <1>6, <1>10, <1>11, <1>12, <1>14
<1> QED
  BY <1>3, <1>4, <1>7, <1>8, <1>9, <1>13, <1>15 DEF InString

\* A character of the string is typed.
LEMMA NSearchCharGood ==
  ASSUME InString(editor, context, memory, typed, used), ~Dangling(editor), NSearchChar
  PROVE  InString(editor', context', memory', typed', used')
<1>1. Editing(editor, memory, typed, used) /\ memory.last.kind = "other" /\ used.line
  BY DEF InString
<1>2. Fine(editor) /\ PointIn(editor)
  BY <1>1 DEF Editing
<1>3. PICK c \in Char : editor' = InsertText(editor, <<c>>)
  BY DEF NSearchChar
<1>4. PICK x \in Text, new \in Text : x = editor.text /\ new = <<c>>
  <2>1. <<c>> \in Text /\ editor.text \in Text
    BY <1>2 DEF Text, Fine, Editor
  <2> QED
    BY <2>1
<1>5. PICK k \in Nat, j \in Nat : k = 1 /\ j = 2 /\ OneLess(k, j)
  BY DEF OneLess
<1>6. Works(editor, j)
  <2>1. Room(editor, 2)
    BY DEF NSearchChar
  <2> QED
    BY <1>2, <1>5, <2>1, AliveIs DEF Works, Room, RoomFor
<1>7. PICK d : d = editor'
  OBVIOUS
<1>8. editor.point \in 0 .. Len(x)
  BY <1>2, <1>4, TextLen DEF PointIn, Fine, Editor
<1>9. Works(d, k) /\ SameLines(editor, d) /\ PointIn(d)
  BY <1>2, <1>3, <1>4, <1>5, <1>6, <1>7, <1>8, InsertWorks
<1>10. Fine(d) /\ d.list = editor.list /\ d.offset = editor.offset /\ d.saved = editor.saved
  BY <1>9 DEF Works, SameLines
<1>11. Editing(d, memory, typed, used)
  BY <1>1, <1>9, <1>10 DEF Editing
<1>12. context' = context /\ memory' = memory /\ typed' = typed /\ used' = used
  BY DEF NSearchChar
<1> QED
  BY <1>1, <1>7, <1>10, <1>11, <1>12 DEF InString

\* There is room for two records where there is for six.
LEMMA RuboutRoom ==
  ASSUME NEW e, Room(e, 6)
  PROVE  RoomFor(e, 2)
<1>1. Cardinality(FreeIds(e)) \in Nat
  BY FreeNumber, FS_CardinalityType
<1> QED
  BY <1>1 DEF Room, RoomFor

\* The end of the string, or all of it, is taken back.
LEMMA NSearchRuboutGood ==
  ASSUME InString(editor, context, memory, typed, used), ~Dangling(editor), NSearchRubout
  PROVE  InString(editor', context', memory', typed', used')
<1>1. Editing(editor, memory, typed, used) /\ memory.last.kind = "other" /\ used.line
  BY DEF InString
<1>2. Fine(editor) /\ PointIn(editor)
  BY <1>1 DEF Editing
<1>3. PICK x \in Text : x = editor.text /\ x # <<>>
  BY <1>2 DEF NSearchRubout, Fine, Editor, Text
<1>4. PICK from \in {0, Len(x) - 1} : editor' = DeleteText(editor, from, Len(x))
  BY <1>3 DEF NSearchRubout
<1>5. PICK k \in Nat, j \in Nat : k = 1 /\ j = 2 /\ OneLess(k, j)
  BY DEF OneLess
<1>6. Works(editor, j)
  <2>1. Room(editor, 6)
    BY DEF NSearchRubout
  <2> QED
    BY <1>2, <1>5, <2>1, AliveIs, RuboutRoom DEF Works
<1>7. PICK d, to : d = editor' /\ to = Len(x)
  OBVIOUS
<1>8. PartOf(x, from, to) /\ to \in Nat /\ from \in 0 .. to
  <2>1. Len(x) \in Nat /\ Len(x) # 0
    BY <1>3, TextLen DEF Text
  <2> QED
    BY <1>4, <1>7, <2>1 DEF PartOf
<1>9. d = DeleteText(editor, from, to)
  BY <1>4, <1>7
<1>10. Works(d, k) /\ SameLines(editor, d) /\ d.text = Without(x, from, to) /\ d.point = from
  BY <1>3, <1>5, <1>6, <1>8, <1>9, DeleteWorks
<1>11. PointIn(d)
  <2>1. to \in 0 .. Len(x)
    BY <1>8 DEF PartOf
  <2>2. Len(Without(x, from, to)) = Len(x) - (to - from)
    BY <1>8, <2>1, WithoutText
  <2> QED
    BY <1>7, <1>8, <1>10, <2>2 DEF PointIn
<1>12. Fine(d) /\ d.list = editor.list /\ d.offset = editor.offset /\ d.saved = editor.saved
  BY <1>10 DEF Works, SameLines
<1>13. Editing(d, memory, typed, used)
  BY <1>1, <1>11, <1>12 DEF Editing
<1>14. context' = context /\ memory' = memory /\ typed' = typed /\ used' = used
  BY DEF NSearchRubout
<1> QED
  BY <1>1, <1>7, <1>12, <1>13, <1>14 DEF InString

\* C-g gives back the line that was typed, and the point in it.
LEMMA NSearchAbortGood ==
  ASSUME InString(editor, context, memory, typed, used), NSearchAbort
  PROVE  /\ Editing(editor', memory', typed', used')
         /\ context.clean => editor'.text = context.before /\ editor'.point = context.point
<1>1. /\ Editing(editor, memory, typed, used) /\ memory.last.kind = "other" /\ used.line
      /\ context.point \in Nat
      /\ context.before \in Text /\ context.point <= Len(context.before)
      /\ context.clean => editor.saved # <<>> /\ editor.saved[1].line = context.before
  BY DEF InString
<1>2. Fine(editor)
  BY <1>1 DEF Editing
<1>3. PICK e : e = MaybeUnsave(editor)
  OBVIOUS
<1>4. /\ Besides(editor, e) /\ e.saved = <<>>
      /\ editor.saved # <<>> => e.text = editor.saved[1].line
  BY <1>2, <1>3, UnsaveFine
<1>5. Fine(e) /\ e.offset = editor.offset /\ Len(e.list) = Len(editor.list)
  BY <1>4 DEF Besides
<1>6. PICK p \in Nat : p = context.point
  BY <1>1
<1>7. PICK d : d = PointAt(e, p)
  OBVIOUS
<1>8. /\ Fine(d) /\ PointIn(d) /\ d.text = e.text /\ d.list = e.list
      /\ d.offset = e.offset /\ d.saved = e.saved /\ (p <= Len(e.text) => d.point = p)
  <2>1. Fine(e) /\ p \in Nat
    BY <1>5
  <2> QED
    BY <1>7, <2>1, PointAtIs DEF PointedAt
<1>9. /\ editor' = Swept(d) /\ memory' = memory /\ typed' = typed /\ used' = used
  BY <1>3, <1>6, <1>7 DEF NSearchAbort
<1>10. Editing(d, memory, typed, used)
  BY <1>1, <1>5, <1>8 DEF Editing
<1>11. PICK f : f = editor'
  OBVIOUS
<1>12. f.text = d.text /\ f.point = d.point
  BY <1>8, <1>9, <1>11, SweptIs DEF Sweeps
<1>13. context.clean => d.text = context.before /\ d.point = p
  BY <1>1, <1>4, <1>6, <1>8
<1> QED
  BY <1>6, <1>9, <1>10, <1>11, <1>12, <1>13, EditingSwept

\* What a search finds is in the line, or the point goes to its beginning.
LEMMA FoundAtIs ==
  ASSUME NEW d, Fine(d), NEW index, NEW p, p = FoundAt(d, index)
  PROVE  p \in Nat /\ p <= Len(d.text)
<1>1. PICK n \in Nat : n = Len(d.text)
  BY TextLen DEF Fine, Editor
<1>2. p \in 1 .. n - 1 \/ p = 0
  BY <1>1 DEF FoundAt
<1> QED
  BY <1>1, <1>2

\* A search for a string from an entry.
LEMMA NSearchFromIs ==
  ASSUME NEW e, Fine(e), RoomFor(e, 4), NEW string, NEW pos \in Nat, pos <= Len(e.list),
         NEW reverse \in BOOLEAN, NEW s, s = NSearchFrom(e, string, pos, reverse)
  PROVE  Besides(e, s.ed) /\ PointIn(s.ed) /\ s.pos \in Nat /\ s.pos <= Len(e.list)
<1>1. PICK n \in Nat : n = Len(e.list)
  BY DEF Fine, Editor
<1>2. PICK hits : hits = Hits(e, string, pos + Step(reverse), reverse)
  OBVIOUS
<1>3. Within(hits, 0, n - 1) /\ 0 \in Int /\ n - 1 \in Int
  BY <1>1, <1>2 DEF Within, Hits
<1>4. 0 \in Nat
  OBVIOUS
<1>5. CASE hits = {}
  <2>1. PICK d : d = MaybeUnsave(e)
    OBVIOUS
  <2>2. PICK f : f = [d EXCEPT !.point = 0]
    OBVIOUS
  <2>3. s = [ed |-> f, pos |-> pos]
    BY <1>2, <1>5, <2>1, <2>2 DEF NSearchFrom
  <2>4. Besides(e, d)
    BY <2>1, UnsaveFine
  <2>5. Fine(d) /\ PointSet(d, f, 0)
    BY <2>2, <2>4 DEF Besides, PointSet
  <2>6. Fine(f) /\ f.point = 0 /\ f.list = d.list /\ f.offset = d.offset /\ Len(f.text) \in Nat
    BY ONLY <1>4, <2>5, PointSetIs
  <2> QED
    BY <1>1, <2>3, <2>4, <2>6 DEF Besides, PointIn
<1>6. CASE hits # {}
  <2>1. PICK k : k = Nearest(reverse, hits)
    OBVIOUS
  <2>2. k \in 0 .. n - 1
    BY <1>3, <1>6, <2>1, NearestIs DEF Within
  <2>3. PICK entry \in Entry : entry = e.list[k + 1]
    BY <1>1, <2>2 DEF Fine, Editor
  <2>4. PICK d : d = MakeCurrent(e, entry)
    OBVIOUS
  <2>5. PICK p : p = FoundAt(d, Nearest(reverse, Matches(string, entry.line)))
    OBVIOUS
  <2>6. PICK f : f = [d EXCEPT !.point = p]
    OBVIOUS
  <2>7. s = [ed |-> f, pos |-> k]
    BY <1>2, <1>6, <2>1, <2>3, <2>4, <2>5, <2>6 DEF NSearchFrom
  <2>8. Besides(e, d) /\ Fine(d)
    BY <2>4, MakeCurrentFine DEF Besides
  <2>9. p \in Nat /\ p <= Len(d.text)
    BY <2>5, <2>8, FoundAtIs
  <2>10. PointSet(d, f, p)
    BY <2>6 DEF PointSet
  <2>11. Fine(f) /\ f.point = p /\ f.list = d.list /\ f.offset = d.offset /\ f.text = d.text
    BY ONLY <2>8, <2>9, <2>10, PointSetIs
  <2>12. PointIn(f)
    BY <2>9, <2>11 DEF PointIn
  <2>13. Besides(e, f)
    BY <2>8, <2>11 DEF Besides
  <2> QED
    BY <1>1, <2>2, <2>7, <2>12, <2>13
<1> QED
  BY <1>5, <1>6

\* The string is searched for.
LEMMA ReturnGood ==
  ASSUME InString(editor, context, memory, typed, used), ~Dangling(editor), NSearchReturn
  PROVE  Editing(editor', memory', typed', used')
<1>1. /\ Editing(editor, memory, typed, used) /\ memory.last.kind = "other" /\ used.line
      /\ context.reverse \in BOOLEAN /\ context.start = editor.offset
  BY DEF InString
<1>2. /\ Fine(editor) /\ PointIn(editor) /\ memory \in Memories /\ memory.pos <= Len(editor.list)
      /\ memory.last.pos <= Len(editor.list)
  BY <1>1 DEF Editing, Remembered
<1>3. editor.offset \in Nat /\ editor.offset <= Len(editor.list) /\ editor.text \in Text
  BY <1>2 DEF Fine, Editor, Text
<1>4. RoomFor(editor, 4)
  BY DEF NSearchReturn, Room, RoomFor
<1>5. typed' = typed /\ used' = used
  BY DEF NSearchReturn
<1>6. PICK f, m : f = editor' /\ m = memory'
  OBVIOUS
<1>7. CASE editor.text # <<>>
  <2>1. PICK e : e = FreeUndoList(editor)
    OBVIOUS
  <2>2. PICK s : s = NSearchFrom(e, editor.text, context.start, context.reverse)
    OBVIOUS
  <2>3. f = Swept(s.ed) /\ m = [memory EXCEPT !.nsearch = editor.text, !.pos = s.pos]
    BY <1>6, <1>7, <2>1, <2>2 DEF NSearchReturn
  <2>4. Besides(editor, e) /\ FreeIds(editor) \subseteq FreeIds(e)
    BY <1>2, <2>1, FreeUndoFine DEF Unlisted
  <2>5. Fine(e) /\ Len(e.list) = Len(editor.list) /\ RoomFor(e, 4)
    BY <1>4, <2>4, MoreRoom DEF Besides
  <2>6. Besides(e, s.ed) /\ PointIn(s.ed) /\ s.pos \in Nat /\ s.pos <= Len(e.list)
    BY <1>1, <1>3, <2>2, <2>5, NSearchFromIs
  <2>7. Remembered(m, Len(s.ed.list)) /\ m.last.kind = "other"
    BY <1>1, <1>2, <1>3, <2>3, <2>5, <2>6 DEF Besides, Remembered, Memories
  <2>8. Editing(s.ed, m, typed, used)
    BY <1>1, <2>6, <2>7 DEF Editing, Besides
  <2> QED
    BY <1>5, <1>6, <2>3, <2>8, EditingSwept
<1>8. CASE editor.text = <<>> /\ memory.nsearch # NoString
  <2>1. PICK s : s = NSearchFrom(editor, memory.nsearch, memory.pos, context.reverse)
    OBVIOUS
  <2>2. f = Swept(s.ed) /\ m = [memory EXCEPT !.pos = s.pos]
    BY <1>6, <1>8, <2>1 DEF NSearchReturn
  <2>3. memory.pos \in Nat
    BY <1>2 DEF Memories
  <2>4. Besides(editor, s.ed) /\ PointIn(s.ed) /\ s.pos \in Nat /\ s.pos <= Len(editor.list)
    BY <1>1, <1>2, <1>4, <2>1, <2>3, NSearchFromIs
  <2>5. Remembered(m, Len(s.ed.list)) /\ m.last.kind = "other"
    BY <1>1, <1>2, <2>2, <2>4 DEF Besides, Remembered, Memories
  <2>6. Editing(s.ed, m, typed, used)
    BY <1>1, <2>4, <2>5 DEF Editing, Besides
  <2> QED
    BY <1>5, <1>6, <2>2, <2>6, EditingSwept
<1>9. CASE editor.text = <<>> /\ memory.nsearch = NoString
  BY <1>1, <1>5, <1>9 DEF NSearchReturn
<1> QED
  BY <1>7, <1>8, <1>9

\* The last string is searched for again.
LEMMA NSearchAgainGood ==
  ASSUME Editing(editor, memory, typed, used), ~Dangling(editor), NSearchAgain
  PROVE  Editing(editor', memory', typed', used')
<1>1. /\ Fine(editor) /\ PointIn(editor) /\ typed \in Text /\ used \in Uses /\ memory \in Memories
      /\ memory.pos <= Len(editor.list)
  BY DEF Editing, Remembered
<1>2. RoomFor(editor, 4) /\ memory.pos \in Nat
  BY <1>1 DEF NSearchAgain, Room, RoomFor, Memories
<1>3. PICK r \in BOOLEAN :
        LET s == NSearchFrom(editor, memory.nsearch, memory.pos, r)
        IN  editor' = Swept(s.ed) /\ memory' = [OtherCommand(memory) EXCEPT !.pos = s.pos]
  BY DEF NSearchAgain
<1>4. PICK s : s = NSearchFrom(editor, memory.nsearch, memory.pos, r)
  OBVIOUS
<1>5. PICK k, m : k = OtherCommand(memory) /\ m = [k EXCEPT !.pos = s.pos]
  OBVIOUS
<1>6. editor' = Swept(s.ed) /\ memory' = m /\ typed' = typed /\ used' = SearchUsed
  BY <1>3, <1>4, <1>5 DEF NSearchAgain
<1>7. Besides(editor, s.ed) /\ PointIn(s.ed) /\ s.pos \in Nat /\ s.pos <= Len(editor.list)
  BY <1>1, <1>2, <1>4, NSearchFromIs
<1>8. SearchUsed \in Uses /\ SearchUsed.line /\ SearchUsed.count # 0
  BY <1>1, SearchUsedIs
<1>9. Fine(s.ed) /\ Len(s.ed.list) = Len(editor.list)
  BY <1>7 DEF Besides
<1>10. Editing(s.ed, k, typed, SearchUsed) /\ k.last.kind = "other"
  BY <1>1, <1>5, <1>7, <1>8, <1>9, EditingAfter
<1>11. Remembered(m, Len(s.ed.list)) /\ m.last.kind = "other"
  <2>1. k \in Memories /\ k.last.pos <= Len(s.ed.list)
    BY <1>10 DEF Editing, Remembered
  <2> QED
    BY <1>5, <1>7, <1>9, <1>10, <2>1 DEF Remembered, Memories
<1>12. Editing(s.ed, m, typed, SearchUsed)
  BY <1>10, <1>11 DEF Editing
<1> QED
  BY <1>6, <1>12, EditingSwept

-----------------------------------------------------------------------------
(* The search for the entries with the beginning of the line keeps the invariant *)

\* A search of this kind, among n entries.
Asked(s, n) ==
  /\ s \in [kind : {"other", "prefix", "substring"}, string : Text, pos : Nat,
            prev : Text \cup {NoString}]
  /\ s.kind \in {"prefix", "substring"} /\ s.pos <= n

\* The line has the string.
Begins(e, s) ==
  /\ e.saved = <<>> /\ Len(s.string) <= Len(e.text)
  /\ s.kind = "prefix" => SubSeq(e.text, 1, Len(s.string)) = s.string

\* Where a search of this kind finds the string.
LEMMA FindsIs ==
  ASSUME NEW kind, NEW s \in Text, NEW t \in Text, Finds(kind, s, t) # {}
  PROVE  /\ Len(s) \in Nat /\ Len(t) \in Nat /\ Len(s) <= Len(t)
         /\ kind = "prefix" => SubSeq(t, 1, Len(s)) = s
         /\ Within(Finds(kind, s, t), 0, Len(t))
<1>1. Len(s) \in Nat /\ Len(t) \in Nat
  BY TextLen
<1>2. PICK i \in 0 .. Len(t) : At(s, t, i) /\ (kind = "prefix" => i = 0)
  BY DEF Finds, Matches
<1>3. i + Len(s) <= Len(t) /\ SubSeq(t, i + 1, i + Len(s)) = s
  BY <1>2 DEF At
<1>4. Len(s) <= Len(t)
  BY <1>1, <1>2, <1>3
<1>5. kind = "prefix" => SubSeq(t, 1, Len(s)) = s
  <2>1. SUFFICES ASSUME kind = "prefix" PROVE SubSeq(t, 1, Len(s)) = s
    OBVIOUS
  <2>2. i + 1 = 1 /\ i + Len(s) = Len(s)
    BY <1>1, <1>2, <2>1
  <2> QED
    BY <1>3, <2>2
<1>6. Within(Finds(kind, s, t), 0, Len(t))
  BY DEF Within, Finds, Matches
<1> QED
  BY <1>1, <1>4, <1>5, <1>6

\* What the search leaves, once.
LEMMA HistorySearchFromIs ==
  ASSUME NEW e, Fine(e), RoomFor(e, 4), NEW s, Asked(s, Len(e.list)), Begins(e, s),
         NEW reverse \in BOOLEAN, NEW r, r = HistorySearchFrom(e, s, reverse)
  PROVE  /\ Fine(r.ed) /\ Len(r.ed.list) = Len(e.list) /\ (~Dangling(r.ed) => PointIn(r.ed))
         /\ Asked(r.search, Len(e.list)) /\ Prefixed(r.ed, r.search)
<1>1. PICK n \in Nat : n = Len(e.list)
  BY DEF Fine, Editor
<1>2. /\ s \in [kind : {"other", "prefix", "substring"}, string : Text, pos : Nat,
                prev : Text \cup {NoString}]
      /\ s.kind \in {"prefix", "substring"} /\ s.pos <= n
  BY <1>1 DEF Asked
<1>3. PICK str \in Text, kind \in {"prefix", "substring"}, pos \in Nat :
        str = s.string /\ kind = s.kind /\ pos = s.pos
  BY <1>2
<1>4. /\ e.saved = <<>> /\ Len(str) <= Len(e.text) /\ Len(str) \in Nat
      /\ kind = "prefix" => SubSeq(e.text, 1, Len(str)) = str
  BY <1>3, TextLen DEF Begins
<1>5. PICK hits : hits = {k \in 0 .. n - 1 :
                 /\ IF reverse THEN k < pos ELSE k > pos
                 /\ Finds(kind, str, e.list[k + 1].line) # {}}
  OBVIOUS
<1>6. PICK others : others = {k \in hits : e.list[k + 1].line # s.prev}
  OBVIOUS
<1>7. PICK saved : saved = MaybeSave(e)
  OBVIOUS
<1>8. /\ Besides(e, saved) /\ saved.list = e.list /\ saved.rec = e.rec
      /\ saved.saved # <<>> /\ saved.saved[1].line = e.text
  BY <1>4, <1>7, SaveFine
<1>9. Fine(saved) /\ RoomFor(saved, 4)
  BY <1>8 DEF Besides, RoomFor, FreeIds
<1>10. CASE hits = {}
  <2>1. PICK d : d = MaybeUnsave(saved)
    OBVIOUS
  <2>2. PICK f : f = [d EXCEPT !.point = Len(str)]
    OBVIOUS
  <2>3. r = [ed |-> f, search |-> s]
    BY <1>1, <1>3, <1>5, <1>7, <1>10, <2>1, <2>2 DEF HistorySearchFrom
  <2>4. Besides(saved, d) /\ d.saved = <<>> /\ d.text = e.text
    BY <1>8, <1>9, <2>1, UnsaveFine
  <2>5. Fine(d) /\ PointSet(d, f, Len(str))
    BY <2>2, <2>4 DEF Besides, PointSet
  <2>6. Fine(f) /\ f.point = Len(str) /\ f.list = d.list /\ f.text = d.text /\ f.saved = d.saved
    BY <1>4, <2>5, PointSetIs
  <2>7. PointIn(f) /\ Len(f.list) = n
    BY <1>1, <1>4, <1>8, <2>4, <2>6 DEF PointIn, Besides
  <2>8. Prefixed(f, s)
    BY <1>3, <1>4, <2>4, <2>6 DEF Prefixed
  <2> QED
    BY <1>1, <2>3, <2>6, <2>7, <2>8
<1>11. CASE hits # {}
  <2>1. Within(hits, 0, n - 1) /\ Within(others, 0, n - 1) /\ 0 \in Int /\ n - 1 \in Int
    BY <1>1, <1>5, <1>6 DEF Within
  <2>2. PICK k : k = IF others # {} THEN Nearest(reverse, others) ELSE Nearest(~reverse, hits)
    OBVIOUS
  <2>3. k \in hits
    <3>1. CASE others # {}
      <4>1. k \in others
        BY <2>1, <2>2, <3>1, NearestIs
      <4> QED
        BY <1>6, <4>1
    <3>2. CASE others = {}
      BY <1>11, <2>1, <2>2, <3>2, NearestIs
    <3> QED
      BY <3>1, <3>2
  <2>4. k \in 0 .. n - 1 /\ Finds(kind, str, e.list[k + 1].line) # {}
    BY <1>5, <2>3
  <2>5. PICK entry \in Entry : entry = e.list[k + 1]
    BY <1>1, <2>4 DEF Fine, Editor
  <2>6. PICK line \in Text : line = entry.line
    BY <2>5 DEF Entry, Text
  <2>7. /\ Len(line) \in Nat /\ Len(str) <= Len(line)
        /\ kind = "prefix" => SubSeq(line, 1, Len(str)) = str
        /\ Within(Finds(kind, str, line), 0, Len(line))
    BY <2>4, <2>5, <2>6, FindsIs
  <2>8. PICK p : p = IF kind = "prefix" THEN Len(str)
                     ELSE IF others = {} THEN Len(line)
                     ELSE Nearest(reverse, Finds(kind, str, line))
    OBVIOUS
  <2>9. p \in Nat /\ p <= Len(line) /\ (kind = "prefix" => p = Len(str))
    <3>1. PICK i : i = Nearest(reverse, Finds(kind, str, line))
      OBVIOUS
    <3>2. i \in Finds(kind, str, line)
      BY <2>4, <2>5, <2>6, <2>7, <3>1, NearestIs
    <3>3. i \in 0 .. Len(line)
      BY <2>7, <3>2 DEF Within
    <3> QED
      BY <1>4, <2>7, <2>8, <3>1, <3>3
  <2>10. PICK d : d = MakeCurrent(saved, entry)
    OBVIOUS
  <2>11. PICK f : f = [d EXCEPT !.point = p]
    OBVIOUS
  <2>12. PICK q : q = [s EXCEPT !.pos = k, !.prev = line]
    OBVIOUS
  <2>13. r = [ed |-> f, search |-> q]
    BY ZenonT(40), <1>1, <1>3, <1>5, <1>6, <1>7, <1>11, <2>2, <2>5, <2>6, <2>8, <2>10, <2>11, <2>12
       DEF HistorySearchFrom
  <2>14. Besides(saved, d) /\ (~Dangling(d) => d.text = line /\ d.saved = <<>>)
    BY <1>9, <2>6, <2>10, MakeCurrentFine
  <2>15. Fine(d) /\ PointSet(d, f, p)
    BY <2>11, <2>14 DEF Besides, PointSet
  <2>16. /\ Fine(f) /\ f.point = p /\ f.list = d.list /\ f.text = d.text /\ f.saved = d.saved
         /\ (Dangling(f) <=> Dangling(d))
    BY <2>9, <2>15, PointSetIs
  <2>17. Len(f.list) = n /\ (~Dangling(f) => PointIn(f))
    BY <1>1, <1>8, <2>9, <2>14, <2>16 DEF PointIn, Besides
  <2>18. k \in Nat /\ k <= n
    BY <2>4
  <2>19. Asked(q, n) /\ q.string = str /\ q.kind = kind
    BY <1>2, <1>3, <2>6, <2>12, <2>18 DEF Asked
  <2>20. Prefixed(f, q)
    BY <2>7, <2>9, <2>14, <2>16, <2>19 DEF Prefixed
  <2> QED
    BY <1>1, <2>13, <2>16, <2>17, <2>19, <2>20
<1> QED
  BY <1>10, <1>11

\* The string is the line up to the point.
LEMMA NewSearchIs ==
  ASSUME NEW m, NEW e, Fine(e), PointIn(e), NEW kind \in {"prefix", "substring"},
         NEW s, s = NewSearch(m, e, kind), NEW d, Fine(d), d.saved = <<>>, d.text = e.text
  PROVE  Asked(s, Len(e.list)) /\ Begins(d, s) /\ s.kind = kind
<1>1. PICK t \in Text, p \in Nat, o \in Nat : t = e.text /\ p = e.point /\ o = e.offset
  BY DEF Fine, Editor, Text
<1>2. Len(t) \in Nat /\ p <= Len(t) /\ o <= Len(e.list)
  BY <1>1, TextLen DEF PointIn, Fine
<1>3. PICK x \in Text : x = SubSeq(t, 1, p) /\ Len(x) = p
  <2>1. SubSeq(t, 1, p) \in Text /\ Len(SubSeq(t, 1, p)) = IF 1 <= p THEN p - 1 + 1 ELSE 0
    BY <1>1, <1>2, PartOfText
  <2>2. Len(SubSeq(t, 1, p)) = p
    BY <1>1, <2>1
  <2> QED
    BY <2>1, <2>2
<1>4. s = [kind |-> kind, pos |-> o, prev |-> NoString, string |-> x]
  BY <1>1, <1>3 DEF NewSearch
<1>5. Asked(s, Len(e.list)) /\ s.string = x /\ s.kind = kind
  BY <1>1, <1>2, <1>3, <1>4 DEF Asked
<1> QED
  BY <1>1, <1>2, <1>3, <1>5 DEF Begins

\* The search, or a move where there is no string.
LEMMA HistorySearchGood ==
  ASSUME Editing(editor, memory, typed, used), ~Dangling(editor), HistorySearch
  PROVE  Editing(editor', memory', typed', used')
<1>1. /\ Fine(editor) /\ PointIn(editor) /\ typed \in Text /\ used \in Uses /\ memory \in Memories
      /\ memory.pos <= Len(editor.list) /\ memory.last.pos <= Len(editor.list)
      /\ memory.last.kind # "other" => Prefixed(editor, memory.last)
  BY DEF Editing, Remembered
<1>2. PICK kind \in {"prefix", "substring"}, reverse \in BOOLEAN :
       LET anew == memory.last.kind # kind
           e == IF anew THEN FreeSaved(editor) ELSE editor
           s == IF anew THEN NewSearch(memory, editor, kind) ELSE memory.last
           found == IF s.string # <<>> THEN HistorySearchFrom(e, s, reverse)
                    ELSE [ed |-> IF reverse THEN Backward(e, 1) ELSE Forward(e, 1), search |-> s]
       IN  /\ editor' = Swept(found.ed)
           /\ memory' = [memory EXCEPT !.last = found.search]
  BY DEF HistorySearch
<1>3. PICK e, s : /\ e = IF memory.last.kind # kind THEN FreeSaved(editor) ELSE editor
                  /\ s = IF memory.last.kind # kind THEN NewSearch(memory, editor, kind) ELSE memory.last
  OBVIOUS
<1>4. PICK r : r = IF s.string # <<>> THEN HistorySearchFrom(e, s, reverse)
                   ELSE [ed |-> IF reverse THEN Backward(e, 1) ELSE Forward(e, 1), search |-> s]
  OBVIOUS
<1>5. editor' = Swept(r.ed) /\ memory' = [memory EXCEPT !.last = r.search]
  BY <1>2, <1>3, <1>4
<1>6. typed' = typed /\ used' = SearchUsed
  BY DEF HistorySearch
<1>7. PICK n \in Nat : n = Len(editor.list)
  BY <1>1 DEF Fine, Editor
<1>8. RoomFor(editor, 4)
  BY DEF HistorySearch, Room, RoomFor
<1>9. /\ Fine(e) /\ PointIn(e) /\ Len(e.list) = n /\ RoomFor(e, 4) /\ Asked(s, n)
      /\ s.string # <<>> => Begins(e, s)
  <2>1. CASE memory.last.kind # kind
    <3>1. e = FreeSaved(editor) /\ s = NewSearch(memory, editor, kind)
      BY <1>3, <2>1
    <3>2. /\ Besides(editor, e) /\ e.text = editor.text /\ e.point = editor.point
          /\ e.saved = <<>> /\ FreeIds(editor) \subseteq FreeIds(e)
      BY <1>1, <3>1, FreeSavedFine
    <3>3. Fine(e) /\ PointIn(e) /\ Len(e.list) = n /\ RoomFor(e, 4)
      BY <1>1, <1>7, <1>8, <3>2, MoreRoom DEF Besides, PointIn
    <3> QED
      BY <1>1, <1>7, <3>1, <3>2, <3>3, NewSearchIs
  <2>2. CASE memory.last.kind = kind
    <3>1. e = editor /\ s = memory.last
      BY <1>3, <2>2
    <3>2. Asked(s, n)
      BY <1>1, <1>7, <2>2, <3>1 DEF Memories, Asked
    <3>3. s.string # <<>> => Begins(e, s)
      BY <1>1, <2>2, <3>1 DEF Prefixed, Begins
    <3> QED
      BY <1>1, <1>7, <1>8, <3>1, <3>2, <3>3
  <2> QED
    BY <2>1, <2>2
<1>10. /\ Fine(r.ed) /\ Len(r.ed.list) = n /\ (~Dangling(r.ed) => PointIn(r.ed))
       /\ Asked(r.search, n) /\ Prefixed(r.ed, r.search)
  <2>1. CASE s.string # <<>>
    <3>1. r = HistorySearchFrom(e, s, reverse)
      BY <1>4, <2>1
    <3> QED
      BY <1>9, <2>1, <3>1, HistorySearchFromIs
  <2>2. CASE s.string = <<>>
    <3>1. PICK d : d = IF reverse THEN Backward(e, 1) ELSE Forward(e, 1)
      OBVIOUS
    <3>2. r = [ed |-> d, search |-> s]
      BY <1>4, <2>2, <3>1
    <3>3. 1 \in Nat /\ 1 # 0
      OBVIOUS
    <3>4. Moves(e, d)
      BY <1>9, <3>1, <3>3, BackwardFine, ForwardFine
    <3>5. Fine(d) /\ Len(d.list) = n /\ PointIn(d)
      BY <1>9, <3>4 DEF Moves
    <3> QED
      BY <1>9, <2>2, <3>2, <3>5 DEF Prefixed
  <2> QED
    BY <2>1, <2>2
<1>11. PICK m : m = memory'
  OBVIOUS
<1>12. Remembered(m, n) /\ m.last = r.search
  BY <1>1, <1>5, <1>7, <1>10, <1>11 DEF Remembered, Memories, Asked
<1>13. SearchUsed \in Uses /\ SearchUsed.line /\ SearchUsed.count # 0
  BY <1>1, SearchUsedIs
<1>14. Editing(r.ed, m, typed, SearchUsed)
  BY <1>1, <1>10, <1>12, <1>13 DEF Editing
<1> QED
  BY <1>5, <1>6, <1>11, <1>14, EditingSwept

-----------------------------------------------------------------------------
(* Every step keeps the invariant *)

\* The first line begins as it must.
LEMMA InitGood ==
  ASSUME Init
  PROVE  Good(editor, mode, context, memory, typed, used)
<1>1. PICK history \in Histories : editor = Opened(history)
  BY DEF Init
<1>2. history \in Seq(Text)
  <2>1. history \in Seq(Seq(Char) \ {<<>>})
    BY <1>1, HistorySearchAssumption
  <2> QED
    BY <2>1 DEF Text
<1>3. PICK v : v = Append(history, <<>>)
  OBVIOUS
<1>4. Kept(editor, Based(<<>>, history), v, FALSE) /\ Len(history) = Len(editor.list)
  BY <1>1, <1>2, <1>3, OpenedKept
<1>5. /\ editor.text = <<>> /\ editor.point = 0 /\ editor.offset = Len(history)
      /\ editor.saved = <<>>
  BY <1>1 DEF Opened
<1>6. Fine(editor) /\ PointIn(editor)
  BY <1>4, <1>5 DEF Kept, Holds, InOrder, Fine
<1>7. PICK n \in Nat : n = Len(editor.list)
  BY <1>6 DEF Fine, Editor
<1>8. <<>> \in Text
  BY DEF Text
<1>9. /\ NoSearch.pos = 0 /\ NoSearch.kind = "other"
      /\ NoSearch \in [kind : {"other", "prefix", "substring"}, string : Text, pos : Nat,
                       prev : Text \cup {NoString}]
  BY <1>8 DEF NoSearch
<1>10. memory = [isearch |-> NoString, nsearch |-> NoString, pos |-> 0, last |-> NoSearch]
  BY DEF Init
<1>11. memory \in Memories /\ memory.pos = 0 /\ memory.last = NoSearch
  BY <1>9, <1>10 DEF Memories
<1>12. Remembered(memory, n) /\ memory.last.kind = "other"
  BY <1>7, <1>9, <1>11 DEF Remembered
<1>13. used \in Uses /\ ~used.line
  BY DEF Init, Uses
<1>14. typed = <<>> /\ mode = "edit"
  BY DEF Init
<1>15. TypedHere(editor, typed)
  BY <1>4, <1>5, <1>7, <1>14 DEF TypedHere, OnEntry
<1>16. Editing(editor, memory, typed, used)
  BY <1>6, <1>7, <1>8, <1>12, <1>13, <1>14, <1>15 DEF Editing
<1> QED
  BY <1>14, <1>16 DEF Good

\* In each mode the invariant is what it says of the mode.
LEMMA GoodIs ==
  ASSUME NEW e, NEW md, NEW c, NEW m, NEW t, NEW u, Good(e, md, c, m, t, u)
  PROVE  /\ md = "edit" => Editing(e, m, t, u)
         /\ md = "isearch" => InSearch(e, c, m, t, u)
         /\ md = "nsearch" => InString(e, c, m, t, u)
         /\ md = "accepted" => Ended(e, m)
         /\ md \in {"edit", "isearch", "nsearch", "accepted"}
  BY DEF Good

\* Every step keeps the invariant.
LEMMA NextGood ==
  ASSUME Good(editor, mode, context, memory, typed, used), [Next]_vars
  PROVE  Good(editor', mode', context', memory', typed', used')
<1>1. CASE UNCHANGED vars
  BY <1>1 DEF vars
<1>2. CASE Next
  <2>1. ~Dangling(editor)
    BY <1>2 DEF Next
  <2>2. CASE ISearch
    <3>1. mode = "edit" /\ mode' = "isearch"
      BY <2>2 DEF ISearch
    <3>2. InSearch(editor', context', memory', typed', used')
      BY <2>1, <2>2, <3>1, GoodIs, ISearchGood
    <3> QED
      BY <3>1, <3>2 DEF Good
  <2>3. CASE ISearchChar
    <3>1. mode = "isearch" /\ mode' = mode
      BY <2>3 DEF ISearchChar, SearchOn
    <3>2. InSearch(editor', context', memory', typed', used')
      BY <2>3, <3>1, GoodIs, CharGood
    <3> QED
      BY <3>1, <3>2 DEF Good
  <2>4. CASE ISearchAgain
    <3>1. mode = "isearch" /\ mode' = mode
      BY <2>4 DEF ISearchAgain, SearchOn
    <3>2. InSearch(editor', context', memory', typed', used')
      BY <2>4, <3>1, GoodIs, AgainGood
    <3> QED
      BY <3>1, <3>2 DEF Good
  <2>5. CASE ISearchSwitch
    <3>1. mode = "isearch" /\ mode' = mode
      BY <2>5 DEF ISearchSwitch, SearchOn
    <3>2. InSearch(editor', context', memory', typed', used')
      BY <2>5, <3>1, GoodIs, SwitchGood
    <3> QED
      BY <3>1, <3>2 DEF Good
  <2>6. CASE ISearchRubout
    <3>1. mode = "isearch" /\ mode' = mode
      BY <2>6 DEF ISearchRubout, SearchOn
    <3>2. InSearch(editor', context', memory', typed', used')
      BY <2>6, <3>1, GoodIs, RuboutGood
    <3> QED
      BY <3>1, <3>2 DEF Good
  <2>7. CASE ISearchYank
    <3>1. mode = "isearch" /\ mode' = mode
      BY <2>7 DEF ISearchYank, SearchOn
    <3>2. InSearch(editor', context', memory', typed', used')
      BY <2>7, <3>1, GoodIs, YankGood
    <3> QED
      BY <3>1, <3>2 DEF Good
  <2>8. CASE ISearchAbort
    <3>1. mode = "isearch" /\ mode' = "edit"
      BY <2>8 DEF ISearchAbort
    <3>2. Editing(editor', memory', typed', used')
      BY <2>1, <2>8, <3>1, GoodIs, AbortGood
    <3> QED
      BY <3>1, <3>2 DEF Good
  <2>9. CASE ISearchEnd
    <3>1. mode = "isearch" /\ mode' = "edit"
      BY <2>9 DEF ISearchEnd
    <3>2. Editing(editor', memory', typed', used')
      BY <2>9, <3>1, GoodIs, EndGood
    <3> QED
      BY <3>1, <3>2 DEF Good
  <2>10. CASE NSearch
    <3>1. mode = "edit" /\ mode' = "nsearch"
      BY <2>10 DEF NSearch
    <3>2. InString(editor', context', memory', typed', used')
      BY <2>1, <2>10, <3>1, GoodIs, NSearchGood
    <3> QED
      BY <3>1, <3>2 DEF Good
  <2>11. CASE NSearchChar
    <3>1. mode = "nsearch" /\ mode' = mode
      BY <2>11 DEF NSearchChar
    <3>2. InString(editor', context', memory', typed', used')
      BY <2>1, <2>11, <3>1, GoodIs, NSearchCharGood
    <3> QED
      BY <3>1, <3>2 DEF Good
  <2>20. CASE NSearchRubout
    <3>1. mode = "nsearch" /\ mode' = mode
      BY <2>20 DEF NSearchRubout
    <3>2. InString(editor', context', memory', typed', used')
      BY <2>1, <2>20, <3>1, GoodIs, NSearchRuboutGood
    <3> QED
      BY <3>1, <3>2 DEF Good
  <2>12. CASE NSearchAbort
    <3>1. mode = "nsearch" /\ mode' = "edit"
      BY <2>12 DEF NSearchAbort
    <3>2. Editing(editor', memory', typed', used')
      BY <2>12, <3>1, GoodIs, NSearchAbortGood
    <3> QED
      BY <3>1, <3>2 DEF Good
  <2>13. CASE NSearchReturn
    <3>1. mode = "nsearch" /\ mode' = "edit"
      BY <2>13 DEF NSearchReturn
    <3>2. Editing(editor', memory', typed', used')
      BY <2>1, <2>13, <3>1, GoodIs, ReturnGood
    <3> QED
      BY <3>1, <3>2 DEF Good
  <2>14. CASE NSearchAgain
    <3>1. mode = "edit" /\ mode' = mode
      BY <2>14 DEF NSearchAgain
    <3>2. Editing(editor', memory', typed', used')
      BY <2>1, <2>14, <3>1, GoodIs, NSearchAgainGood
    <3> QED
      BY <3>1, <3>2 DEF Good
  <2>15. CASE HistorySearch
    <3>1. mode = "edit" /\ mode' = mode
      BY <2>15 DEF HistorySearch
    <3>2. Editing(editor', memory', typed', used')
      BY <2>1, <2>15, <3>1, GoodIs, HistorySearchGood
    <3> QED
      BY <3>1, <3>2 DEF Good
  <2>16. CASE Type
    <3>1. mode = "edit" /\ mode' = mode
      BY <2>16 DEF Type
    <3>2. Editing(editor', memory', typed', used')
      BY <2>1, <2>16, <3>1, GoodIs, TypeGood
    <3> QED
      BY <3>1, <3>2 DEF Good
  <2>17. CASE Move
    <3>1. mode = "edit" /\ mode' = mode /\ typed' = typed /\ used' = used
      BY <2>17 DEF Move
    <3>2. Editing(editor, memory, typed, used)
      BY <3>1, GoodIs
    <3>3. Editing(editor', memory', typed, used)
      BY <2>17, <3>2, MoveGood
    <3>4. Editing(editor', memory', typed', used')
      BY <3>1, <3>3
    <3> QED
      BY <3>1, <3>4 DEF Good
  <2>18. CASE MoveInHistory
    <3>1. mode = "edit" /\ mode' = mode /\ typed' = typed /\ used' = used
      BY <2>18 DEF MoveInHistory
    <3>2. Editing(editor, memory, typed, used)
      BY <3>1, GoodIs
    <3>3. Editing(editor', memory', typed, used)
      BY <2>1, <2>18, <3>2, MoveInHistoryGood
    <3>4. Editing(editor', memory', typed', used')
      BY <3>1, <3>3
    <3> QED
      BY <3>1, <3>4 DEF Good
  <2>19. CASE Accept
    <3>1. mode = "edit" /\ mode' = "accepted"
      BY <2>19 DEF Accept
    <3>2. Ended(editor', memory')
      BY <2>19, <3>1, GoodIs, AcceptGood
    <3> QED
      BY <3>1, <3>2 DEF Good
  <2> QED
    BY <1>2, <2>2, <2>3, <2>4, <2>5, <2>6, <2>7, <2>8, <2>9, <2>10, <2>11, <2>12, <2>13, <2>14,
       <2>15, <2>16, <2>17, <2>18, <2>19, <2>20 DEF Next
<1> QED
  BY <1>1, <1>2

\* C-g gives back the line and the point.
LEMMA AbortGivesBack ==
  ASSUME Good(editor, mode, context, memory, typed, used), [Next]_vars
  PROVE  [(ISearchAbort \/ NSearchAbort) /\ context.clean
            => editor'.text = context.before /\ editor'.point = context.point]_vars
<1>1. CASE UNCHANGED vars
  BY <1>1
<1>2. CASE Next
  <2>1. ~Dangling(editor)
    BY <1>2 DEF Next
  <2>2. ASSUME ISearchAbort
        PROVE  editor'.text = context.before /\ editor'.point = context.point
    <3>1. mode = "isearch"
      BY <2>2 DEF ISearchAbort
    <3> QED
      BY <2>1, <2>2, <3>1, GoodIs, AbortGood
  <2>3. ASSUME NSearchAbort, context.clean
        PROVE  editor'.text = context.before /\ editor'.point = context.point
    <3>1. mode = "nsearch"
      BY <2>3 DEF NSearchAbort
    <3> QED
      BY <2>3, <3>1, GoodIs, NSearchAbortGood
  <2> QED
    BY <2>2, <2>3
<1> QED
  BY <1>1, <1>2

\* C-g gives back the line and the point: in an incremental search anywhere, in
\* a non-incremental one on the line being typed, if there was no search before
\* that was not incremental.
THEOREM AbortRestoresHolds == Spec => AbortRestores
<1>1. Init => Good(editor, mode, context, memory, typed, used)
  BY InitGood
<1>2. Good(editor, mode, context, memory, typed, used) /\ [Next]_vars
        => Good(editor, mode, context, memory, typed, used)'
  BY NextGood
<1>3. Good(editor, mode, context, memory, typed, used) /\ [Next]_vars
        => [(ISearchAbort \/ NSearchAbort) /\ context.clean
              => editor'.text = context.before /\ editor'.point = context.point]_vars
  BY AbortGivesBack
<1> QED
  BY <1>1, <1>2, <1>3, PTL DEF Spec, AbortRestores

-----------------------------------------------------------------------------
(* What the invariant says of the searches *)

\* What is known between two commands.
LEMMA EditingIs ==
  ASSUME NEW e, NEW m, NEW t, NEW u, Editing(e, m, t, u)
  PROVE  /\ Fine(e) /\ Remembered(m, Len(e.list)) /\ (~Dangling(e) => PointIn(e))
         /\ (m.last.kind # "other" => Prefixed(e, m.last)) /\ (~u.line => TypedHere(e, t))
  BY DEF Editing

\* A library with these parts is as it must be.
LEMMA TypesAre ==
  ASSUME NEW e, e \in Editor, e.offset <= Len(e.list), NEW m, Remembered(m, Len(e.list))
  PROVE  /\ e.text \in Seq(Char) /\ (PointIn(e) => e.point \in 0 .. Len(e.text))
         /\ e.undo \in Pointer /\ e.list \in Seq(Entry) /\ e.offset \in 0 .. Len(e.list)
         /\ m.last.pos \in 0 .. Len(e.list) /\ m.pos \in 0 .. Len(e.list)
<1>1. /\ e.text \in Seq(Char) /\ e.point \in Nat /\ e.undo \in Pointer /\ e.list \in Seq(Entry)
      /\ e.offset \in Nat
  BY DEF Editor
<1>2. PICK n \in Nat : n = Len(e.list)
  BY <1>1
<1>3. PICK x \in Text : x = e.text
  BY <1>1 DEF Text
<1>4. Len(x) \in Nat
  BY TextLen
<1>5. PointIn(e) => e.point \in 0 .. Len(e.text)
  BY <1>1, <1>3, <1>4 DEF PointIn
<1>6. m.pos \in Nat /\ m.last.pos \in Nat /\ m.pos <= n /\ m.last.pos <= n
  BY <1>2 DEF Remembered, Memories
<1> QED
  BY <1>1, <1>2, <1>5, <1>6

\* What an incremental search keeps has its type.
LEMMA TypeHolds ==
  ASSUME Good(editor, mode, context, memory, typed, used)
  PROVE  TypeOK
<1>1. mode \in {"edit", "isearch", "nsearch", "accepted"}
  BY GoodIs
<1>2. CASE mode = "isearch"
  <2>1. InSearch(editor, context, memory, typed, used)
    BY <1>2, GoodIs
  <2>2. PICK lines : lines = Lines(editor, context)
    OBVIOUS
  <2>3. /\ Fine(editor) /\ Len(lines) = Len(editor.list) + 1 /\ context.found \in 0 .. Len(lines) - 1
        /\ context.at \in Nat /\ Searching(context, lines, editor.text, editor.point)
    BY <2>1, <2>2, InSearchIs
  <2>4. PICK n \in Nat : n = Len(editor.list)
    BY <2>3 DEF Fine, Editor
  <2>5. context.found \in 0 .. n /\ context.at >= 0
    BY <2>3, <2>4
  <2>6. context.pos = context.found
    BY <2>3 DEF Searching
  <2>7. Editing(Before(editor, context), memory, typed, used)
    BY <2>1 DEF InSearch
  <2>8. Remembered(memory, Len(Before(editor, context).list))
    BY <2>7, EditingIs
  <2>9. Before(editor, context).list = editor.list
    BY <2>3 DEF Before, Fine, Editor
  <2>10. Remembered(memory, Len(editor.list))
    BY <2>8, <2>9
  <2>11. editor \in Editor /\ editor.offset <= Len(editor.list)
    BY <2>3 DEF Fine
  <2> QED
    BY <1>1, <1>2, <2>4, <2>5, <2>6, <2>10, <2>11, TypesAre DEF TypeOK
<1>3. CASE mode \in {"edit", "nsearch"}
  <2>1. Editing(editor, memory, typed, used)
    BY <1>3, GoodIs DEF InString
  <2>2. Fine(editor) /\ Remembered(memory, Len(editor.list)) /\ (~Dangling(editor) => PointIn(editor))
    BY <2>1, EditingIs
  <2>3. editor \in Editor /\ editor.offset <= Len(editor.list)
    BY <2>2 DEF Fine
  <2>4. mode # "isearch"
    BY <1>3
  <2> QED
    BY <1>1, <2>2, <2>3, <2>4, TypesAre DEF TypeOK
<1>4. CASE mode = "accepted"
  <2>1. /\ editor \in Editor /\ editor.offset = Len(editor.list) /\ PointIn(editor)
        /\ Remembered(memory, Len(editor.list))
    BY <1>4, GoodIs DEF Ended
  <2>2. PICK n \in Nat : n = Len(editor.list)
    BY <2>1 DEF Editor
  <2>3. editor.offset <= Len(editor.list)
    BY <2>1, <2>2
  <2>4. mode # "isearch"
    BY <1>4
  <2> QED
    BY <1>1, <2>1, <2>3, <2>4, TypesAre DEF TypeOK
<1> QED
  BY <1>1, <1>2, <1>3, <1>4

\* The line displayed is the line found, with the string at the point.
LEMMA FoundHolds ==
  ASSUME Good(editor, mode, context, memory, typed, used)
  PROVE  FoundMatches
<1>1. SUFFICES ASSUME mode = "isearch", context.success, ~context.missed
               PROVE  editor.text = Lines(editor, context)[context.found + 1] /\ Displayed
  BY DEF FoundMatches
<1>2. Searching(context, Lines(editor, context), editor.text, editor.point)
  BY <1>1, GoodIs DEF InSearch
<1> QED
  BY <1>1, <1>2, SearchingMatches DEF Displayed

\* Typing a string finds the nearest place of it.
LEMMA NearestHolds ==
  ASSUME Good(editor, mode, context, memory, typed, used)
  PROVE  NearestFound
<1>1. PICK lines, places : lines = Lines(editor, context) /\ places = Places(context, lines)
  OBVIOUS
<1>2. SUFFICES ASSUME mode = "isearch", context.plain, context.string # <<>>, IsInjective(lines)
               PROVE  IF places = {} THEN context.failed
                      ELSE \E p \in places :
                             /\ \A q \in places : Comes(context.reverse, p[1], p[2], q[1], q[2])
                             /\ context.success /\ context.found + 1 = p[1] /\ editor.point = p[2]
  BY <1>1 DEF NearestFound, Comes, Farther, Ahead
<1>3. InSearch(editor, context, memory, typed, used)
  BY <1>2, GoodIs
<1>4. lines \in Seq(Text) /\ Searching(context, lines, editor.text, editor.point)
  BY <1>1, <1>3, InSearchIs
<1> QED
  BY <1>1, <1>2, <1>4, SearchingNearest

\* After a search for the beginning of the line, it is that of the line.
LEMMA PrefixHolds ==
  ASSUME Good(editor, mode, context, memory, typed, used)
  PROVE  PrefixKept
<1>1. SUFFICES ASSUME memory.last.kind = "prefix", memory.last.string # <<>>, ~Dangling(editor)
               PROVE  /\ SubSeq(editor.text, 1, Len(memory.last.string)) = memory.last.string
                      /\ editor.point = Len(memory.last.string)
  BY DEF PrefixKept
<1>2. memory.last.kind # "other"
  BY <1>1
<1>3. Editing(editor, memory, typed, used)
  BY <1>2 DEF Good, InSearch, InString, Ended
<1>4. Prefixed(editor, memory.last)
  BY <1>2, <1>3, EditingIs
<1> QED
  BY <1>1, <1>4 DEF Prefixed

\* The line that was typed is still there.
LEMMA TypedHolds ==
  ASSUME Good(editor, mode, context, memory, typed, used)
  PROVE  TypedKept
<1>1. SUFFICES ASSUME mode = "edit", ~used.line
               PROVE  IF OnEntry(editor) THEN editor.saved # <<>> /\ editor.saved[1].line = typed
                                         ELSE editor.text = typed
  BY DEF TypedKept
<1>2. TypedHere(editor, typed)
  BY <1>1, GoodIs, EditingIs
<1> QED
  BY <1>2 DEF TypedHere

-----------------------------------------------------------------------------
(* The entries during searches that begin on the line being typed *)

\* The records of the line in view, of the saved line and of an entry.
LineRecs(e) == Of(e.rec, e.undo)
SavedRecs(e) == IF e.saved = <<>> THEN {} ELSE Of(e.rec, e.saved[1].data)
EntryRecs(e, k) == Of(e.rec, e.list[k].data)

\* The lists of the entries are apart from each other, nothing of them was freed,
\* and they give back the entries as they were added, o.
Spread(e, o) ==
  /\ Fine(e) /\ Len(o) = Len(e.list)
  /\ \A k, m \in 1 .. Len(e.list) : k # m => EntryRecs(e, k) \cap EntryRecs(e, m) = {}
  /\ \A k \in 1 .. Len(e.list) : EntryRecs(e, k) \subseteq InUse(e.rec)
  /\ \A k \in 1 .. Len(e.list) : Takes(e.rec, e.list[k].data, e.list[k].line, o[k])

\* Records that are apart from the entries, of which nothing was freed.
Clear(e, S) ==
  S \subseteq InUse(e.rec) /\ \A k \in 1 .. Len(e.list) : EntryRecs(e, k) \cap S = {}

\* The entry in view gives back what it was added as, and the line does too.
InEntry(e, o) ==
  /\ e.saved # <<>> /\ LineRecs(e) \subseteq InUse(e.rec)
  /\ \A k \in 1 .. Len(e.list) : IF k = Place(e) THEN EntryRecs(e, k) \subseteq LineRecs(e)
                                 ELSE EntryRecs(e, k) \cap LineRecs(e) = {}
  /\ LineTakes(e, e.text, o[Place(e)]) /\ Meets(e, e.text)

\* All lists are apart, and the entries are not lost.
Loose(e, o) ==
  /\ Spread(e, o) /\ Clear(e, SavedRecs(e)) /\ SavedRecs(e) \cap LineRecs(e) = {}
  /\ IF OnEntry(e) THEN InEntry(e, o) ELSE Clear(e, LineRecs(e))

\* Every line is left in its place.
Placed(e, o) == Spread(e, o) /\ e.saved # <<>> /\ Clear(e, SavedRecs(e))

\* The lists of the lines.
LEMMA ListsParts ==
  ASSUME NEW e, Fine(e), NEW n \in Nat, n = Len(e.list)
  PROVE  /\ Lists(e)[0] = SavedRecs(e)
         /\ \A k \in 1 .. n : k \in 0 .. n /\ Lists(e)[k] = EntryRecs(e, k)
         /\ \A k \in 0 .. n : k = 0 \/ k \in 1 .. n
         /\ 0 \in 0 .. n
<1>1. e \in Editor /\ Sound(e.rec)
  BY DEF Fine
<1>2. /\ Heads(e)[0] = IF e.saved = <<>> THEN NULL ELSE e.saved[1].data
      /\ \A k \in 1 .. n : Heads(e)[k] = e.list[k].data
      /\ \A k \in 0 .. n : Lists(e)[k] = Of(e.rec, Heads(e)[k])
  BY <1>1, HeadsAre
<1>3. Lists(e)[0] = SavedRecs(e)
  <2>1. 0 \in 0 .. n
    OBVIOUS
  <2>2. Lists(e)[0] = Of(e.rec, Heads(e)[0])
    BY <1>2, <2>1
  <2>3. Of(e.rec, NULL) = {}
    BY <1>1, OfFacts
  <2>4. CASE e.saved = <<>>
    BY <1>2, <2>2, <2>3, <2>4 DEF SavedRecs
  <2>5. CASE e.saved # <<>>
    BY <1>2, <2>2, <2>5 DEF SavedRecs
  <2> QED
    BY <2>4, <2>5
<1>4. \A k \in 1 .. n : k \in 0 .. n /\ Lists(e)[k] = EntryRecs(e, k)
  <2>1. \A k \in 1 .. n : k \in 0 .. n
    OBVIOUS
  <2> QED
    BY <1>2, <2>1 DEF EntryRecs
<1> QED
  BY <1>3, <1>4

\* What is held by the lists.
LEMMA HeldParts ==
  ASSUME NEW e, Fine(e)
  PROVE  \A i : i \in Held(e) <=> \/ i \in LineRecs(e) \/ i \in SavedRecs(e)
                                   \/ \E k \in 1 .. Len(e.list) : i \in EntryRecs(e, k)
<1>1. PICK n \in Nat : n = Len(e.list)
  BY Parts DEF Fine
<1>2. \A i : i \in Held(e) <=> i \in Of(e.rec, e.undo) \/ \E k \in 0 .. n : i \in Lists(e)[k]
  BY <1>1, HeldIs
<1> QED
  BY <1>1, <1>2, ListsParts DEF LineRecs

\* Nothing dangles where the lists hold nothing that was freed.
LEMMA LooseHeld ==
  ASSUME NEW e, NEW o, Loose(e, o)
  PROVE  Fine(e) /\ ~Dangling(e) /\ Held(e) \subseteq InUse(e.rec)
<1>1. Fine(e)
  BY DEF Loose, Spread
<1>2. /\ LineRecs(e) \subseteq InUse(e.rec) /\ SavedRecs(e) \subseteq InUse(e.rec)
      /\ \A k \in 1 .. Len(e.list) : EntryRecs(e, k) \subseteq InUse(e.rec)
  BY DEF Loose, Spread, Clear, InEntry
<1>3. Held(e) \subseteq InUse(e.rec)
  BY <1>1, <1>2, HeldParts
<1> QED
  BY <1>1, <1>3 DEF Dangling, InUse

\* What is known of the entries.
LEMMA SpreadIs ==
  ASSUME NEW e, NEW o, Spread(e, o)
  PROVE  /\ Fine(e) /\ e \in Editor /\ Sound(e.rec) /\ Len(e.list) \in Nat /\ e.undo \in Pointer
         /\ \A k \in 1 .. Len(e.list) : e.list[k].data \in Pointer /\ e.list[k].line \in Text
         /\ e.saved # <<>> => e.saved[1].data \in Pointer /\ e.saved[1].line \in Text
  BY Parts DEF Spread, Fine

\* Lists whose records stay are apart as before.
LEMMA SpreadStays ==
  ASSUME NEW e, NEW o, Spread(e, o), NEW d, Fine(d), d.list = e.list,
         \A k \in 1 .. Len(e.list) : \A i \in EntryRecs(e, k) : d.rec[i] = e.rec[i]
  PROVE  /\ Spread(d, o) /\ \A k \in 1 .. Len(e.list) : EntryRecs(d, k) = EntryRecs(e, k)
<1>1. PICK n \in Nat : n = Len(e.list)
  BY SpreadIs
<1>2. /\ Sound(e.rec) /\ Sound(d.rec) /\ \A k \in 1 .. n : e.list[k].data \in Pointer
  BY <1>1, SpreadIs DEF Fine
<1>3. ASSUME NEW k \in 1 .. n
      PROVE  /\ EntryRecs(d, k) = EntryRecs(e, k) /\ EntryRecs(d, k) \subseteq InUse(d.rec)
             /\ Takes(d.rec, d.list[k].data, d.list[k].line, o[k])
  <2>1. PICK p \in Pointer : p = e.list[k].data
    BY <1>2, <1>3
  <2>2. \A i \in Of(e.rec, p) : d.rec[i] = e.rec[i]
    BY <1>1, <1>3, <2>1 DEF EntryRecs
  <2>3. Of(d.rec, p) = Of(e.rec, p)
    BY <1>2, <2>2, SameOf
  <2>4. Takes(e.rec, p, e.list[k].line, o[k]) /\ Of(e.rec, p) \subseteq InUse(e.rec)
    BY <1>1, <1>3, <2>1 DEF Spread, EntryRecs
  <2>5. Takes(d.rec, p, e.list[k].line, o[k])
    BY <1>2, <2>2, <2>4, SameTakes
  <2>6. Of(d.rec, p) \subseteq InUse(d.rec)
    BY <2>2, <2>3, <2>4 DEF InUse
  <2> QED
    BY <2>1, <2>3, <2>5, <2>6 DEF EntryRecs
<1> QED
  BY <1>1, <1>3 DEF Spread

\* Records that stay are clear of the entries as before.
LEMMA ClearStays ==
  ASSUME NEW e, NEW o, Spread(e, o), NEW d, d.list = e.list,
         \A k \in 1 .. Len(e.list) : EntryRecs(d, k) = EntryRecs(e, k),
         NEW S, Clear(e, S), \A i \in S : d.rec[i] = e.rec[i]
  PROVE  Clear(d, S)
  BY DEF Clear, InUse

\* Forgetting what no list holds keeps the entries, and nothing else is in use then.
Whole(e, o) == Loose(e, o) /\ InUse(e.rec) \subseteq Held(e)

\* Where the lists, the texts and the records of lists are the same, the entries
\* are kept as before.
LEMMA LooseStays ==
  ASSUME NEW e, NEW o, Loose(e, o), NEW d, Fine(d), d.text = e.text, d.undo = e.undo,
         d.list = e.list, d.offset = e.offset, d.saved = e.saved,
         \A i \in Held(e) : d.rec[i] = e.rec[i]
  PROVE  Loose(d, o)
<1>1. /\ Fine(e) /\ Spread(e, o) /\ Sound(e.rec) /\ Sound(d.rec) /\ e.undo \in Pointer
      /\ e.saved # <<>> => e.saved[1].data \in Pointer
  BY SpreadIs DEF Loose, Fine
<1>2. /\ \A i \in LineRecs(e) : d.rec[i] = e.rec[i]
      /\ \A i \in SavedRecs(e) : d.rec[i] = e.rec[i]
      /\ \A k \in 1 .. Len(e.list) : \A i \in EntryRecs(e, k) : d.rec[i] = e.rec[i]
  BY <1>1, HeldParts
<1>3. Spread(d, o) /\ \A k \in 1 .. Len(e.list) : EntryRecs(d, k) = EntryRecs(e, k)
  BY <1>1, <1>2, SpreadStays
<1>4. LineRecs(d) = LineRecs(e)
  BY <1>1, <1>2, SameOf DEF LineRecs
<1>5. SavedRecs(d) = SavedRecs(e)
  <2>1. CASE e.saved = <<>>
    BY <2>1 DEF SavedRecs
  <2>2. CASE e.saved # <<>>
    <3>1. PICK p \in Pointer : p = e.saved[1].data
      BY <1>1, <2>2
    <3>2. \A i \in Of(e.rec, p) : d.rec[i] = e.rec[i]
      BY <1>2, <2>2, <3>1 DEF SavedRecs
    <3>3. Of(d.rec, p) = Of(e.rec, p)
      BY <1>1, <3>2, SameOf
    <3> QED
      BY <2>2, <3>1, <3>3 DEF SavedRecs
  <2> QED
    BY <2>1, <2>2
<1>6. Clear(d, SavedRecs(d))
  BY <1>1, <1>2, <1>3, <1>5, ClearStays DEF Loose
<1>7. (OnEntry(d) <=> OnEntry(e)) /\ Place(d) = Place(e)
  BY DEF OnEntry, Place
<1>8. CASE OnEntry(e)
  <2>1. InEntry(e, o)
    BY <1>8 DEF Loose
  <2>2. LineRecs(d) \subseteq InUse(d.rec)
    BY <1>2, <1>4, <2>1 DEF InEntry, InUse
  <2>3. LineTakes(d, d.text, o[Place(d)])
    BY <1>1, <1>2, <1>7, <2>1, SameTakes DEF InEntry, LineTakes, LineRecs
  <2>4. Meets(d, d.text)
    BY <1>1, <1>2, <1>7, <2>1, SameReaches DEF InEntry, Meets, LineRecs
  <2>5. InEntry(d, o)
    BY <1>3, <1>4, <1>7, <2>1, <2>2, <2>3, <2>4 DEF InEntry
  <2> QED
    BY <1>3, <1>4, <1>5, <1>6, <1>7, <1>8, <2>5 DEF Loose
<1>9. CASE ~OnEntry(e)
  <2>1. Clear(d, LineRecs(d))
    BY <1>1, <1>2, <1>3, <1>4, <1>9, ClearStays DEF Loose
  <2> QED
    BY <1>3, <1>4, <1>5, <1>6, <1>7, <1>9, <2>1 DEF Loose
<1> QED
  BY <1>8, <1>9

\* What is held by no list is forgotten.
LEMMA SweptWhole ==
  ASSUME NEW e, NEW o, Loose(e, o), NEW d, d = Swept(e)
  PROVE  Whole(d, o)
<1>1. Fine(e) /\ ~Dangling(e)
  BY LooseHeld
<1>2. Sweeps(e, d) /\ InUse(d.rec) = InUse(e.rec) \cap Held(e) /\ Held(d) = Held(e)
  BY <1>1, SweptIs
<1>3. Held(e) \subseteq Id
  BY <1>1, HeldIs
<1>4. \A i \in Held(e) : d.rec[i] = e.rec[i]
  BY <1>2, <1>3 DEF Sweeps, Freed
<1>5. Loose(d, o)
  BY <1>2, <1>4, LooseStays DEF Sweeps
<1> QED
  BY <1>2, <1>5 DEF Whole

\* Another point changes nothing.
LEMMA PointLoose ==
  ASSUME NEW e, NEW o, Loose(e, o), NEW p \in Nat, NEW d, PointSet(e, d, p)
  PROVE  Loose(d, o) /\ (Whole(e, o) => Whole(d, o))
<1>1. Fine(e)
  BY LooseHeld
<1>2. /\ Fine(d) /\ d.text = e.text /\ d.undo = e.undo /\ d.list = e.list /\ d.offset = e.offset
      /\ d.saved = e.saved /\ d.rec = e.rec
  BY <1>1, PointSetIs
<1>3. Loose(d, o)
  BY <1>2, LooseStays
<1>4. Held(d) = Held(e)
  BY <1>1, <1>2, SameHeld
<1> QED
  BY <1>2, <1>3, <1>4 DEF Whole

\* An entry comes into view.
LEMMA GoToLoose ==
  ASSUME NEW e, NEW o, Placed(e, o), NEW j \in Nat, j < Len(e.list), NEW d, d = GoTo(e, j)
  PROVE  Loose(d, o)
<1>1. Spread(e, o) /\ Fine(e)
  BY DEF Placed, Spread
<1>2. PICK n \in Nat : n = Len(e.list)
  BY <1>1, SpreadIs
<1>3. PICK k \in 1 .. n : k = j + 1
  BY <1>2
<1>4. /\ Fine(d) /\ d.list = e.list /\ d.rec = e.rec /\ d.saved = e.saved /\ d.offset = j
      /\ d.text = e.list[k].line /\ d.undo = e.list[k].data
  BY <1>1, <1>3, GoToFine
<1>5. Spread(d, o) /\ \A m \in 1 .. n : EntryRecs(d, m) = EntryRecs(e, m)
  BY <1>1, <1>2, <1>4, SpreadStays
<1>6. SavedRecs(d) = SavedRecs(e) /\ LineRecs(d) = EntryRecs(e, k)
  BY <1>4 DEF SavedRecs, LineRecs, EntryRecs
<1>7. Clear(d, SavedRecs(d))
  BY <1>1, <1>2, <1>4, <1>5, <1>6, ClearStays DEF Placed
<1>8. OnEntry(d) /\ Place(d) = k
  BY <1>2, <1>3, <1>4 DEF OnEntry, Place
<1>9. SavedRecs(d) \cap LineRecs(d) = {}
  BY <1>2, <1>6 DEF Placed, Clear
<1>10. LineTakes(d, d.text, o[k])
  BY <1>1, <1>2, <1>4 DEF Spread, LineTakes
<1>11. Meets(d, d.text)
  BY <1>4, <1>8, ReachesItself DEF Meets
<1>12. LineRecs(d) \subseteq InUse(d.rec)
  BY <1>1, <1>2, <1>4, <1>6 DEF Spread
<1>13. InEntry(d, o)
  BY <1>2, <1>4, <1>5, <1>6, <1>8, <1>10, <1>11, <1>12 DEF InEntry, Spread, Placed
<1> QED
  BY <1>5, <1>7, <1>8, <1>9, <1>13 DEF Loose

\* The lists of entries and of a line past them, which may also be the saved one.
Closed(e, o) ==
  /\ Spread(e, o) /\ ~OnEntry(e) /\ Clear(e, LineRecs(e)) /\ Clear(e, SavedRecs(e))
  /\ e.saved # <<>> => e.saved[1].data = e.undo \/ SavedRecs(e) \cap LineRecs(e) = {}

\* The saved line comes back.
LEMMA UnsaveClosed ==
  ASSUME NEW e, NEW o, Spread(e, o), ~OnEntry(e), Clear(e, SavedRecs(e)),
         e.saved = <<>> => Clear(e, LineRecs(e)), NEW d, d = MaybeUnsave(e)
  PROVE  Loose(d, o) /\ ~OnEntry(d) /\ d.saved = <<>>
<1>1. Fine(e)
  BY DEF Spread
<1>2. /\ Besides(e, d) /\ d.list = e.list /\ d.rec = e.rec /\ d.saved = <<>>
      /\ e.saved = <<>> => d = e
      /\ e.saved # <<>> => d.undo = e.saved[1].data
  BY <1>1, UnsaveFine
<1>3. PICK n \in Nat : n = Len(e.list)
  BY SpreadIs
<1>4. Spread(d, o) /\ \A m \in 1 .. n : EntryRecs(d, m) = EntryRecs(e, m)
  BY <1>2, <1>3, SpreadStays DEF Besides
<1>5. LineRecs(d) = IF e.saved = <<>> THEN LineRecs(e) ELSE SavedRecs(e)
  BY <1>2 DEF LineRecs, SavedRecs
<1>6. Clear(d, LineRecs(d))
  BY <1>2, <1>3, <1>4, <1>5, ClearStays
<1>7. ~OnEntry(d)
  BY <1>2 DEF OnEntry, Besides
<1>8. SavedRecs(d) = {}
  BY <1>2 DEF SavedRecs
<1> QED
  BY <1>2, <1>4, <1>6, <1>7, <1>8 DEF Loose, Clear

\* The line in view is left in its entry.
LEMMA ReplacedLoose ==
  ASSUME NEW e, NEW o, Loose(e, o), OnEntry(e), NEW d, d = MaybeReplace(e)
  PROVE  Placed(d, o) /\ Loose(d, o)
<1>1. Spread(e, o) /\ Fine(e) /\ InEntry(e, o) /\ Clear(e, SavedRecs(e))
      /\ SavedRecs(e) \cap LineRecs(e) = {}
  BY DEF Loose, Spread
<1>2. CASE Current(e).data = e.undo
  <2>1. d = e
    BY <1>2 DEF MaybeReplace
  <2> QED
    BY <1>1, <2>1 DEF Placed, InEntry
<1>3. CASE Current(e).data # e.undo
  <2>1. PICK n \in Nat : n = Len(e.list)
    BY <1>1, SpreadIs
  <2>2. e \in Editor /\ e.offset <= Len(e.list) /\ e.list \in Seq(Entry) /\ e.offset \in Nat
    BY <1>1, Parts DEF Fine
  <2>3. PICK p \in 1 .. n : p = Place(e)
    BY <2>1, <2>2, PlaceIs
  <2>4. d = [e EXCEPT !.list[p] = [line |-> e.text, data |-> e.undo]]
    BY <1>3, <2>3 DEF MaybeReplace, Place
  <2>5. /\ Fine(d) /\ d.offset = e.offset /\ Len(d.list) = n /\ d.text = e.text /\ d.undo = e.undo
        /\ d.saved = e.saved /\ d.rec = e.rec
        /\ \A k \in 1 .. n : k # p => d.list[k] = e.list[k]
    BY <1>1, <2>1, <2>3, ReplaceFine DEF Besides
  <2>6. d.list[p].line = e.text /\ d.list[p].data = e.undo
    BY <2>1, <2>2, <2>3, <2>4
  <2>7. EntryRecs(d, p) = LineRecs(e) /\ LineRecs(d) = LineRecs(e) /\ SavedRecs(d) = SavedRecs(e)
    BY <2>5, <2>6 DEF EntryRecs, LineRecs, SavedRecs
  <2>8. \A k \in 1 .. n : k # p => EntryRecs(d, k) = EntryRecs(e, k)
    BY <2>5 DEF EntryRecs
  <2>9. LineRecs(e) \subseteq InUse(e.rec)
        /\ \A k \in 1 .. n : k # p => EntryRecs(e, k) \cap LineRecs(e) = {}
    BY <1>1, <2>1, <2>3 DEF InEntry
  <2>10. Takes(d.rec, d.list[p].data, d.list[p].line, o[p])
    BY <1>1, <2>3, <2>5, <2>6 DEF InEntry, LineTakes
  <2>11. \A k, m \in 1 .. n : k # m => EntryRecs(d, k) \cap EntryRecs(d, m) = {}
    <3>1. \A k, m \in 1 .. n : k # m => EntryRecs(e, k) \cap EntryRecs(e, m) = {}
      BY <1>1, <2>1 DEF Spread
    <3> QED
      BY <2>7, <2>8, <2>9, <3>1
  <2>12. \A k \in 1 .. n : EntryRecs(d, k) \subseteq InUse(d.rec)
    BY <1>1, <2>1, <2>5, <2>7, <2>8, <2>9 DEF Spread
  <2>13. \A k \in 1 .. n : Takes(d.rec, d.list[k].data, d.list[k].line, o[k])
    BY <1>1, <2>1, <2>5, <2>10 DEF Spread
  <2>14. Spread(d, o)
    BY <1>1, <2>1, <2>5, <2>11, <2>12, <2>13 DEF Spread
  <2>15. Clear(d, SavedRecs(d))
    BY <1>1, <2>1, <2>5, <2>7, <2>8 DEF Clear
  <2>16. OnEntry(d) /\ Place(d) = p
    BY <2>1, <2>3, <2>5 DEF OnEntry, Place
  <2>17. Meets(d, d.text)
    BY <2>5, <2>6, <2>16, ReachesItself DEF Meets
  <2>18. InEntry(d, o)
    BY <1>1, <2>5, <2>3, <2>7, <2>8, <2>9, <2>16, <2>17 DEF InEntry, LineTakes
  <2> QED
    BY <1>1, <2>5, <2>7, <2>14, <2>15, <2>16, <2>18 DEF Placed, Loose, InEntry
<1> QED
  BY <1>2, <1>3

\* The line past the entries is saved, if none is.
LEMMA SavedClosed ==
  ASSUME NEW e, NEW o, Loose(e, o), ~OnEntry(e), NEW d, d = MaybeSave(e)
  PROVE  /\ Placed(d, o) /\ Closed(d, o) /\ MaybeReplace(d) = d
         /\ e.saved # <<>> => SavedRecs(d) \cap LineRecs(d) = {}
<1>1. Spread(e, o) /\ Fine(e) /\ Clear(e, LineRecs(e)) /\ Clear(e, SavedRecs(e))
      /\ SavedRecs(e) \cap LineRecs(e) = {}
  BY DEF Loose, Spread
<1>2. /\ Besides(e, d) /\ d.text = e.text /\ d.undo = e.undo
      /\ d.list = e.list /\ d.rec = e.rec /\ d.saved # <<>>
      /\ e.saved # <<>> => d = e
      /\ e.saved = <<>> => d.saved[1].data = e.undo
  BY <1>1, SaveFine
<1>3. ~OnEntry(d)
  BY <1>2 DEF OnEntry, Besides
<1>4. Spread(d, o) /\ \A k \in 1 .. Len(e.list) : EntryRecs(d, k) = EntryRecs(e, k)
  BY <1>1, <1>2, SpreadStays DEF Besides
<1>5. LineRecs(d) = LineRecs(e)
      /\ SavedRecs(d) = IF e.saved = <<>> THEN LineRecs(e) ELSE SavedRecs(e)
  BY <1>2 DEF LineRecs, SavedRecs
<1>6. Clear(d, LineRecs(d)) /\ Clear(d, SavedRecs(d))
  <2>1. Clear(d, LineRecs(e)) /\ Clear(d, SavedRecs(e))
    BY <1>1, <1>2, <1>4, ClearStays
  <2> QED
    BY <1>5, <2>1
<1>7. d.saved[1].data = d.undo \/ SavedRecs(d) \cap LineRecs(d) = {}
  BY <1>1, <1>2, <1>5
<1>8. MaybeReplace(d) = d
  BY <1>3 DEF MaybeReplace
<1>9. e.saved # <<>> => SavedRecs(d) \cap LineRecs(d) = {}
  BY <1>1, <1>2
<1> QED
  BY <1>2, <1>3, <1>4, <1>6, <1>7, <1>8, <1>9 DEF Placed, Closed

\* Moving to an earlier line keeps the entries.
LEMMA BackwardLoose ==
  ASSUME NEW e, NEW o, Loose(e, o), NEW count \in Nat, count # 0, NEW d, d = Backward(e, count)
  PROVE  Loose(d, o)
<1>1. Fine(e) /\ e \in Editor /\ Len(e.list) \in Nat /\ e.offset \in Nat /\ e.offset <= Len(e.list)
      /\ e.list \in Seq(Entry)
  BY Parts DEF Loose, Spread, Fine
<1>2. PICK l : l = MaybeReplace(MaybeSave(e))
  OBVIOUS
<1>3. Placed(l, o) /\ (OnEntry(e) => Loose(l, o) /\ e.saved # <<>>)
      /\ l.offset = e.offset /\ Len(l.list) = Len(e.list)
  <2>1. CASE OnEntry(e)
    <3>1. e.saved # <<>>
      BY <2>1 DEF Loose, InEntry
    <3>2. l = MaybeReplace(e)
      BY <1>2, <3>1 DEF MaybeSave
    <3>3. Placed(l, o) /\ Loose(l, o)
      BY <2>1, <3>2, ReplacedLoose
    <3> QED
      BY <1>1, <3>1, <3>2, <3>3, ReplaceFine DEF Besides
  <2>2. CASE ~OnEntry(e)
    <3>1. PICK s : s = MaybeSave(e)
      OBVIOUS
    <3>2. Placed(s, o) /\ l = s
      BY <1>2, <2>2, <3>1, SavedClosed
    <3> QED
      BY <1>1, <2>2, <3>1, <3>2, SaveFine DEF Besides
  <2> QED
    BY <2>1, <2>2
<1>4. CASE e.list = <<>>
  <2>1. d = e
    BY <1>4 DEF Backward
  <2> QED
    BY <2>1
<1>5. CASE e.list # <<>> /\ e.offset = 0
  <2>1. OnEntry(e)
    BY <1>1, <1>5 DEF OnEntry
  <2>2. e.saved # <<>>
    BY <1>3, <2>1
  <2>3. d = l
    BY <1>2, <1>5, <2>2 DEF Backward
  <2> QED
    BY <1>3, <2>1, <2>3
<1>6. CASE e.list # <<>> /\ e.offset # 0
  <2>1. PICK j \in Nat : j = IF count > e.offset THEN 0 ELSE e.offset - count
    BY <1>1
  <2>2. j < Len(l.list)
    BY <1>1, <1>3, <1>6, <2>1
  <2>3. d = GoTo(l, j)
    BY <1>2, <1>6, <2>1 DEF Backward
  <2> QED
    BY <1>3, <2>2, <2>3, GoToLoose
<1> QED
  BY <1>4, <1>5, <1>6

\* Moving to a later line keeps them.
LEMMA ForwardLoose ==
  ASSUME NEW e, NEW o, Loose(e, o), NEW count \in Nat, count # 0, NEW d, d = Forward(e, count)
  PROVE  Loose(d, o)
<1>1. Fine(e) /\ e \in Editor /\ Len(e.list) \in Nat /\ e.offset \in Nat /\ e.offset <= Len(e.list)
  BY Parts DEF Loose, Spread, Fine
<1>2. PICK l : l = MaybeReplace(e)
  OBVIOUS
<1>3. Fine(l) /\ Len(l.list) = Len(e.list) /\ l.offset = e.offset /\ l.saved = e.saved
  BY <1>1, <1>2, ReplaceFine DEF Besides
<1>4. CASE e.offset + count < Len(e.list)
  <2>1. PICK j \in Nat : j = e.offset + count
    BY <1>1
  <2>2. d = GoTo(l, j) /\ j < Len(l.list)
    BY <1>2, <1>3, <1>4, <2>1 DEF Forward
  <2>3. OnEntry(e)
    BY <1>1, <1>4 DEF OnEntry
  <2>4. Placed(l, o)
    BY <1>2, <2>3, ReplacedLoose
  <2> QED
    BY <2>2, <2>4, GoToLoose
<1>5. CASE ~(e.offset + count < Len(e.list))
  <2>1. PICK n \in Nat : n = Len(e.list)
    BY <1>1
  <2>2. PICK c : c = [l EXCEPT !.offset = n]
    OBVIOUS
  <2>3. /\ c.text = l.text /\ c.saved = l.saved /\ c.list = l.list
        /\ c.offset = n /\ c.rec = l.rec /\ c.undo = l.undo /\ c \in Editor
    BY <1>3, <2>2 DEF Fine, Editor
  <2>4. Fine(c) /\ ~OnEntry(c)
    BY <1>3, <2>1, <2>3 DEF Fine, OnEntry
  <2>5. d = MaybeUnsave(c)
    BY <1>2, <1>5, <2>1, <2>2 DEF Forward
  <2>6. Spread(l, o) /\ Clear(l, SavedRecs(l)) /\ (l.saved = <<>> => Clear(l, LineRecs(l)))
    <3>1. CASE OnEntry(e)
      <4>1. Placed(l, o)
        BY <1>2, <3>1, ReplacedLoose
      <4> QED
        BY <4>1 DEF Placed
    <3>2. CASE ~OnEntry(e)
      <4>1. l = e
        BY <1>2, <3>2 DEF MaybeReplace
      <4> QED
        BY <3>2, <4>1 DEF Loose
    <3> QED
      BY <3>1, <3>2
  <2>7. Spread(c, o) /\ \A k \in 1 .. Len(l.list) : EntryRecs(c, k) = EntryRecs(l, k)
    BY <2>3, <2>4, <2>6, SpreadStays
  <2>8. SavedRecs(c) = SavedRecs(l) /\ LineRecs(c) = LineRecs(l)
    BY <2>3 DEF SavedRecs, LineRecs
  <2>9. Clear(c, SavedRecs(l)) /\ (l.saved = <<>> => Clear(c, LineRecs(l)))
    BY <2>3, <2>6, <2>7, ClearStays
  <2> QED
    BY <2>3, <2>4, <2>5, <2>7, <2>8, <2>9, UnsaveClosed
<1> QED
  BY <1>4, <1>5

\* What was in use in other lists than that of the line stays: so do the entries, and
\* the saved line if there still is one.
LEMMA SparedLoose ==
  ASSUME NEW e, NEW o, Spread(e, o), Clear(e, LineRecs(e)),
         Clear(e, SavedRecs(e)), SavedRecs(e) \cap LineRecs(e) = {},
         NEW d, Fine(d), d.list = e.list, ~OnEntry(d), Spares(e, d), Alive(d),
         d.saved = <<>> \/ d.saved = e.saved
  PROVE  Loose(d, o)
<1>1. /\ Sound(e.rec) /\ Sound(d.rec) /\ d.undo \in Pointer
      /\ e.saved # <<>> => e.saved[1].data \in Pointer
  BY SpreadIs, Parts DEF Fine
<1>2. PICK n \in Nat : n = Len(e.list)
  BY SpreadIs
<1>3. \A k \in 1 .. n : \A i \in EntryRecs(e, k) : d.rec[i] = e.rec[i] /\ i \notin LineRecs(d)
  BY <1>2 DEF Spread, Clear, Spares, LineRecs
<1>4. Spread(d, o) /\ \A k \in 1 .. n : EntryRecs(d, k) = EntryRecs(e, k)
  BY <1>2, <1>3, SpreadStays
<1>5. LineRecs(d) \subseteq InUse(d.rec)
  <2>1. LineRecs(d) \subseteq Id
    BY <1>1, OfFacts DEF LineRecs
  <2> QED
    BY <2>1 DEF Alive, LineRecs, InUse
<1>6. Clear(d, LineRecs(d))
  BY <1>2, <1>3, <1>4, <1>5 DEF Clear
<1>7. Clear(d, SavedRecs(d)) /\ SavedRecs(d) \cap LineRecs(d) = {}
  <2>1. CASE d.saved = <<>>
    BY <2>1 DEF SavedRecs, Clear
  <2>2. CASE d.saved # <<>>
    <3>1. d.saved = e.saved /\ e.saved # <<>>
      BY <2>2
    <3>2. PICK p \in Pointer : p = e.saved[1].data
      BY <1>1, <3>1
    <3>3. SavedRecs(e) = Of(e.rec, p) /\ SavedRecs(d) = Of(d.rec, p)
      BY <3>1, <3>2 DEF SavedRecs
    <3>4. \A i \in SavedRecs(e) : d.rec[i] = e.rec[i] /\ i \notin LineRecs(d)
      BY DEF Clear, Spares, LineRecs
    <3>5. SavedRecs(d) = SavedRecs(e)
      BY <1>1, <3>3, <3>4, SameOf
    <3>6. Clear(d, SavedRecs(e))
      BY <1>2, <1>4, <3>4, ClearStays
    <3> QED
      BY <3>4, <3>5, <3>6
  <2> QED
    BY <2>1, <2>2
<1> QED
  BY <1>4, <1>6, <1>7 DEF Loose

\* The list of the line is freed, where no other is part of it.
LEMMA FreeUndoLoose ==
  ASSUME NEW e, NEW o, Spread(e, o), Clear(e, LineRecs(e)),
         Clear(e, SavedRecs(e)), SavedRecs(e) \cap LineRecs(e) = {},
         NEW d, d = FreeUndoList(e)
  PROVE  /\ Spread(d, o) /\ Clear(d, SavedRecs(d)) /\ LineRecs(d) = {}
         /\ d.undo = NULL /\ d.saved = e.saved /\ d.list = e.list
         /\ d.offset = e.offset /\ d.text = e.text
<1>1. /\ Fine(e) /\ e \in Editor /\ Sound(e.rec) /\ e.undo \in Pointer
      /\ \A k \in 1 .. Len(e.list) : e.list[k].data \in Pointer
      /\ e.saved # <<>> => e.saved[1].data \in Pointer
      /\ e.list \in Seq(Entry)
  BY SpreadIs, Parts
<1>2. PICK n \in Nat : n = Len(e.list)
  BY SpreadIs
<1>3. PICK c : c = FreeChain(e, e.undo)
  OBVIOUS
<1>4. /\ Fine(c) /\ c.text = e.text /\ c.undo = e.undo /\ c.list = e.list /\ c.offset = e.offset
      /\ c.saved = e.saved /\ Freed(e.rec, LineRecs(e), c.rec) /\ c \in Editor
  BY <1>1, <1>3, FreeChainFine DEF LineRecs, Fine
<1>5. PICK m : m = [c EXCEPT !.undo = NULL]
  OBVIOUS
<1>6. /\ m \in Editor /\ m.text = e.text /\ m.undo = NULL /\ m.list = e.list /\ m.offset = e.offset
      /\ m.saved = e.saved /\ m.rec = c.rec
  BY <1>4, <1>5, Pointers DEF Editor
<1>7. d = [m EXCEPT !.list = [k \in DOMAIN m.list |->
             IF m.list[k].data = e.undo THEN [m.list[k] EXCEPT !.data = NULL] ELSE m.list[k]]]
  BY <1>3, <1>5 DEF FreeUndoList, ReplaceData
<1>8. \A k \in 1 .. n :
        (IF m.list[k].data = e.undo THEN [m.list[k] EXCEPT !.data = NULL] ELSE m.list[k]) = e.list[k]
  <2> SUFFICES ASSUME NEW k \in 1 .. n, e.list[k].data = e.undo
               PROVE  [e.list[k] EXCEPT !.data = NULL] = e.list[k]
    BY <1>6
  <2>1. e.list[k] \in Entry
    BY <1>1, <1>2
  <2>2. EntryRecs(e, k) \cap LineRecs(e) = {} /\ EntryRecs(e, k) = LineRecs(e)
    BY <1>2 DEF Clear, EntryRecs, LineRecs
  <2>3. e.undo = NULL
    <3>1. CASE e.undo \in Id
      <4>1. e.undo \in LineRecs(e)
        BY <1>1, <3>1, OfFacts DEF LineRecs
      <4> QED
        BY <2>2, <4>1
    <3> QED
      BY <1>1, <3>1, Pointers
  <2> QED
    BY <2>1, <2>3 DEF Entry
<1>9. d.list = e.list
  <2>1. DOMAIN m.list = 1 .. n
    BY <1>1, <1>2, <1>6
  <2>2. d.list = [k \in 1 .. n |-> e.list[k]]
    BY <1>6, <1>7, <1>8, <2>1 DEF Editor
  <2>3. e.list = [k \in 1 .. n |-> e.list[k]]
    BY <1>1, <1>2
  <2> QED
    BY <2>2, <2>3
<1>10. d.text = e.text /\ d.undo = NULL /\ d.offset = e.offset /\ d.saved = e.saved /\ d.rec = c.rec
  BY <1>6, <1>7 DEF Editor
<1>11. Fine(d)
  BY <1>1, FreeUndoFine DEF Unlisted, Besides
<1>12. Sound(c.rec) /\ \A i \in Id : i \notin LineRecs(e) => c.rec[i] = e.rec[i]
  BY <1>4 DEF Fine, Freed
<1>13. /\ \A k \in 1 .. n : \A i \in EntryRecs(e, k) : d.rec[i] = e.rec[i]
       /\ \A i \in SavedRecs(e) : d.rec[i] = e.rec[i]
  BY <1>2, <1>10, <1>12 DEF Spread, Clear, InUse
<1>14. Spread(d, o) /\ \A k \in 1 .. n : EntryRecs(d, k) = EntryRecs(e, k)
  BY <1>2, <1>9, <1>11, <1>13, SpreadStays
<1>15. SavedRecs(d) = SavedRecs(e)
  <2>1. CASE e.saved = <<>>
    BY <1>10, <2>1 DEF SavedRecs
  <2>2. CASE e.saved # <<>>
    <3>1. PICK p \in Pointer : p = e.saved[1].data
      BY <1>1, <2>2
    <3>2. SavedRecs(e) = Of(e.rec, p) /\ SavedRecs(d) = Of(d.rec, p)
      BY <1>10, <2>2, <3>1 DEF SavedRecs
    <3> QED
      BY <1>1, <1>10, <1>12, <1>13, <3>2, SameOf
  <2> QED
    BY <2>1, <2>2
<1>16. Clear(d, SavedRecs(d))
  <2>1. Clear(d, SavedRecs(e))
    BY <1>2, <1>9, <1>13, <1>14, ClearStays
  <2> QED
    BY <1>15, <2>1
<1>17. LineRecs(d) = {}
  BY <1>10, <1>11, OfFacts DEF LineRecs, Fine
<1> QED
  BY <1>9, <1>10, <1>14, <1>16, <1>17

\* The saved line is dropped, with its list.
LEMMA FreeSavedLoose ==
  ASSUME NEW e, NEW o, Loose(e, o), ~OnEntry(e), NEW d, d = FreeSaved(e)
  PROVE  Loose(d, o) /\ ~OnEntry(d) /\ d.saved = <<>> /\ d.text = e.text /\ d.list = e.list
         /\ d.undo = e.undo
<1>1. /\ Fine(e) /\ e \in Editor /\ Sound(e.rec) /\ e.undo \in Pointer /\ Spread(e, o)
      /\ e.saved # <<>> => e.saved[1].data \in Pointer
      /\ Clear(e, LineRecs(e)) /\ Clear(e, SavedRecs(e)) /\ SavedRecs(e) \cap LineRecs(e) = {}
  BY SpreadIs DEF Loose
<1>2. /\ Besides(e, d) /\ d.text = e.text /\ d.list = e.list /\ d.saved = <<>>
      /\ e.saved = <<>> => d = e
  BY <1>1, FreeSavedFine
<1>3. ~OnEntry(d)
  BY <1>2 DEF OnEntry, Besides
<1>4. CASE e.saved = <<>>
  BY <1>2, <1>3, <1>4
<1>5. CASE e.saved # <<>>
  <2>1. PICK p \in Pointer : p = e.saved[1].data
    BY <1>1, <1>5
  <2>2. PICK c : c = FreeChain(e, p)
    OBVIOUS
  <2>3. /\ c.undo = e.undo /\ c \in Editor /\ Freed(e.rec, SavedRecs(e), c.rec)
    BY <1>1, <1>5, <2>1, <2>2, FreeChainFine DEF SavedRecs, Fine
  <2>4. d = [c EXCEPT !.undo = IF c.undo = p THEN NULL ELSE c.undo, !.saved = <<>>]
    BY <1>5, <2>1, <2>2 DEF FreeSaved
  <2>5. d.rec = c.rec /\ d.undo = IF e.undo = p THEN NULL ELSE e.undo
    BY <2>3, <2>4 DEF Editor
  <2>6. e.undo = p => e.undo = NULL
    <3> SUFFICES ASSUME e.undo = p, e.undo \in Id PROVE FALSE
      BY <1>1, Pointers
    <3>1. e.undo \in LineRecs(e)
      BY <1>1, OfFacts DEF LineRecs
    <3>2. SavedRecs(e) = LineRecs(e)
      BY <1>5, <2>1 DEF SavedRecs, LineRecs
    <3> QED
      BY <1>1, <3>1, <3>2
  <2>7. d.undo = e.undo
    BY <2>5, <2>6
  <2>8. \A i \in Id : i \notin SavedRecs(e) => d.rec[i] = e.rec[i]
    BY <2>3, <2>5 DEF Freed
  <2>9. \A i \in LineRecs(e) : d.rec[i] = e.rec[i]
    BY <1>1, <2>8 DEF Clear, InUse
  <2>10. \A k \in 1 .. Len(e.list) : \A i \in EntryRecs(e, k) : d.rec[i] = e.rec[i]
    BY <1>1, <2>8 DEF Spread, Clear, InUse
  <2>11. Sound(d.rec) /\ Fine(d)
    BY <1>2 DEF Besides, Fine
  <2>12. Spread(d, o) /\ \A k \in 1 .. Len(e.list) : EntryRecs(d, k) = EntryRecs(e, k)
    BY <1>1, <1>2, <2>10, <2>11, SpreadStays
  <2>13. LineRecs(d) = LineRecs(e)
    BY <1>1, <2>7, <2>9, <2>11, SameOf DEF LineRecs
  <2>14. Clear(d, LineRecs(d))
    BY <1>1, <1>2, <2>9, <2>12, <2>13, ClearStays
  <2> QED
    BY <1>2, <1>3, <2>7, <2>12, <2>14 DEF Loose, SavedRecs, Clear
<1> QED
  BY <1>4, <1>5

\* Nothing dangles there either.
LEMMA ClosedHeld ==
  ASSUME NEW e, NEW o, Closed(e, o)
  PROVE  ~Dangling(e)
<1>1. Fine(e)
  BY DEF Closed, Spread
<1>2. Held(e) \subseteq InUse(e.rec)
  BY <1>1, HeldParts DEF Closed, Spread, Clear
<1> QED
  BY <1>2 DEF Dangling, InUse

\* The list of the line is freed unless an entry or the saved line holds it.
LEMMA FreedClosed ==
  ASSUME NEW e, NEW o, Closed(e, o), NEW entry, NEW d, d = FreedForEntry(e, entry)
  PROVE  Closed(d, o) /\ d.list = e.list
<1>1. CASE d = e
  BY <1>1
<1>2. CASE d # e
  <2>1. /\ d = FreeUndoList(e)
        /\ e.undo \notin {NULL, entry.data} \cup {e.saved[k].data : k \in DOMAIN e.saved}
    BY <1>2 DEF FreedForEntry
  <2>2. Spread(e, o) /\ Clear(e, LineRecs(e)) /\ Clear(e, SavedRecs(e))
    BY DEF Closed
  <2>3. SavedRecs(e) \cap LineRecs(e) = {}
    <3>1. CASE e.saved = <<>>
      BY <3>1 DEF SavedRecs
    <3>2. CASE e.saved # <<>>
      <4>1. e.saved \in [{1} -> Entry]
        BY <2>2, <3>2, SpreadIs, Parts
      <4>2. e.saved[1].data # e.undo
        BY <2>1, <4>1
      <4> QED
        BY <3>2, <4>2 DEF Closed
    <3> QED
      BY <3>1, <3>2
  <2>4. /\ Spread(d, o) /\ Clear(d, SavedRecs(d)) /\ LineRecs(d) = {} /\ d.undo = NULL
        /\ d.saved = e.saved /\ d.list = e.list /\ d.offset = e.offset
    BY <2>1, <2>2, <2>3, FreeUndoLoose
  <2> QED
    BY <2>4 DEF Closed, Clear, OnEntry
<1> QED
  BY <1>1, <1>2

\* The text of an entry in the line: the entries stay.
LEMMA MakeCurrentLoose ==
  ASSUME NEW e, NEW o, Closed(e, o), RoomFor(e, 4), NEW k \in 1 .. Len(e.list),
         NEW d, d = MakeCurrent(e, e.list[k])
  PROVE  Loose(d, o) /\ ~OnEntry(d)
<1>1. Fine(e) /\ ~OnEntry(e)
  BY DEF Closed, Spread
<1>2. PICK entry \in Entry : entry = e.list[k]
  BY <1>1, Parts DEF Fine
<1>3. PICK f : f = FreedForEntry(e, entry)
  OBVIOUS
<1>4. Closed(f, o) /\ f.list = e.list /\ ~Dangling(f)
  BY <1>3, FreedClosed, ClosedHeld
<1>5. Besides(e, d) /\ MadeOf(f, d)
  BY <1>1, <1>2, <1>3, <1>4, MakeCurrentFine
<1>6. ~OnEntry(d) /\ Fine(d) /\ d.list = f.list
  BY <1>1, <1>5 DEF OnEntry, Besides, MadeOf
<1>7. Clear(f, {}) /\ Clear(f, LineRecs(f)) /\ Spread(f, o)
  BY <1>4 DEF Closed, Clear
<1>8. PICK g : g = [f EXCEPT !.saved = <<>>]
  OBVIOUS
<1>9. /\ g \in Editor /\ g.saved = <<>> /\ g.rec = f.rec /\ g.undo = f.undo /\ g.list = f.list
      /\ g.offset = f.offset
  <2>1. f \in Editor
    BY <1>7, SpreadIs
  <2> QED
    BY <1>8, <2>1 DEF Editor
<1>10. Spread(g, o) /\ Clear(g, LineRecs(g)) /\ SavedRecs(g) = {}
  <2>1. Fine(g)
    BY <1>7, <1>9, SpreadIs DEF Fine
  <2>2. Spread(g, o)
    BY <1>7, <1>9, <2>1, SpreadStays
  <2> QED
    BY <1>7, <1>9, <2>2 DEF Clear, LineRecs, EntryRecs, SavedRecs
<1>11. Spares(g, d) /\ Alive(d) /\ d.saved = <<>>
  BY <1>5, <1>9 DEF MadeOf, Spares
<1>12. Clear(g, SavedRecs(g)) /\ SavedRecs(g) \cap LineRecs(g) = {}
  BY <1>10 DEF Clear
<1>13. Loose(d, o)
  BY <1>6, <1>9, <1>10, <1>11, <1>12, SparedLoose
<1> QED
  BY <1>6, <1>13

\* The line is emptied for the string of a search.
LEMMA EmptiedLoose ==
  ASSUME NEW e, NEW o, Loose(e, o), ~OnEntry(e), NEW d, d = Emptied(e)
  PROVE  Loose(d, o) /\ ~OnEntry(d) /\ d.saved # <<>>
<1>1. Spread(e, o) /\ Fine(e) /\ Sound(e.rec) /\ Clear(e, LineRecs(e)) /\ Clear(e, SavedRecs(e))
  BY SpreadIs DEF Loose
<1>2. /\ Besides(e, d) /\ d.undo = NULL /\ d.list = e.list /\ d.rec = e.rec /\ d.saved # <<>>
      /\ e.saved # <<>> => d.saved = e.saved
      /\ e.saved = <<>> => d.saved[1].data = e.undo
  BY <1>1, EmptiedIs
<1>3. ~OnEntry(d) /\ Fine(d)
  BY <1>2 DEF OnEntry, Besides
<1>4. Spread(d, o) /\ \A k \in 1 .. Len(e.list) : EntryRecs(d, k) = EntryRecs(e, k)
  BY <1>1, <1>2, <1>3, SpreadStays
<1>5. LineRecs(d) = {}
  BY <1>1, <1>2, OfFacts DEF LineRecs
<1>6. SavedRecs(d) = IF e.saved = <<>> THEN LineRecs(e) ELSE SavedRecs(e)
  BY <1>2 DEF SavedRecs, LineRecs
<1>7. Clear(d, SavedRecs(d))
  BY <1>1, <1>2, <1>4, <1>6, ClearStays
<1> QED
  BY <1>2, <1>3, <1>4, <1>5, <1>7 DEF Loose, Clear

\* A search for a string from the line being typed keeps the entries.
LEMMA NSearchFromLoose ==
  ASSUME NEW e, NEW o, Loose(e, o), ~OnEntry(e), RoomFor(e, 4), NEW string, NEW pos \in Nat,
         NEW reverse \in BOOLEAN, NEW s, s = NSearchFrom(e, string, pos, reverse)
  PROVE  Loose(s.ed, o)
<1>1. /\ Spread(e, o) /\ Fine(e) /\ Clear(e, LineRecs(e)) /\ Clear(e, SavedRecs(e))
      /\ SavedRecs(e) \cap LineRecs(e) = {}
  BY DEF Loose, Spread
<1>2. PICK n \in Nat : n = Len(e.list)
  BY <1>1, SpreadIs
<1>3. PICK hits : hits = Hits(e, string, pos + Step(reverse), reverse)
  OBVIOUS
<1>4. Within(hits, 0, n - 1) /\ 0 \in Int /\ n - 1 \in Int /\ 0 \in Nat
  BY <1>2, <1>3 DEF Within, Hits
<1>5. CASE hits = {}
  <2>1. PICK d : d = MaybeUnsave(e)
    OBVIOUS
  <2>2. PICK f : f = [d EXCEPT !.point = 0]
    OBVIOUS
  <2>3. s = [ed |-> f, pos |-> pos]
    BY <1>3, <1>5, <2>1, <2>2 DEF NSearchFrom
  <2>4. Loose(d, o)
    BY <1>1, <2>1, UnsaveClosed
  <2>5. PointSet(d, f, 0)
    BY <2>2 DEF PointSet
  <2> QED
    BY <1>4, <2>3, <2>4, <2>5, PointLoose
<1>6. CASE hits # {}
  <2>1. PICK k : k = Nearest(reverse, hits)
    OBVIOUS
  <2>2. k \in 0 .. n - 1
    BY <1>4, <1>6, <2>1, NearestIs DEF Within
  <2>3. PICK j \in 1 .. n : j = k + 1
    BY <1>2, <2>2
  <2>4. PICK d : d = MakeCurrent(e, e.list[j])
    OBVIOUS
  <2>5. PICK p : p = FoundAt(d, Nearest(reverse, Matches(string, e.list[j].line)))
    OBVIOUS
  <2>6. PICK f : f = [d EXCEPT !.point = p]
    OBVIOUS
  <2>7. s = [ed |-> f, pos |-> k]
    BY <1>3, <1>6, <2>1, <2>3, <2>4, <2>5, <2>6 DEF NSearchFrom
  <2>8. Closed(e, o)
    BY <1>1 DEF Closed
  <2>9. Loose(d, o)
    BY <1>2, <2>4, <2>8, MakeCurrentLoose
  <2>10. PointSet(d, f, p)
    BY <2>6 DEF PointSet
  <2>11. Fine(d)
    BY <2>9 DEF Loose, Spread
  <2>12. p \in Nat
    BY <2>5, <2>11, FoundAtIs
  <2> QED
    BY <2>7, <2>9, <2>10, <2>12, PointLoose
<1> QED
  BY <1>5, <1>6

\* So does the search for the beginning of the line.
LEMMA HistorySearchFromLoose ==
  ASSUME NEW e, NEW o, Loose(e, o), ~OnEntry(e), RoomFor(e, 4), NEW s, Asked(s, Len(e.list)),
         NEW reverse \in BOOLEAN, NEW r, r = HistorySearchFrom(e, s, reverse)
  PROVE  \E d, p : Loose(d, o) /\ PointSet(d, r.ed, p)
<1>1. Spread(e, o) /\ Fine(e)
  BY DEF Loose, Spread
<1>2. PICK n \in Nat : n = Len(e.list)
  BY <1>1, SpreadIs
<1>3. PICK str, kind, pos : str = s.string /\ kind = s.kind /\ pos = s.pos
  OBVIOUS
<1>4. PICK hits : hits = {k \in 0 .. n - 1 :
                 /\ IF reverse THEN k < pos ELSE k > pos
                 /\ Finds(kind, str, e.list[k + 1].line) # {}}
  OBVIOUS
<1>5. PICK others : others = {k \in hits : e.list[k + 1].line # s.prev}
  OBVIOUS
<1>6. PICK saved : saved = MaybeSave(e)
  OBVIOUS
<1>7. Placed(saved, o) /\ Closed(saved, o)
  BY <1>6, SavedClosed
<1>8. Besides(e, saved) /\ saved.list = e.list /\ saved.rec = e.rec /\ saved.saved # <<>>
  BY <1>1, <1>6, SaveFine
<1>9. RoomFor(saved, 4)
  BY <1>8 DEF RoomFor, FreeIds
<1>10. CASE hits = {}
  <2>1. PICK d : d = MaybeUnsave(saved)
    OBVIOUS
  <2>2. PICK f, p : p = Len(str) /\ f = [d EXCEPT !.point = p]
    OBVIOUS
  <2>3. r = [ed |-> f, search |-> s]
    BY <1>2, <1>3, <1>4, <1>6, <1>10, <2>1, <2>2 DEF HistorySearchFrom
  <2>4. Loose(d, o)
    BY <1>7, <1>8, <2>1, UnsaveClosed DEF Placed, Closed
  <2>5. PointSet(d, f, p) /\ r.ed = f
    BY <2>2, <2>3 DEF PointSet
  <2> QED
    BY <2>4, <2>5
<1>11. CASE hits # {}
  <2>1. Within(hits, 0, n - 1) /\ Within(others, 0, n - 1) /\ 0 \in Int /\ n - 1 \in Int
    BY <1>2, <1>4, <1>5 DEF Within
  <2>2. PICK k : k = IF others # {} THEN Nearest(reverse, others) ELSE Nearest(~reverse, hits)
    OBVIOUS
  <2>3. k \in 0 .. n - 1
    <3>1. CASE others # {}
      BY <2>1, <2>2, <3>1, NearestIs DEF Within
    <3>2. CASE others = {}
      BY <1>11, <2>1, <2>2, <3>2, NearestIs DEF Within
    <3> QED
      BY <3>1, <3>2
  <2>4. PICK j \in 1 .. n : j = k + 1
    BY <1>2, <2>3
  <2>5. PICK entry : entry = e.list[j]
    OBVIOUS
  <2>6. PICK p : p = IF kind = "prefix" THEN Len(str)
                     ELSE IF others = {} THEN Len(entry.line)
                     ELSE Nearest(reverse, Finds(kind, str, entry.line))
    OBVIOUS
  <2>7. PICK d : d = MakeCurrent(saved, entry)
    OBVIOUS
  <2>8. PICK f : f = [d EXCEPT !.point = p]
    OBVIOUS
  <2>9. r = [ed |-> f, search |-> [s EXCEPT !.pos = k, !.prev = entry.line]]
    BY ZenonT(40), <1>2, <1>3, <1>4, <1>5, <1>6, <1>11, <2>2, <2>4, <2>5, <2>6, <2>7, <2>8
       DEF HistorySearchFrom
  <2>10. d = MakeCurrent(saved, saved.list[j]) /\ j \in 1 .. Len(saved.list)
    BY <1>2, <1>8, <2>5, <2>7
  <2>11. Loose(d, o)
    BY <1>7, <1>9, <2>10, MakeCurrentLoose
  <2>12. PointSet(d, f, p) /\ r.ed = f
    BY <2>9, <2>8 DEF PointSet
  <2> QED
    BY <2>11, <2>12
<1> QED
  BY <1>10, <1>11

-----------------------------------------------------------------------------
(* Typing, and accepting the line, keep the entries *)

\* The entries are kept, and with an entry in view nothing else is in use.
Intact(e, o) == Loose(e, o) /\ (OnEntry(e) => Whole(e, o))

\* Nothing has been changed in any entry.
Unchanged(e) == e.undo = NULL /\ \A k \in 1 .. Len(e.list) : e.list[k].data = NULL

\* A text is inserted after the entries.
LEMMA InsertLoose ==
  ASSUME NEW e, NEW o, Loose(e, o), PointIn(e), RoomFor(e, 2), ~OnEntry(e),
         NEW new \in Text, NEW d, d = InsertText(e, new)
  PROVE  Loose(d, o) /\ ~OnEntry(d)
<1>1. /\ Spread(e, o) /\ Fine(e) /\ Clear(e, LineRecs(e)) /\ Clear(e, SavedRecs(e))
      /\ SavedRecs(e) \cap LineRecs(e) = {} /\ ~Dangling(e) /\ e \in Editor
  BY LooseHeld DEF Loose, Spread, Fine
<1>2. PICK x \in Text : x = e.text
  BY <1>1, Parts
<1>3. PICK k \in Nat, j \in Nat : k = 1 /\ j = 2 /\ OneLess(k, j)
  BY DEF OneLess
<1>4. Works(e, j)
  BY <1>1, <1>3, AliveIs DEF Works
<1>5. e.point \in 0 .. Len(x)
  BY <1>1, <1>2, TextLen DEF PointIn, Editor
<1>6. Works(d, k) /\ SameLines(e, d) /\ Spares(e, d)
  BY <1>2, <1>3, <1>4, <1>5, InsertWorks
<1>7. Fine(d) /\ Alive(d) /\ d.list = e.list /\ d.offset = e.offset /\ d.saved = e.saved
  BY <1>6 DEF Works, SameLines
<1>8. ~OnEntry(d)
  BY <1>7 DEF OnEntry
<1> QED
  BY <1>1, <1>6, <1>7, <1>8, SparedLoose

\* A part of it is deleted.
LEMMA DeleteLoose ==
  ASSUME NEW e, NEW o, Loose(e, o), RoomFor(e, 2), ~OnEntry(e), NEW x \in Text, x = e.text,
         NEW to \in Nat, to = Len(x), NEW from \in 0 .. to, NEW d, d = DeleteText(e, from, to)
  PROVE  Loose(d, o) /\ ~OnEntry(d)
<1>1. /\ Spread(e, o) /\ Fine(e) /\ Clear(e, LineRecs(e)) /\ Clear(e, SavedRecs(e))
      /\ SavedRecs(e) \cap LineRecs(e) = {} /\ ~Dangling(e) /\ e \in Editor
  BY LooseHeld DEF Loose, Spread, Fine
<1>2. PICK k \in Nat, j \in Nat : k = 1 /\ j = 2 /\ OneLess(k, j)
  BY DEF OneLess
<1>3. Works(e, j)
  BY <1>1, <1>2, AliveIs DEF Works
<1>4. PartOf(x, from, to)
  BY DEF PartOf
<1>5. Works(d, k) /\ SameLines(e, d) /\ Spares(e, d)
  BY <1>2, <1>3, <1>4, DeleteWorks
<1>6. Fine(d) /\ Alive(d) /\ d.list = e.list /\ d.offset = e.offset /\ d.saved = e.saved
  BY <1>5 DEF Works, SameLines
<1>7. ~OnEntry(d)
  BY <1>6 DEF OnEntry
<1> QED
  BY <1>1, <1>5, <1>6, <1>7, SparedLoose

\* A text is inserted into an entry.
LEMMA InsertInEntry ==
  ASSUME NEW e, NEW o, Intact(e, o), PointIn(e), RoomFor(e, 2), OnEntry(e), Unchanged(e),
         NEW new \in Text, NEW d, d = InsertText(e, new)
  PROVE  Intact(d, o)
<1>1. /\ Spread(e, o) /\ Fine(e) /\ InEntry(e, o) /\ Clear(e, SavedRecs(e)) /\ Sound(e.rec)
      /\ SavedRecs(e) \cap LineRecs(e) = {} /\ ~Dangling(e) /\ e \in Editor
      /\ e.list \in Seq(Entry) /\ e.offset <= Len(e.list) /\ InUse(e.rec) \subseteq Held(e)
  BY LooseHeld, Parts DEF Intact, Whole, Loose, Spread, Fine
<1>2. PICK x \in Text : x = e.text
  BY <1>1, Parts
<1>3. PICK k \in Nat, j \in Nat : k = 1 /\ j = 2 /\ OneLess(k, j)
  BY DEF OneLess
<1>4. Works(e, j)
  BY <1>1, <1>3, AliveIs DEF Works
<1>5. PICK at \in 0 .. Len(x) : at = e.point
  BY <1>1, <1>2, TextLen DEF PointIn, Editor
<1>6. Works(d, k) /\ SameLines(e, d) /\ Spares(e, d) /\ d.text = With(x, at, new) /\ d.text \in Text
  BY <1>2, <1>3, <1>4, <1>5, InsertWorks
<1>7. /\ Fine(d) /\ Alive(d) /\ d.list = e.list /\ d.offset = e.offset /\ d.saved = e.saved
      /\ Sound(d.rec)
  BY <1>6 DEF Works, SameLines, Fine
<1>8. PICK r : r = [what |-> "insert", start |-> at, end |-> at + Len(new), text |-> <<>>,
                    next |-> e.undo]
  OBVIOUS
<1>9. PICK a : a = AddUndo(e, "insert", at, at + Len(new), <<>>)
  OBVIOUS
<1>10. Noted(e, a, r) /\ NewRecord(e, r)
  <2>1. FreeIds(e) # {}
    <3>1. RoomFor(e, 1 + 1) /\ 1 \in Nat
      OBVIOUS
    <3> QED
      BY ONLY <3>1, RoomIs
  <2>2. /\ at \in Nat /\ at + Len(new) \in Nat /\ at <= at + Len(new) /\ <<>> \in Text
        /\ "insert" \in {"insert", "delete", "begin", "end"}
    BY <1>2, TextLen DEF Text
  <2>3. PICK end \in Nat : end = at + Len(new)
    BY <2>2
  <2> QED
    BY <1>1, <1>8, <1>9, <2>1, <2>2, <2>3, AddUndoNotes
<1>11. PICK i \in Id : i = a.undo
  BY <1>10 DEF Noted
<1>12. d.undo = i /\ d.rec = [e.rec EXCEPT ![i] = r]
  <2>1. ~CanMerge(e, new)
    BY DEF CanMerge, Unchanged
  <2>2. d = [a EXCEPT !.text = With(e.text, e.point, new), !.point = @ + Len(new)]
    BY <1>5, <1>9, <2>1 DEF InsertText
  <2>3. a \in Editor
    BY <1>10 DEF Noted
  <2>4. d.undo = a.undo /\ d.rec = a.rec
    BY <2>2, <2>3 DEF Editor
  <2> QED
    BY <1>10, <1>11, <2>4 DEF Noted
<1>13. d.rec[i] = r
  BY <1>1, <1>12 DEF Sound
<1>14. PICK n \in Nat : n = Len(e.list)
  BY <1>1
<1>15. Of(e.rec, NULL) = {} /\ Of(d.rec, NULL) = {}
  BY <1>1, <1>7, OfFacts
<1>16. \A m \in 1 .. n : EntryRecs(e, m) = {} /\ EntryRecs(d, m) = {}
  BY <1>7, <1>14, <1>15 DEF EntryRecs, Unchanged
<1>17. Spread(d, o)
  BY <1>1, <1>7, <1>14, <1>16, SpreadStays
<1>18. /\ Clear(d, SavedRecs(d)) /\ SavedRecs(d) \cap LineRecs(d) = {}
       /\ SavedRecs(d) = SavedRecs(e)
  <2>1. PICK p \in Pointer : p = e.saved[1].data
    BY <1>1, SpreadIs DEF InEntry
  <2>2. SavedRecs(e) = Of(e.rec, p) /\ SavedRecs(d) = Of(d.rec, p)
    BY <1>1, <1>7, <2>1 DEF SavedRecs, InEntry
  <2>3. \A c \in SavedRecs(e) : d.rec[c] = e.rec[c] /\ c \notin LineRecs(d) /\ c \in InUse(e.rec)
    BY <1>1, <1>6 DEF Clear, Spares, LineRecs
  <2>4. SavedRecs(d) = SavedRecs(e)
    BY <1>1, <1>7, <2>2, <2>3, SameOf
  <2> QED
    BY <1>7, <1>14, <1>16, <2>3, <2>4 DEF Clear, InUse
<1>19. LineRecs(d) \subseteq InUse(d.rec)
  <2>1. d.undo \in Pointer
    BY <1>12, Pointers
  <2>2. LineRecs(d) \subseteq Id
    BY <1>7, <2>1, OfFacts DEF LineRecs
  <2> QED
    BY <1>7, <2>2 DEF Alive, LineRecs, InUse
<1>20. UndoneText(d.text, r) = x
  <2>1. r.what = "insert" /\ r.start = at /\ r.end = at + Len(new)
    BY <1>8
  <2> QED
    BY <1>6, <2>1, InsertionUndone
<1>21. r.next = NULL /\ NULL \in Pointer
  BY <1>8, Pointers DEF Unchanged
<1>22. PICK p \in 1 .. n : p = Place(e) /\ p = Place(d)
  BY <1>1, <1>7, <1>14, PlaceIs DEF Place
<1>23. LineTakes(d, d.text, o[p])
  <2>1. Takes(e.rec, NULL, x, o[p])
    BY <1>1, <1>2, <1>22 DEF InEntry, LineTakes, Unchanged
  <2>2. Takes(d.rec, NULL, x, o[p])
    BY <2>1, TakesNone
  <2>3. PICK y \in Text : y = d.text
    BY <1>6
  <2>4. PICK u : u = o[p]
    OBVIOUS
  <2>5. d.rec[i].next = NULL /\ UndoneText(y, d.rec[i]) = x
    BY <1>13, <1>20, <1>21, <2>3
  <2>6. Takes(d.rec, NULL, UndoneText(y, d.rec[i]), u)
    BY <2>2, <2>3, <2>5, <2>4
  <2>7. Takes(d.rec, i, y, u)
    BY <1>21, <2>5, <2>6, TakesMore
  <2> QED
    BY <1>12, <2>3, <2>7, <2>4 DEF LineTakes
<1>24. Meets(d, d.text)
  <2>1. PICK l : l = e.list[p].line
    OBVIOUS
  <2>2. Reaches(e.rec, NULL, x, NULL, l)
    <3>1. e.list[p].data = NULL /\ e.undo = NULL
      BY <1>14 DEF Unchanged
    <3>2. Meets(e, x)
      BY <1>1, <1>2 DEF InEntry
    <3> QED
      BY <1>22, <2>1, <3>1, <3>2 DEF Meets
  <2>3. x = l
    BY <1>1, <1>21, <2>2, ReachesOnce
  <2>4. Reaches(d.rec, NULL, x, NULL, l)
    BY <2>3, ReachesItself
  <2>5. Reaches(d.rec, i, d.text, NULL, l)
    BY <1>13, <1>20, <1>21, <2>4, ReachesMore
  <2>6. d.list[p].data = NULL /\ d.list[p].line = l
    BY <1>7, <1>14, <2>1 DEF Unchanged
  <2> QED
    BY <1>12, <1>22, <2>5, <2>6 DEF Meets
<1>25. OnEntry(d) /\ d.saved # <<>>
  BY <1>1, <1>7 DEF OnEntry, InEntry
<1>26. InEntry(d, o)
  BY <1>7, <1>14, <1>16, <1>19, <1>22, <1>23, <1>24, <1>25 DEF InEntry
<1>27. InUse(d.rec) \subseteq Held(d)
  <2>1. LineRecs(e) = {} /\ i \in LineRecs(d)
    BY <1>7, <1>12, <1>15, Pointers, OfFacts DEF LineRecs, Unchanged
  <2>2. Held(e) \subseteq SavedRecs(e)
    BY <1>1, <1>14, <1>16, <2>1, HeldParts
  <2>3. \A c \in InUse(d.rec) : c = i \/ c \in InUse(e.rec)
    BY <1>1, <1>12 DEF InUse, Sound
  <2>4. \A c : c \in SavedRecs(d) \/ c \in LineRecs(d) => c \in Held(d)
    BY <1>7, HeldParts
  <2> QED
    BY <1>1, <1>18, <2>1, <2>2, <2>3, <2>4
<1> QED
  BY <1>17, <1>18, <1>25, <1>26, <1>27 DEF Intact, Whole, Loose

\* Every list takes a text somewhere.
LEMMA TakesTotal ==
  ASSUME NEW rec, Sound(rec), NEW p \in Pointer, NEW t \in Text
  PROVE  \E u : Takes(rec, p, t, u)
<1>1. PICK s : IsList(rec, p, s)
  BY DEF Sound, Leads
<1>2. PICK n \in Nat : n = Len(s)
  BY <1>1, ListHas
<1>3. \A k \in 1 .. n : s[k] \in Id
  BY <1>1, <1>2, ListHas
<1>4. PICK F : F = [k \in 1 .. n |-> [y \in Text |-> UndoneText(y, rec[s[k]])]]
  OBVIOUS
<1>5. \A k \in 1 .. n : \A y \in Text : UndoneText(y, rec[s[k]]) \in Text
  <2> TAKE k \in 1 .. n
  <2> TAKE y \in Text
  <2>1. PICK i \in Id : i = s[k]
    BY <1>3
  <2>2. PICK r \in UndoRec : r = rec[i] /\ r.start <= r.end
    BY DEF Sound
  <2> QED
    BY <2>1, <2>2, UndoneIs
<1>6. F \in [1 .. n -> [Text -> Text]]
  BY <1>4, <1>5
<1>7. PICK f \in [SUBSET (1 .. n) -> Text] : Folds(f, n, t, F)
  BY <1>6, FoldExists
<1>8. PICK tt : tt = [k \in 0 .. n |-> f[1 .. k]]
  OBVIOUS
<1>9. \A k \in 0 .. n : 1 .. k \in SUBSET (1 .. n)
  OBVIOUS
<1>10. tt \in [0 .. n -> Text]
  BY <1>8, <1>9
<1>11. tt[0] = t
  <2>1. 1 .. 0 = {} /\ 0 \in 0 .. n
    OBVIOUS
  <2>2. f[{}] = t
    BY <1>7 DEF Folds
  <2> QED
    BY <1>8, <2>1, <2>2
<1>12. \A k \in 1 .. n : tt[k] = UndoneText(tt[k - 1], rec[s[k]])
  <2> TAKE k \in 1 .. n
  <2>1. Max(1 .. k) = k /\ (1 .. k) \ {k} = 1 .. k - 1 /\ 1 .. k # {}
    <3>1. k \in Nat /\ k # 0
      OBVIOUS
    <3> QED
      BY ONLY <3>1, GreatestUpTo
  <2>2. 1 .. k \in SUBSET (1 .. n) /\ k \in 0 .. n /\ k - 1 \in 0 .. n
    OBVIOUS
  <2>3. f[1 .. k] = F[Max(1 .. k)][f[(1 .. k) \ {Max(1 .. k)}]]
    BY <1>7, <2>1, <2>2 DEF Folds
  <2>4. PICK y \in Text : y = f[1 .. k - 1]
    BY <1>9, <2>2
  <2>5. f[1 .. k] = F[k][y]
    BY <2>1, <2>3, <2>4
  <2>6. F[k][y] = UndoneText(y, rec[s[k]])
    BY <1>4
  <2> QED
    BY <1>8, <2>2, <2>4, <2>5, <2>6
<1> QED
  BY <1>1, <1>2, <1>10, <1>11, <1>12 DEF Takes

\* The lines as they are, with an entry in view.
Seen(e, v) ==
  v = [k \in 1 .. Len(e.list) + 1 |->
         IF k = Place(e) THEN e.text
         ELSE IF k = Len(e.list) + 1 THEN e.saved[1].line ELSE e.list[k].line]

\* With an entry in view, and nothing else in use, the memory is in order.
LEMMA WholeKept ==
  ASSUME NEW e, NEW o, Whole(e, o), OnEntry(e), PointIn(e)
  PROVE  \E x, v : v \in Seq(Text) /\ Len(v) = Len(e.list) + 1 /\ Kept(e, Based(x, o), v, FALSE)
<1>1. /\ Spread(e, o) /\ Fine(e) /\ InEntry(e, o) /\ Clear(e, SavedRecs(e)) /\ Sound(e.rec)
      /\ SavedRecs(e) \cap LineRecs(e) = {} /\ e \in Editor /\ InUse(e.rec) \subseteq Held(e)
      /\ e.offset <= Len(e.list) /\ e.saved # <<>>
  BY DEF Whole, Loose, Spread, Fine, InEntry
<1>2. PICK n \in Nat : n = Len(e.list) /\ Len(o) = n
  BY <1>1, SpreadIs DEF Spread
<1>3. PICK at \in 1 .. n : at = Place(e)
  BY <1>1, <1>2, PlaceIs
<1>4. /\ e.text \in Text /\ e.saved[1].line \in Text /\ e.saved[1].data \in Pointer
      /\ \A k \in 1 .. n : e.list[k].line \in Text
  BY <1>1, <1>2, Parts
<1>5. PICK x : Takes(e.rec, e.saved[1].data, e.saved[1].line, x)
  BY <1>1, <1>4, TakesTotal
<1>6. PICK v : Seen(e, v)
  BY DEF Seen
<1>7. v \in Seq(Text) /\ Len(v) = n + 1
  <2>1. PICK j \in Nat : j = n + 1
    OBVIOUS
  <2>2. v = [k \in 1 .. j |-> IF k = at THEN e.text ELSE IF k = j THEN e.saved[1].line ELSE e.list[k].line]
    BY <1>2, <1>3, <1>6, <2>1 DEF Seen
  <2>3. \A k \in 1 .. j : k = j \/ k \in 1 .. n
    BY <2>1
  <2>4. v \in [1 .. j -> Text]
    BY <1>4, <2>2, <2>3
  <2> QED
    BY <2>1, <2>4
<1>8. Shows(e, v)
  <2>1. at \in 1 .. n + 1 /\ n + 1 \in 1 .. n + 1 /\ n + 1 # at
    OBVIOUS
  <2>2. \A k \in 1 .. n : k \in 1 .. n + 1 /\ k # n + 1
    OBVIOUS
  <2> QED
    BY <1>2, <1>3, <1>6, <2>1, <2>2 DEF Shows, Seen
<1>9. /\ \A k \in 1 .. n : k \in 0 .. n /\ Lists(e)[k] = EntryRecs(e, k)
      /\ \A k \in 0 .. n : k = 0 \/ k \in 1 .. n
      /\ Lists(e)[0] = SavedRecs(e) /\ 0 \in 0 .. n
  BY <1>1, <1>2, ListsParts
<1>10. Of(e.rec, NULL) = {} /\ NULL \in Pointer
  BY <1>1, OfFacts, Pointers
<1>11. PICK L, U : L = Lists(e) /\ U = LineRecs(e)
  OBVIOUS
<1>12. \A k, m \in 0 .. n : k # m => L[k] \cap L[m] = {}
  <2>1. \A k, m \in 1 .. n : k # m => L[k] \cap L[m] = {}
    BY <1>1, <1>2, <1>9, <1>11 DEF Spread
  <2>2. \A k \in 1 .. n : L[k] \cap L[0] = {}
    BY <1>1, <1>2, <1>9, <1>11 DEF Clear
  <2> QED
    BY <1>9, <2>1, <2>2
<1>13. \A k \in 0 .. n : IF k = at THEN L[k] \subseteq U ELSE L[k] \cap U = {}
  <2>1. \A k \in 1 .. n : IF k = at THEN L[k] \subseteq U ELSE L[k] \cap U = {}
    BY <1>1, <1>2, <1>3, <1>9, <1>11 DEF InEntry
  <2>2. L[0] \cap U = {} /\ 0 # at
    BY <1>1, <1>9, <1>11
  <2> QED
    BY <1>9, <2>1, <2>2
<1>14. \A i : i \in InUse(e.rec) <=> i \in U \/ i \in {} \/ \E k \in 0 .. n : i \in L[k]
  <2>1. Held(e) \subseteq InUse(e.rec)
    BY LooseHeld DEF Whole
  <2> QED
    BY <1>1, <1>2, <1>9, <1>11, <2>1, HeldParts
<1>15. Apart(n, at, U, L, {}, InUse(e.rec))
  BY <1>12, <1>13, <1>14 DEF Apart
<1>16. InOrder(e, NULL)
  BY <1>1, <1>2, <1>3, <1>10, <1>11, <1>15 DEF InOrder, LineRecs
<1>17. Based(x, o)[0] = x /\ \A k \in 1 .. n : Based(x, o)[k] = o[k]
  BY <1>2, BasedIs
<1>18. Gives(e, Based(x, o))
  BY <1>1, <1>2, <1>5, <1>17 DEF Gives, Spread
<1>19. LineTakes(e, e.text, Origin(e, Based(x, o))) /\ Meets(e, e.text)
  BY <1>1, <1>3, <1>17 DEF Origin, InEntry
<1>20. Kept(e, Based(x, o), v, FALSE)
  BY <1>8, <1>16, <1>18, <1>19 DEF Kept, Tells
<1> QED
  BY <1>2, <1>7, <1>20

\* Where the memory is in order, the entries are kept.
LEMMA KeptLoose ==
  ASSUME NEW e, NEW o, NEW x, NEW v, Kept(e, Based(x, o), v, FALSE), Len(o) = Len(e.list)
  PROVE  Loose(e, o)
<1>1. /\ e \in Editor /\ e.offset <= Len(e.list) /\ Sound(e.rec) /\ (OnEntry(e) <=> e.saved # <<>>)
      /\ Apart(Len(e.list), Place(e), LineRecs(e), Lists(e), Of(e.rec, NULL), InUse(e.rec))
      /\ Tells(e, Based(x, o), v)
  BY DEF Kept, InOrder, LineRecs
<1>2. PICK n \in Nat : n = Len(e.list) /\ Len(o) = n
  BY <1>1, Parts
<1>3. Fine(e)
  BY <1>1 DEF Fine
<1>4. /\ \A k \in 1 .. n : k \in 0 .. n /\ Lists(e)[k] = EntryRecs(e, k)
      /\ Lists(e)[0] = SavedRecs(e) /\ 0 \in 0 .. n
  BY <1>2, <1>3, ListsParts
<1>5. PICK L, U, at : L = Lists(e) /\ U = LineRecs(e) /\ at = Place(e)
  OBVIOUS
<1>6. Place(e) \in 1 .. n + 1 /\ (OnEntry(e) <=> Place(e) \in 1 .. n)
  BY <1>1, <1>2, PlaceIs
<1>7. 0 # at
  BY <1>5, <1>6
<1>8. /\ \A k, m \in 0 .. n : k # m => L[k] \cap L[m] = {}
      /\ \A k \in 0 .. n : IF k = at THEN L[k] \subseteq U ELSE L[k] \cap U = {}
      /\ U \subseteq InUse(e.rec) /\ \A k \in 0 .. n : L[k] \subseteq InUse(e.rec)
  BY <1>1, <1>2, <1>5 DEF Apart
<1>9. /\ \A k, m \in 1 .. n : k # m => EntryRecs(e, k) \cap EntryRecs(e, m) = {}
      /\ \A k \in 1 .. n : EntryRecs(e, k) \subseteq InUse(e.rec)
      /\ \A k \in 1 .. n : EntryRecs(e, k) \cap SavedRecs(e) = {}
      /\ SavedRecs(e) \subseteq InUse(e.rec) /\ SavedRecs(e) \cap LineRecs(e) = {}
      /\ \A k \in 1 .. n : IF k = at THEN EntryRecs(e, k) \subseteq U ELSE EntryRecs(e, k) \cap U = {}
  <2>1. \A k \in 1 .. n : k # 0
    OBVIOUS
  <2> QED
    BY <1>4, <1>5, <1>7, <1>8, <2>1
<1>10. Based(x, o)[0] = x /\ \A k \in 1 .. n : Based(x, o)[k] = o[k]
  BY <1>2, BasedIs
<1>11. \A k \in 1 .. n : Takes(e.rec, e.list[k].data, e.list[k].line, o[k])
  BY <1>1, <1>2, <1>10 DEF Tells, Gives
<1>12. Spread(e, o)
  BY <1>2, <1>3, <1>9, <1>11 DEF Spread
<1>13. Clear(e, SavedRecs(e))
  BY <1>2, <1>9 DEF Clear
<1>14. CASE OnEntry(e)
  <2>1. LineTakes(e, e.text, o[at]) /\ Meets(e, e.text)
    BY <1>1, <1>5, <1>6, <1>10, <1>14 DEF Tells, Origin
  <2>2. InEntry(e, o)
    BY <1>1, <1>2, <1>5, <1>8, <1>9, <1>14, <2>1 DEF InEntry
  <2> QED
    BY <1>9, <1>12, <1>13, <1>14, <2>2 DEF Loose
<1>15. CASE ~OnEntry(e)
  <2>1. \A k \in 1 .. n : k # at
    BY <1>5, <1>6, <1>15
  <2>2. Clear(e, LineRecs(e))
    BY <1>2, <1>5, <1>8, <1>9, <2>1 DEF Clear
  <2> QED
    BY <1>9, <1>12, <1>13, <1>15, <2>2 DEF Loose
<1> QED
  BY <1>14, <1>15

\* The next line keeps the entries, of which there may be one more.
LEMMA NextLineLoose ==
  ASSUME NEW c, NEW o \in Seq(Text), Loose(c, o), ~OnEntry(c), c.undo = NULL, c.saved = <<>>,
         NEW a, a = NextLine(c), NEW p, p = o \o NewLine(c.text)
  PROVE  Loose(a, p) /\ p \in Seq(Text)
<1>1. Spread(c, o) /\ Fine(c) /\ c \in Editor /\ Sound(c.rec) /\ c.text \in Text /\ c.list \in Seq(Entry)
  BY Parts DEF Loose, Spread, Fine
<1>2. PICK n \in Nat : n = Len(c.list) /\ Len(o) = n
  BY <1>1, SpreadIs DEF Spread
<1>3. PICK t \in Text : t = c.text
  BY <1>1
<1>4. PICK n2 : n2 = OneMore(n, t)
  OBVIOUS
<1>5. AddsLine(o, t, p, p \o <<<<>>>>)
  BY <1>3 DEF AddsLine
<1>6. n2 \in Nat /\ p \in Seq(Text) /\ Len(p) = n2 /\ Longer(o, t, n, n2, p)
  <2>1. PICK w : AddsLine(o, t, p, w)
    BY <1>5
  <2>2. o \in Seq(Text) /\ t \in Text /\ n \in Nat /\ Len(o) = n /\ n2 = OneMore(n, t)
    BY <1>2, <1>3, <1>4
  <2> QED
    BY ONLY <2>1, <2>2, OneMoreLine
<1>7. PICK entry \in Entry : entry = [line |-> t, data |-> NULL] /\ entry.line = t /\ entry.data = NULL
  <2>1. PICK none \in Pointer : none = NULL
    BY Pointers
  <2>2. PICK x : x = [line |-> t, data |-> none]
    OBVIOUS
  <2>3. x \in Entry /\ x.line = t /\ x.data = none
    BY <1>3, <2>1, <2>2 DEF Entry, Text
  <2> QED
    BY <2>1, <2>2, <2>3
<1>8. PICK list : list = IF t = <<>> THEN c.list ELSE Append(c.list, entry)
  OBVIOUS
<1>9. /\ list \in Seq(Entry) /\ Len(list) = n2
      /\ \A k \in 1 .. n : list[k] = c.list[k]
      /\ \A k \in 1 .. n2 : k \in 1 .. n \/ list[k] = entry
  <2>1. CASE t = <<>>
    BY <1>1, <1>2, <1>4, <1>8, <2>1 DEF OneMore
  <2>2. CASE t # <<>>
    <3>1. list = Append(c.list, entry) /\ n2 = n + 1
      BY <1>4, <1>8, <2>2 DEF OneMore
    <3>2. /\ list \in Seq(Entry) /\ Len(list) = n + 1 /\ list[n + 1] = entry
          /\ \A k \in 1 .. n : list[k] = c.list[k]
      BY <1>1, <1>2, <3>1
    <3>3. \A k \in 1 .. n + 1 : k \in 1 .. n \/ k = n + 1
      OBVIOUS
    <3> QED
      BY <3>1, <3>2, <3>3
  <2> QED
    BY <2>1, <2>2
<1>10. a = [c EXCEPT !.list = list, !.offset = n2, !.text = <<>>, !.point = 0]
  BY <1>3, <1>7, <1>8, <1>9 DEF NextLine, FreeSaved
<1>11. /\ a \in Editor /\ a.list = list /\ a.offset = n2 /\ a.rec = c.rec /\ a.undo = NULL
       /\ a.saved = <<>>
  <2>1. <<>> \in Text /\ 0 \in Nat
    BY DEF Text
  <2>2. PICK none \in Text, zero \in Nat : none = <<>> /\ zero = 0
    BY <2>1
  <2>3. a = [c EXCEPT !.list = list, !.offset = n2, !.text = none, !.point = zero]
    BY <1>10, <2>2
  <2>4. /\ a.list = list /\ a.offset = n2 /\ a.rec = c.rec /\ a.undo = c.undo
        /\ a.saved = c.saved
    BY <1>1, <2>3 DEF Editor
  <2>5. a \in Editor
    BY <1>1, <1>6, <1>9, <2>2, <2>3 DEF Editor, Text
  <2> QED
    BY <2>4, <2>5
<1>12. Fine(a) /\ ~OnEntry(a)
  BY <1>1, <1>6, <1>9, <1>11 DEF Fine, OnEntry
<1>13. Of(c.rec, NULL) = {}
  BY <1>1, OfFacts
<1>14. /\ \A k \in 1 .. n : EntryRecs(a, k) = EntryRecs(c, k)
       /\ \A k \in 1 .. n2 : k \notin 1 .. n => EntryRecs(a, k) = {}
       /\ LineRecs(a) = {} /\ SavedRecs(a) = {}
  BY <1>7, <1>9, <1>11, <1>13 DEF EntryRecs, LineRecs, SavedRecs
<1>15. \A k \in 1 .. n2 : Takes(a.rec, a.list[k].data, a.list[k].line, p[k])
  <2> TAKE k \in 1 .. n2
  <2>1. CASE k \in 1 .. n
    BY <1>1, <1>2, <1>6, <1>9, <1>11, <2>1 DEF Spread, Longer
  <2>2. CASE k \notin 1 .. n
    <3>1. a.list[k].data = NULL /\ a.list[k].line = t /\ p[k] = t
      BY <1>6, <1>7, <1>9, <1>11, <2>2 DEF Longer
    <3> QED
      BY <3>1, TakesNone
  <2> QED
    BY <2>1, <2>2
<1>16. \A k \in 1 .. n2 : EntryRecs(a, k) \subseteq InUse(a.rec)
  BY <1>1, <1>2, <1>11, <1>14 DEF Spread
<1>17. \A k, m \in 1 .. n2 : k # m => EntryRecs(a, k) \cap EntryRecs(a, m) = {}
  <2>1. \A k, m \in 1 .. n : k # m => EntryRecs(c, k) \cap EntryRecs(c, m) = {}
    BY <1>1, <1>2 DEF Spread
  <2> QED
    BY <1>14, <2>1
<1>18. Spread(a, p)
  BY <1>6, <1>9, <1>11, <1>12, <1>15, <1>16, <1>17 DEF Spread
<1> QED
  BY <1>6, <1>12, <1>14, <1>18 DEF Loose, Clear

\* Accepting the line keeps the entries, also when one is in view.
LEMMA AcceptLoose ==
  ASSUME NEW e, NEW o \in Seq(Text), Intact(e, o), PointIn(e),
         NEW a, a = Accepted(e, FALSE), NEW p, p = o \o NewLine(e.text)
  PROVE  Loose(a, p) /\ p \in Seq(Text)
<1>1. Loose(e, o) /\ Spread(e, o) /\ Fine(e) /\ e \in Editor /\ Len(o) = Len(e.list) /\ e.text \in Text
  BY Parts DEF Intact, Loose, Spread, Fine
<1>2. CASE OnEntry(e)
  <2>1. PICK x, v : v \in Seq(Text) /\ Len(v) = Len(e.list) + 1 /\ Kept(e, Based(x, o), v, FALSE)
    BY <1>2, WholeKept DEF Intact
  <2>2. PICK kept : ExpectedLines(e, o, v, FALSE, kept)
    BY DEF ExpectedLines
  <2>3. PICK p2 : AddsLine(o, e.text, p, p2)
    BY DEF AddsLine
  <2>4. PICK w2, w : AddsLine(kept, e.text, w2, w)
    BY DEF AddsLine
  <2>5. FALSE \in BOOLEAN
    OBVIOUS
  <2>6. Kept(a, Based(<<>>, p), w, FALSE) /\ OneEntryMore(e, a, p, w)
    BY <1>1, <2>1, <2>2, <2>3, <2>4, <2>5, AcceptedKept
  <2>7. Len(p) = Len(a.list) /\ p \in Seq(Text)
    BY <2>6 DEF OneEntryMore
  <2>8. Loose(a, p)
    BY <2>6, <2>7, KeptLoose
  <2> QED
    BY <2>7, <2>8
<1>3. CASE ~OnEntry(e)
  <2>1. Clear(e, LineRecs(e)) /\ Clear(e, SavedRecs(e)) /\ SavedRecs(e) \cap LineRecs(e) = {}
    BY <1>1, <1>3 DEF Loose
  <2>2. PICK f : f = FreeUndoList(e)
    OBVIOUS
  <2>3. /\ Spread(f, o) /\ Clear(f, SavedRecs(f)) /\ LineRecs(f) = {} /\ f.undo = NULL
        /\ f.list = e.list /\ f.offset = e.offset /\ f.text = e.text
    BY <1>1, <2>1, <2>2, FreeUndoLoose
  <2>4. ~OnEntry(f)
    BY <1>3, <2>3 DEF OnEntry
  <2>5. Loose(f, o)
    BY <2>3, <2>4 DEF Loose, Clear
  <2>6. PICK c : c = FreeSaved(f)
    OBVIOUS
  <2>7. /\ Loose(c, o) /\ ~OnEntry(c) /\ c.saved = <<>> /\ c.text = e.text /\ c.list = e.list
        /\ c.undo = NULL
    BY <2>3, <2>4, <2>5, <2>6, FreeSavedLoose
  <2>8. a = NextLine(f)
    BY <1>3, <2>2 DEF Accepted, Restored
  <2>9. NextLine(f) = NextLine(c)
    <3>1. FreeSaved(c) = c
      BY <2>7 DEF FreeSaved
    <3> QED
      BY <2>3, <2>6, <2>7, <3>1 DEF NextLine
  <2> QED
    BY <2>7, <2>8, <2>9, NextLineLoose
<1> QED
  BY <1>2, <1>3

-----------------------------------------------------------------------------
(* The invariant of the entries *)

\* The line as it was before an incremental search.
Behind(e, md, c) == IF md = "isearch" THEN Before(e, c) ELSE e

\* As long as no search that is not incremental began with an entry in view, the
\* entries are kept.
Entries(e, md, c, o, u) ==
  ~u.onEntry => /\ o \in Seq(Text) /\ Intact(Behind(e, md, c), o)
                /\ md = "nsearch" => ~OnEntry(e)

\* In each mode.
LEMMA EntriesIn ==
  ASSUME NEW e, NEW c, NEW o, NEW u
  PROVE  /\ Entries(e, "edit", c, o, u) <=> (~u.onEntry => o \in Seq(Text) /\ Intact(e, o))
         /\ Entries(e, "accepted", c, o, u) <=> (~u.onEntry => o \in Seq(Text) /\ Intact(e, o))
         /\ Entries(e, "isearch", c, o, u)
              <=> (~u.onEntry => o \in Seq(Text) /\ Intact(Before(e, c), o))
         /\ Entries(e, "nsearch", c, o, u)
              <=> (~u.onEntry => o \in Seq(Text) /\ Intact(e, o) /\ ~OnEntry(e))
  BY DEF Entries, Behind

\* Forgetting what no list holds.
LEMMA SweptIntact ==
  ASSUME NEW e, NEW o, Loose(e, o), NEW d, d = Swept(e)
  PROVE  Intact(d, o)
  BY SweptWhole DEF Intact, Whole

\* The line in view is left in its entry, if it is one.
LEMMA ReplacedIntact ==
  ASSUME NEW e, NEW o, Intact(e, o), NEW d, d = MaybeReplace(e)
  PROVE  Intact(d, o)
<1>1. CASE ~OnEntry(e)
  <2>1. d = e
    BY <1>1 DEF MaybeReplace
  <2> QED
    BY <2>1
<1>2. CASE OnEntry(e)
  <2>1. Loose(e, o) /\ Fine(e) /\ InUse(e.rec) \subseteq Held(e) /\ InEntry(e, o)
    BY <1>2 DEF Intact, Whole, Loose, Spread
  <2>2. Loose(d, o)
    BY <1>2, <2>1, ReplacedLoose
  <2>3. /\ Fine(d) /\ Len(d.list) = Len(e.list) /\ d.offset = e.offset /\ d.undo = e.undo
        /\ d.saved = e.saved /\ d.rec = e.rec
        /\ \A k \in 1 .. Len(e.list) : k # Place(e) => d.list[k] = e.list[k]
    BY <2>1, ReplaceFine DEF Besides
  <2>4. LineRecs(d) = LineRecs(e) /\ SavedRecs(d) = SavedRecs(e)
    BY <2>3 DEF LineRecs, SavedRecs
  <2>5. \A k \in 1 .. Len(e.list) :
          EntryRecs(e, k) \subseteq LineRecs(e) \/ EntryRecs(d, k) = EntryRecs(e, k)
    BY <2>1, <2>3 DEF InEntry, EntryRecs
  <2>6. Held(e) \subseteq Held(d)
    <3>1. \A i : i \in Held(e) <=> \/ i \in LineRecs(e) \/ i \in SavedRecs(e)
                                   \/ \E k \in 1 .. Len(e.list) : i \in EntryRecs(e, k)
      BY <2>1, HeldParts
    <3>2. \A i : i \in Held(d) <=> \/ i \in LineRecs(d) \/ i \in SavedRecs(d)
                                   \/ \E k \in 1 .. Len(d.list) : i \in EntryRecs(d, k)
      BY <2>3, HeldParts
    <3> QED
      BY <2>3, <2>4, <2>5, <3>1, <3>2
  <2> QED
    BY <2>1, <2>2, <2>3, <2>6 DEF Intact, Whole
<1> QED
  BY <1>1, <1>2

\* The first line begins with the entries.
LEMMA InitEntries ==
  ASSUME Init
  PROVE  Entries(editor, mode, context, original, used)
<1>1. PICK history \in Histories : editor = Opened(history) /\ original = history
  BY DEF Init
<1>2. history \in Seq(Text)
  <2>1. history \in Seq(Seq(Char) \ {<<>>})
    BY <1>1, HistorySearchAssumption
  <2> QED
    BY <2>1 DEF Text
<1>3. PICK v : v = Append(history, <<>>)
  OBVIOUS
<1>4. Kept(editor, Based(<<>>, history), v, FALSE) /\ Len(history) = Len(editor.list)
  BY <1>1, <1>2, <1>3, OpenedKept
<1>5. Loose(editor, history)
  BY <1>4, KeptLoose
<1>6. ~OnEntry(editor)
  <2>1. editor.offset = Len(history)
    BY <1>1 DEF Opened
  <2>2. Len(history) \in Nat
    BY <1>2
  <2> QED
    BY <1>4, <2>1, <2>2 DEF OnEntry
<1>7. mode = "edit"
  BY DEF Init
<1> QED
  BY <1>1, <1>2, <1>5, <1>6, <1>7, EntriesIn DEF Intact

\* Beginning an incremental search keeps the entries.
LEMMA ISearchEntries ==
  ASSUME Entries(editor, "edit", context, original, used), Editing(editor, memory, typed, used),
         ~Dangling(editor), ISearch
  PROVE  Entries(editor', "isearch", context', original', used')
<1>1. Fine(editor) /\ used \in Uses
  BY DEF Editing
<1>2. PICK r \in BOOLEAN :
        /\ MaybeReplace(editor).text
             = Lines(MaybeReplace(editor), ISearchContext(MaybeReplace(editor), r))
                 [ISearchContext(MaybeReplace(editor), r).start + 1]
        /\ editor' = MaybeReplace(editor) /\ context' = ISearchContext(MaybeReplace(editor), r)
  BY DEF ISearch
<1>3. PICK e, c, w : e = editor' /\ c = context' /\ w = used'
  OBVIOUS
<1>4. e = MaybeReplace(editor) /\ c = ISearchContext(e, r) /\ e.text = Lines(e, c)[c.start + 1]
  BY <1>2, <1>3
<1>5. Fine(e) /\ c.point = e.point
  BY <1>1, <1>4, ReplaceFine DEF Besides, ISearchContext
<1>6. Before(e, c) = e
  BY <1>4, <1>5 DEF Before, Fine, Editor
<1>7. w.onEntry = used.onEntry /\ original' = original
  BY <1>1, <1>3 DEF ISearch, Uses
<1>8. ~used.onEntry => original \in Seq(Text) /\ Intact(e, original)
  BY <1>4, EntriesIn, ReplacedIntact
<1> QED
  BY <1>3, <1>6, <1>7, <1>8, EntriesIn

\* The keys of the search do.
LEMMA SearchOnEntries ==
  ASSUME Entries(editor, "isearch", context, original, used),
         Before(editor', context') = Before(editor, context), NEW k, SearchOn(k)
  PROVE  Entries(editor', "isearch", context', original', used')
<1>1. original' = original /\ used' = used
  BY DEF SearchOn
<1> QED
  BY <1>1, EntriesIn

\* C-g in an incremental search keeps the entries.
LEMMA AbortEntries ==
  ASSUME Entries(editor, "isearch", context, original, used),
         editor' = Before(editor, context), ISearchAbort
  PROVE  Entries(editor', "edit", context', original', used')
<1>1. original' = original /\ used' = used
  BY DEF ISearchAbort
<1> QED
  BY <1>1, EntriesIn

\* The move to the line found keeps them.
LEMMA EndEntries ==
  ASSUME Entries(editor, "isearch", context, original, used),
         InSearch(editor, context, memory, typed, used), ISearchEnd
  PROVE  Entries(editor', "edit", context', original', used')
<1>1. PICK lines, o : lines = Lines(editor, context) /\ o = original
  OBVIOUS
<1>2. /\ Fine(editor) /\ editor \in Editor /\ lines \in Seq(Text) /\ context.start \in 0 .. Len(lines) - 1
      /\ context.point \in Nat /\ context.at \in Nat /\ context.found \in 0 .. Len(lines) - 1
  BY <1>1, InSearchIs DEF Fine
<1>3. PICK b : b = Before(editor, context)
  OBVIOUS
<1>4. b \in Editor /\ b.text = lines[context.start + 1] /\ b.text \in Text
  BY <1>1, <1>2, <1>3, BeforeIs
<1>5. PICK back : back = PutBack(editor, context)
  OBVIOUS
<1>6. PICK x \in Text, p \in Nat, q \in Nat : x = b.text /\ p = editor.point /\ q = context.point
  BY <1>2, <1>4 DEF Editor
<1>7. PointSet(b, back, p)
  <2>1. back = [editor EXCEPT !.text = x]
    BY <1>1, <1>4, <1>5, <1>6 DEF PutBack
  <2>2. b = [editor EXCEPT !.text = x, !.point = q]
    BY <1>1, <1>3, <1>4, <1>6 DEF Before
  <2> QED
    BY <1>2, <1>6, <2>1, <2>2 DEF PointSet, Editor
<1>8. PICK s \in Nat, f \in Nat : s = context.start /\ f = context.found
  BY <1>2
<1>9. PICK e : e = IF f < s THEN Backward(back, s - f)
                   ELSE IF f > s THEN Forward(back, f - s) ELSE back
  OBVIOUS
<1>10. PICK d : d = PointAt(e, context.at)
  OBVIOUS
<1>11. editor' = Swept(d) /\ used' = used /\ original' = original
  BY <1>5, <1>8, <1>9, <1>10 DEF ISearchEnd
<1>12. ASSUME ~used.onEntry
       PROVE  o \in Seq(Text) /\ Intact(editor', o)
  <2>1. o \in Seq(Text) /\ Loose(b, o)
    BY <1>1, <1>3, <1>12, EntriesIn DEF Intact
  <2>2. Loose(back, o)
    BY <1>6, <1>7, <2>1, PointLoose
  <2>3. Loose(e, o)
    <3>1. CASE f < s
      <4>1. PICK n \in Nat : n = s - f /\ n # 0
        BY <1>8, <3>1
      <4>2. e = Backward(back, n)
        BY <1>9, <3>1, <4>1
      <4> QED
        BY <2>2, <4>1, <4>2, BackwardLoose
    <3>2. CASE f > s
      <4>1. PICK n \in Nat : n = f - s /\ n # 0
        BY <1>8, <3>2
      <4>2. e = Forward(back, n)
        BY <1>8, <1>9, <3>2, <4>1
      <4> QED
        BY <2>2, <4>1, <4>2, ForwardLoose
    <3>3. CASE f = s
      BY <1>8, <1>9, <2>2, <3>3
    <3> QED
      BY <1>8, <3>1, <3>2, <3>3
  <2>4. Fine(e)
    BY <2>3, LooseHeld
  <2>5. /\ Fine(d) /\ d.text = e.text /\ d.undo = e.undo /\ d.list = e.list /\ d.offset = e.offset
        /\ d.saved = e.saved /\ d.rec = e.rec
    <3>1. PICK a \in Nat : a = context.at
      BY <1>2
    <3>2. PointedAt(e, d, a)
      BY <1>10, <3>1 DEF PointedAt
    <3> QED
      BY ONLY <2>4, <3>1, <3>2, PointAtIs
  <2>6. Loose(d, o)
    BY <2>3, <2>5, LooseStays
  <2> QED
    BY <1>11, <2>1, <2>6, SweptIntact
<1> QED
  BY <1>1, <1>11, <1>12, EntriesIn

\* Beginning a search that is not incremental keeps the entries.
LEMMA NSearchEntries ==
  ASSUME Entries(editor, "edit", context, original, used), Editing(editor, memory, typed, used),
         NSearch
  PROVE  Entries(editor', "nsearch", context', original', used')
<1>1. PICK d, f, o, w : d = Emptied(editor) /\ f = editor' /\ o = original /\ w = used'
  OBVIOUS
<1>2. f = Swept(d) /\ original' = o /\ w = SearchUsed
  BY <1>1 DEF NSearch, Emptied
<1>3. used \in Uses /\ Fine(editor)
  BY DEF Editing
<1>4. ASSUME ~w.onEntry
      PROVE  o \in Seq(Text) /\ Intact(f, o) /\ ~OnEntry(f)
  <2>1. ~used.onEntry /\ ~OnEntry(editor)
    BY <1>2, <1>3, <1>4, SearchUsedIs
  <2>2. o \in Seq(Text) /\ Loose(editor, o)
    BY <1>1, <2>1, EntriesIn DEF Intact
  <2>3. Loose(d, o) /\ ~OnEntry(d)
    BY <1>1, <2>1, <2>2, EmptiedLoose
  <2>4. f.offset = d.offset /\ f.list = d.list
    BY <1>2, <2>3, LooseHeld, SweptIs DEF Sweeps
  <2>5. Intact(f, o)
    BY <1>2, <2>3, SweptIntact
  <2> QED
    BY <2>2, <2>3, <2>4, <2>5 DEF OnEntry
<1> QED
  BY <1>1, <1>2, <1>4, EntriesIn

\* A character of the string does.
LEMMA NSearchCharEntries ==
  ASSUME Entries(editor, "nsearch", context, original, used),
         InString(editor, context, memory, typed, used), ~Dangling(editor), NSearchChar
  PROVE  Entries(editor', "nsearch", context', original', used')
<1>1. PICK d, o : d = editor' /\ o = original
  OBVIOUS
<1>2. PICK c \in Char : d = InsertText(editor, <<c>>)
  BY <1>1 DEF NSearchChar
<1>3. PICK new \in Text : new = <<c>>
  <2>1. <<c>> \in Text
    BY <1>2 DEF Text
  <2> QED
    BY <2>1
<1>4. PointIn(editor) /\ RoomFor(editor, 2)
  BY DEF InString, Editing, NSearchChar, Room, RoomFor
<1>5. original' = o /\ used' = used
  BY <1>1 DEF NSearchChar
<1>6. ASSUME ~used.onEntry
      PROVE  o \in Seq(Text) /\ Intact(d, o) /\ ~OnEntry(d)
  <2>1. o \in Seq(Text) /\ Loose(editor, o) /\ ~OnEntry(editor)
    BY <1>1, <1>6, EntriesIn DEF Intact
  <2>2. Loose(d, o) /\ ~OnEntry(d)
    BY <1>2, <1>3, <1>4, <2>1, InsertLoose
  <2> QED
    BY <2>1, <2>2 DEF Intact
<1> QED
  BY <1>1, <1>5, <1>6, EntriesIn

\* Taking back a part of it does.
LEMMA NSearchRuboutEntries ==
  ASSUME Entries(editor, "nsearch", context, original, used),
         InString(editor, context, memory, typed, used), ~Dangling(editor), NSearchRubout
  PROVE  Entries(editor', "nsearch", context', original', used')
<1>1. PICK d, o : d = editor' /\ o = original
  OBVIOUS
<1>2. PICK x \in Text : x = editor.text /\ x # <<>>
  BY DEF NSearchRubout, InString, Editing, Fine, Editor, Text
<1>3. PICK from \in {0, Len(x) - 1} : d = DeleteText(editor, from, Len(x))
  BY <1>1, <1>2 DEF NSearchRubout
<1>4. RoomFor(editor, 2)
  BY RuboutRoom DEF NSearchRubout
<1>5. original' = o /\ used' = used
  BY <1>1 DEF NSearchRubout
<1>6. from \in 0 .. Len(x) /\ Len(x) \in Nat
  <2>1. Len(x) \in Nat /\ Len(x) # 0
    BY <1>2, TextLen DEF Text
  <2> QED
    BY <1>3, <2>1
<1>7. ASSUME ~used.onEntry
      PROVE  o \in Seq(Text) /\ Intact(d, o) /\ ~OnEntry(d)
  <2>1. o \in Seq(Text) /\ Loose(editor, o) /\ ~OnEntry(editor)
    BY <1>1, <1>7, EntriesIn DEF Intact
  <2>2. PICK to \in Nat : to = Len(x)
    BY <1>6
  <2>3. Loose(d, o) /\ ~OnEntry(d)
    BY <1>2, <1>3, <1>4, <1>6, <2>1, <2>2, DeleteLoose
  <2> QED
    BY <2>1, <2>3 DEF Intact
<1> QED
  BY <1>1, <1>5, <1>7, EntriesIn

\* C-g in it does.
LEMMA NSearchAbortEntries ==
  ASSUME Entries(editor, "nsearch", context, original, used),
         InString(editor, context, memory, typed, used), NSearchAbort
  PROVE  Entries(editor', "edit", context', original', used')
<1>1. PICK e, d, o : e = MaybeUnsave(editor) /\ d = PointAt(e, context.point) /\ o = original
  OBVIOUS
<1>2. editor' = Swept(d) /\ original' = o /\ used' = used
  BY <1>1 DEF NSearchAbort
<1>3. ASSUME ~used.onEntry
      PROVE  o \in Seq(Text) /\ Intact(editor', o)
  <2>1. o \in Seq(Text) /\ Loose(editor, o) /\ ~OnEntry(editor)
    BY <1>1, <1>3, EntriesIn DEF Intact
  <2>2. Spread(editor, o) /\ Clear(editor, SavedRecs(editor)) /\ Clear(editor, LineRecs(editor))
    BY <2>1 DEF Loose
  <2>3. Loose(e, o)
    BY <1>1, <2>1, <2>2, UnsaveClosed
  <2>4. Fine(e)
    BY <2>3, LooseHeld
  <2>5. /\ Fine(d) /\ d.text = e.text /\ d.undo = e.undo /\ d.list = e.list /\ d.offset = e.offset
        /\ d.saved = e.saved /\ d.rec = e.rec
    <3>1. PICK a \in Nat : a = context.point
      BY DEF InString
    <3>2. PointedAt(e, d, a)
      BY <1>1, <3>1 DEF PointedAt
    <3> QED
      BY ONLY <2>4, <3>1, <3>2, PointAtIs
  <2>6. Loose(d, o)
    BY <2>3, <2>5, LooseStays
  <2> QED
    BY <1>2, <2>1, <2>6, SweptIntact
<1> QED
  BY <1>1, <1>2, <1>3, EntriesIn

\* The search for the string keeps the entries.
LEMMA ReturnEntries ==
  ASSUME Entries(editor, "nsearch", context, original, used),
         InString(editor, context, memory, typed, used), NSearchReturn
  PROVE  Entries(editor', "edit", context', original', used')
<1>1. /\ Fine(editor) /\ memory \in Memories /\ context.reverse \in BOOLEAN
      /\ context.start = editor.offset
  BY DEF InString, Editing, Remembered
<1>2. RoomFor(editor, 4) /\ original' = original /\ used' = used
  BY DEF NSearchReturn, Room, RoomFor
<1>3. PICK f, o : f = editor' /\ o = original
  OBVIOUS
<1>4. PICK reverse \in BOOLEAN, start \in Nat : reverse = context.reverse /\ start = context.start
  BY <1>1 DEF Fine, Editor
<1>5. ASSUME ~used.onEntry
      PROVE  o \in Seq(Text) /\ Intact(f, o)
  <2>1. o \in Seq(Text) /\ Intact(editor, o) /\ Loose(editor, o) /\ ~OnEntry(editor)
    BY <1>3, <1>5, EntriesIn DEF Intact
  <2>2. CASE editor.text # <<>>
    <3>1. PICK e : e = FreeUndoList(editor)
      OBVIOUS
    <3>2. PICK s : s = NSearchFrom(e, editor.text, start, reverse)
      OBVIOUS
    <3>3. f = Swept(s.ed)
      BY <1>3, <1>4, <2>2, <3>1, <3>2 DEF NSearchReturn
    <3>4. /\ Spread(editor, o) /\ Clear(editor, LineRecs(editor)) /\ Clear(editor, SavedRecs(editor))
          /\ SavedRecs(editor) \cap LineRecs(editor) = {}
      BY <2>1 DEF Loose
    <3>5. /\ Spread(e, o) /\ Clear(e, SavedRecs(e)) /\ LineRecs(e) = {} /\ e.list = editor.list
          /\ e.offset = editor.offset
      BY <3>1, <3>4, FreeUndoLoose
    <3>6. ~OnEntry(e)
      BY <2>1, <3>5 DEF OnEntry
    <3>7. Loose(e, o)
      BY <3>5, <3>6 DEF Loose, Clear
    <3>8. Besides(editor, e) /\ FreeIds(editor) \subseteq FreeIds(e)
      BY <1>1, <3>1, FreeUndoFine DEF Unlisted
    <3>9. RoomFor(e, 4)
      BY <1>1, <1>2, <3>8, MoreRoom DEF Besides
    <3>10. Loose(s.ed, o)
      BY <3>2, <3>6, <3>7, <3>9, NSearchFromLoose
    <3> QED
      BY <2>1, <3>3, <3>10, SweptIntact
  <2>3. CASE editor.text = <<>> /\ memory.nsearch # NoString
    <3>1. PICK s : s = NSearchFrom(editor, memory.nsearch, memory.pos, reverse)
      OBVIOUS
    <3>2. f = Swept(s.ed)
      BY <1>3, <1>4, <2>3, <3>1 DEF NSearchReturn
    <3>3. memory.pos \in Nat
      BY <1>1 DEF Memories
    <3>4. Loose(s.ed, o)
      BY <1>2, <2>1, <3>1, <3>3, NSearchFromLoose
    <3> QED
      BY <2>1, <3>2, <3>4, SweptIntact
  <2>4. CASE editor.text = <<>> /\ memory.nsearch = NoString
    BY <1>3, <2>1, <2>4 DEF NSearchReturn
  <2> QED
    BY <2>2, <2>3, <2>4
<1> QED
  BY <1>2, <1>3, <1>5, EntriesIn

\* So does the search for the last string again.
LEMMA NSearchAgainEntries ==
  ASSUME Entries(editor, "edit", context, original, used), Editing(editor, memory, typed, used),
         NSearchAgain
  PROVE  Entries(editor', "edit", context', original', used')
<1>1. /\ Fine(editor) /\ used \in Uses /\ memory \in Memories
  BY DEF Editing, Remembered
<1>2. RoomFor(editor, 4) /\ memory.pos \in Nat
  BY <1>1 DEF NSearchAgain, Room, RoomFor, Memories
<1>3. PICK r \in BOOLEAN :
        editor' = Swept(NSearchFrom(editor, memory.nsearch, memory.pos, r).ed)
  BY DEF NSearchAgain
<1>4. PICK s : s = NSearchFrom(editor, memory.nsearch, memory.pos, r)
  OBVIOUS
<1>5. PICK f, o, w : f = editor' /\ o = original /\ w = used'
  OBVIOUS
<1>6. f = Swept(s.ed) /\ w = SearchUsed /\ original' = o
  BY <1>3, <1>4, <1>5 DEF NSearchAgain
<1>7. ASSUME ~w.onEntry
      PROVE  o \in Seq(Text) /\ Intact(f, o)
  <2>1. ~used.onEntry /\ ~OnEntry(editor)
    BY <1>1, <1>6, <1>7, SearchUsedIs
  <2>2. o \in Seq(Text) /\ Loose(editor, o)
    BY <1>5, <2>1, EntriesIn DEF Intact
  <2>3. Loose(s.ed, o)
    BY <1>2, <1>4, <2>1, <2>2, NSearchFromLoose
  <2> QED
    BY <1>6, <2>2, <2>3, SweptIntact
<1> QED
  BY <1>5, <1>6, <1>7, EntriesIn

\* And the search for the entries with the beginning of the line, or a move.
LEMMA HistorySearchEntries ==
  ASSUME Entries(editor, "edit", context, original, used), Editing(editor, memory, typed, used),
         HistorySearch
  PROVE  Entries(editor', "edit", context', original', used')
<1>1. /\ Fine(editor) /\ used \in Uses /\ memory \in Memories
      /\ memory.last.pos <= Len(editor.list)
      /\ memory.last.kind # "other" => Prefixed(editor, memory.last)
      /\ ~Dangling(editor) => PointIn(editor)
  BY DEF Editing, Remembered
<1>2. PICK kind \in {"prefix", "substring"}, reverse \in BOOLEAN :
       LET anew == memory.last.kind # kind
           e == IF anew THEN FreeSaved(editor) ELSE editor
           s == IF anew THEN NewSearch(memory, editor, kind) ELSE memory.last
           found == IF s.string # <<>> THEN HistorySearchFrom(e, s, reverse)
                    ELSE [ed |-> IF reverse THEN Backward(e, 1) ELSE Forward(e, 1), search |-> s]
       IN  /\ editor' = Swept(found.ed)
           /\ memory' = [memory EXCEPT !.last = found.search]
  BY DEF HistorySearch
<1>3. PICK e, s : /\ e = IF memory.last.kind # kind THEN FreeSaved(editor) ELSE editor
                  /\ s = IF memory.last.kind # kind THEN NewSearch(memory, editor, kind) ELSE memory.last
  OBVIOUS
<1>4. PICK r : r = IF s.string # <<>> THEN HistorySearchFrom(e, s, reverse)
                   ELSE [ed |-> IF reverse THEN Backward(e, 1) ELSE Forward(e, 1), search |-> s]
  OBVIOUS
<1>5. PICK f, o, w : f = editor' /\ o = original /\ w = used'
  OBVIOUS
<1>6. f = Swept(r.ed)
  BY <1>2, <1>3, <1>4, <1>5
<1>7. w = SearchUsed /\ original' = o /\ RoomFor(editor, 4)
  BY <1>5 DEF HistorySearch, Room, RoomFor
<1>8. ASSUME ~w.onEntry
      PROVE  o \in Seq(Text) /\ Intact(f, o)
  <2>1. ~used.onEntry /\ ~OnEntry(editor)
    BY <1>1, <1>7, <1>8, SearchUsedIs
  <2>2. o \in Seq(Text) /\ Loose(editor, o)
    BY <1>5, <2>1, EntriesIn DEF Intact
  <2>3. PointIn(editor)
    BY <1>1, <2>2, LooseHeld
  <2>4. PICK n \in Nat : n = Len(editor.list)
    BY <1>1 DEF Fine, Editor
  <2>5. /\ Loose(e, o) /\ ~OnEntry(e) /\ RoomFor(e, 4) /\ Len(e.list) = n /\ Asked(s, n)
        /\ Fine(e) /\ (s.string # <<>> => Begins(e, s))
    <3>1. CASE memory.last.kind # kind
      <4>1. e = FreeSaved(editor) /\ s = NewSearch(memory, editor, kind)
        BY <1>3, <3>1
      <4>2. /\ Besides(editor, e) /\ e.text = editor.text /\ e.saved = <<>>
            /\ FreeIds(editor) \subseteq FreeIds(e)
        BY <1>1, <4>1, FreeSavedFine
      <4>3. Fine(e) /\ Len(e.list) = n /\ RoomFor(e, 4)
        BY <1>1, <1>7, <2>4, <4>2, MoreRoom DEF Besides
      <4>4. Loose(e, o) /\ ~OnEntry(e)
        BY <2>1, <2>2, <4>1, FreeSavedLoose
      <4>5. Asked(s, n) /\ Begins(e, s)
        BY <1>1, <2>3, <2>4, <4>1, <4>2, <4>3, NewSearchIs
      <4> QED
        BY <4>3, <4>4, <4>5
    <3>2. CASE memory.last.kind = kind
      <4>1. e = editor /\ s = memory.last
        BY <1>3, <3>2
      <4>2. Asked(s, n)
        BY <1>1, <2>4, <3>2, <4>1 DEF Memories, Asked
      <4>3. s.string # <<>> => Begins(e, s)
        BY <1>1, <2>2, <3>2, <4>1, LooseHeld DEF Prefixed, Begins
      <4> QED
        BY <1>1, <1>7, <2>1, <2>2, <2>4, <4>1, <4>2, <4>3
    <3> QED
      BY <3>1, <3>2
  <2>6. Loose(r.ed, o)
    <3>1. CASE s.string # <<>>
      <4>1. r = HistorySearchFrom(e, s, reverse)
        BY <1>4, <3>1
      <4>2. PICK d, p : Loose(d, o) /\ PointSet(d, r.ed, p)
        BY <2>5, <4>1, HistorySearchFromLoose
      <4>3. r.ed \in Editor
        BY <2>5, <3>1, <4>1, HistorySearchFromIs DEF Fine
      <4>4. p \in Nat
        <5>1. d \in Editor
          BY <4>2, LooseHeld DEF Fine
        <5>2. r.ed.point = p
          BY <4>2, <5>1 DEF PointSet, Editor
        <5> QED
          BY <4>3, <5>2 DEF Editor
      <4> QED
        BY <4>2, <4>4, PointLoose
    <3>2. CASE s.string = <<>>
      <4>1. PICK d : d = IF reverse THEN Backward(e, 1) ELSE Forward(e, 1)
        OBVIOUS
      <4>2. r = [ed |-> d, search |-> s]
        BY <1>4, <3>2, <4>1
      <4>3. 1 \in Nat /\ 1 # 0
        OBVIOUS
      <4>4. Loose(d, o)
        BY <2>5, <4>1, <4>3, BackwardLoose, ForwardLoose
      <4> QED
        BY <4>2, <4>4
    <3> QED
      BY <3>1, <3>2
  <2> QED
    BY <1>6, <2>2, <2>6, SweptIntact
<1> QED
  BY <1>5, <1>7, <1>8, EntriesIn

\* Typing keeps the entries, also when it is into one.
LEMMA TypeEntries ==
  ASSUME Entries(editor, "edit", context, original, used), Editing(editor, memory, typed, used),
         ~Dangling(editor), Type
  PROVE  Entries(editor', "edit", context', original', used')
<1>1. Fine(editor) /\ PointIn(editor) /\ RoomFor(editor, 2)
  BY DEF Editing, Type, Room, RoomFor
<1>2. PICK f, o : f = editor' /\ o = original
  OBVIOUS
<1>3. PICK c \in Char : f = InsertText(editor, <<c>>)
  BY <1>2, HistorySearchAssumption DEF Type
<1>4. PICK new \in Text : new = <<c>>
  <2>1. <<c>> \in Text
    BY <1>3 DEF Text
  <2> QED
    BY <2>1
<1>5. used' = used /\ original' = o
  BY <1>2 DEF Type
<1>6. ASSUME ~used.onEntry
      PROVE  o \in Seq(Text) /\ Intact(f, o)
  <2>1. o \in Seq(Text) /\ Intact(editor, o)
    BY <1>2, <1>6, EntriesIn
  <2>2. CASE OnEntry(editor)
    <3>1. Unchanged(editor)
      BY <1>1, <2>2, Parts DEF Type, Unchanged, Fine
    <3> QED
      BY <1>1, <1>3, <1>4, <2>1, <2>2, <3>1, InsertInEntry
  <2>3. CASE ~OnEntry(editor)
    <3>1. Loose(f, o) /\ ~OnEntry(f)
      BY <1>1, <1>3, <1>4, <2>1, <2>3, InsertLoose DEF Intact
    <3> QED
      BY <2>1, <3>1 DEF Intact
  <2> QED
    BY <2>2, <2>3
<1> QED
  BY <1>2, <1>5, <1>6, EntriesIn

\* Moving in the line does.
LEMMA MoveEntries ==
  ASSUME Entries(editor, "edit", context, original, used), Editing(editor, memory, typed, used), Move
  PROVE  Entries(editor', "edit", context', original', used')
<1>1. PICK x \in Text : x = editor.text
  BY DEF Editing, Fine, Editor, Text
<1>2. PICK f, o : f = editor' /\ o = original
  OBVIOUS
<1>3. PICK p \in Nat : PointSet(editor, f, p)
  BY <1>1, <1>2, TextLen DEF Move, PointSet
<1>4. used' = used /\ original' = o
  BY <1>2 DEF Move
<1>5. ASSUME ~used.onEntry
      PROVE  o \in Seq(Text) /\ Intact(f, o)
  <2>1. o \in Seq(Text) /\ Intact(editor, o) /\ Loose(editor, o)
    BY <1>2, <1>5, EntriesIn DEF Intact
  <2>2. Loose(f, o) /\ (Whole(editor, o) => Whole(f, o))
    BY <1>3, <2>1, PointLoose
  <2>3. f.offset = editor.offset /\ f.list = editor.list
    BY <1>3, <2>1, LooseHeld, PointSetIs
  <2> QED
    BY <2>1, <2>2, <2>3 DEF Intact, OnEntry
<1> QED
  BY <1>2, <1>4, <1>5, EntriesIn

\* Moving in the history does.
LEMMA MoveInHistoryEntries ==
  ASSUME Entries(editor, "edit", context, original, used), MoveInHistory
  PROVE  Entries(editor', "edit", context', original', used')
<1>1. PICK d, o : d \in {Backward(editor, 1), Forward(editor, 1)} /\ editor' = Swept(d) /\ o = original
  BY DEF MoveInHistory
<1>2. 1 \in Nat /\ 1 # 0
  OBVIOUS
<1>3. used' = used /\ original' = o
  BY <1>1 DEF MoveInHistory
<1>4. ASSUME ~used.onEntry
      PROVE  o \in Seq(Text) /\ Intact(editor', o)
  <2>1. o \in Seq(Text) /\ Loose(editor, o)
    BY <1>1, <1>4, EntriesIn DEF Intact
  <2>2. Loose(d, o)
    BY <1>1, <1>2, <2>1, BackwardLoose, ForwardLoose
  <2> QED
    BY <1>1, <2>1, <2>2, SweptIntact
<1> QED
  BY <1>1, <1>3, <1>4, EntriesIn

\* Accepting the line does, which may be an entry more.
LEMMA AcceptEntries ==
  ASSUME Entries(editor, "edit", context, original, used), Editing(editor, memory, typed, used),
         ~Dangling(editor), Accept
  PROVE  Entries(editor', "accepted", context', original', used')
<1>1. PointIn(editor) /\ Fine(editor)
  BY DEF Editing
<1>2. PICK a, o, q : a = Accepted(editor, FALSE) /\ o = original /\ q = original'
  OBVIOUS
<1>3. editor' = Swept(a) /\ used' = used
  BY <1>2 DEF Accept
<1>4. q = IF editor.text = <<>> THEN o ELSE Append(o, editor.text)
  BY <1>2 DEF Accept
<1>5. ASSUME ~used.onEntry
      PROVE  q \in Seq(Text) /\ Intact(editor', q)
  <2>1. o \in Seq(Text) /\ Intact(editor, o)
    BY <1>2, <1>5, EntriesIn
  <2>2. PICK t \in Text : t = editor.text
    BY <1>1 DEF Fine, Editor, Text
  <2>3. q = o \o NewLine(t)
    BY <1>4, <2>1, <2>2 DEF NewLine
  <2>4. Loose(a, q) /\ q \in Seq(Text)
    BY <1>1, <1>2, <2>1, <2>2, <2>3, AcceptLoose
  <2> QED
    BY <1>3, <2>4, SweptIntact
<1> QED
  BY <1>2, <1>3, <1>5, EntriesIn

\* Every step keeps the entries.
LEMMA NextEntries ==
  ASSUME Good(editor, mode, context, memory, typed, used),
         Entries(editor, mode, context, original, used), [Next]_vars
  PROVE  Entries(editor', mode', context', original', used')
<1>1. CASE UNCHANGED vars
  BY <1>1 DEF vars
<1>2. CASE Next
  <2>1. ~Dangling(editor)
    BY <1>2 DEF Next
  <2>2. CASE ISearch
    <3>1. mode = "edit" /\ mode' = "isearch"
      BY <2>2 DEF ISearch
    <3> QED
      BY <2>1, <2>2, <3>1, GoodIs, ISearchEntries
  <2>3. CASE ISearchChar \/ ISearchAgain \/ ISearchSwitch \/ ISearchRubout \/ ISearchYank
    <3>1. mode = "isearch" /\ mode' = mode
      BY <2>3 DEF ISearchChar, ISearchAgain, ISearchSwitch, ISearchRubout, ISearchYank, SearchOn
    <3>2. InSearch(editor, context, memory, typed, used)
      BY <3>1, GoodIs
    <3>3. Before(editor', context') = Before(editor, context)
      BY <2>3, <3>2, CharGood, AgainGood, SwitchGood, RuboutGood, YankGood
    <3>4. \E k : SearchOn(k)
      BY <2>3 DEF ISearchChar, ISearchAgain, ISearchSwitch, ISearchRubout, ISearchYank
    <3> QED
      BY <3>1, <3>3, <3>4, SearchOnEntries
  <2>4. CASE ISearchAbort
    <3>1. mode = "isearch" /\ mode' = "edit"
      BY <2>4 DEF ISearchAbort
    <3>2. editor' = Before(editor, context)
      BY <2>1, <2>4, <3>1, GoodIs, AbortGood
    <3> QED
      BY <2>4, <3>1, <3>2, AbortEntries
  <2>5. CASE ISearchEnd
    <3>1. mode = "isearch" /\ mode' = "edit"
      BY <2>5 DEF ISearchEnd
    <3> QED
      BY <2>5, <3>1, GoodIs, EndEntries
  <2>6. CASE NSearch
    <3>1. mode = "edit" /\ mode' = "nsearch"
      BY <2>6 DEF NSearch
    <3> QED
      BY <2>6, <3>1, GoodIs, NSearchEntries
  <2>7. CASE NSearchChar
    <3>1. mode = "nsearch" /\ mode' = mode
      BY <2>7 DEF NSearchChar
    <3> QED
      BY <2>1, <2>7, <3>1, GoodIs, NSearchCharEntries
  <2>16. CASE NSearchRubout
    <3>1. mode = "nsearch" /\ mode' = mode
      BY <2>16 DEF NSearchRubout
    <3> QED
      BY <2>1, <2>16, <3>1, GoodIs, NSearchRuboutEntries
  <2>8. CASE NSearchAbort
    <3>1. mode = "nsearch" /\ mode' = "edit"
      BY <2>8 DEF NSearchAbort
    <3> QED
      BY <2>8, <3>1, GoodIs, NSearchAbortEntries
  <2>9. CASE NSearchReturn
    <3>1. mode = "nsearch" /\ mode' = "edit"
      BY <2>9 DEF NSearchReturn
    <3> QED
      BY <2>9, <3>1, GoodIs, ReturnEntries
  <2>10. CASE NSearchAgain
    <3>1. mode = "edit" /\ mode' = mode
      BY <2>10 DEF NSearchAgain
    <3> QED
      BY <2>10, <3>1, GoodIs, NSearchAgainEntries
  <2>11. CASE HistorySearch
    <3>1. mode = "edit" /\ mode' = mode
      BY <2>11 DEF HistorySearch
    <3> QED
      BY <2>11, <3>1, GoodIs, HistorySearchEntries
  <2>12. CASE Type
    <3>1. mode = "edit" /\ mode' = mode
      BY <2>12 DEF Type
    <3> QED
      BY <2>1, <2>12, <3>1, GoodIs, TypeEntries
  <2>13. CASE Move
    <3>1. mode = "edit" /\ mode' = mode
      BY <2>13 DEF Move
    <3> QED
      BY <2>13, <3>1, GoodIs, MoveEntries
  <2>14. CASE MoveInHistory
    <3>1. mode = "edit" /\ mode' = mode
      BY <2>14 DEF MoveInHistory
    <3> QED
      BY <2>14, <3>1, MoveInHistoryEntries
  <2>15. CASE Accept
    <3>1. mode = "edit" /\ mode' = "accepted"
      BY <2>15 DEF Accept
    <3> QED
      BY <2>1, <2>15, <3>1, GoodIs, AcceptEntries
  <2> QED
    BY <1>2, <2>2, <2>3, <2>4, <2>5, <2>6, <2>7, <2>8, <2>9, <2>10, <2>11, <2>12, <2>13, <2>14,
       <2>15, <2>16 DEF Next
<1> QED
  BY <1>1, <1>2

\* The entries give back the lines that were accepted, and nothing of them dangles.
LEMMA RestorableHolds ==
  ASSUME Good(editor, mode, context, memory, typed, used),
         Entries(editor, mode, context, original, used)
  PROVE  EntriesRestorable
<1>1. SUFFICES ASSUME ~used.onEntry
               PROVE  /\ ~Dangling(editor)
                      /\ \A k \in DOMAIN editor.list :
                           Reverted(editor, editor.list[k].line, editor.list[k].data) = original[k]
  BY DEF EntriesRestorable
<1>2. PICK b, o : b = Behind(editor, mode, context) /\ o = original
  OBVIOUS
<1>3. Loose(b, o)
  BY <1>1, <1>2 DEF Entries, Intact
<1>4. Fine(b) /\ ~Dangling(b) /\ Spread(b, o)
  BY <1>3, LooseHeld DEF Loose
<1>5. /\ Fine(editor) /\ b.undo = editor.undo /\ b.list = editor.list /\ b.saved = editor.saved
      /\ b.rec = editor.rec
  <2>1. CASE mode = "isearch"
    <3>1. InSearch(editor, context, memory, typed, used) /\ b = Before(editor, context)
      BY <1>2, <2>1, GoodIs DEF Behind
    <3>2. PICK lines : lines = Lines(editor, context)
      OBVIOUS
    <3>3. /\ Fine(editor) /\ editor \in Editor /\ lines \in Seq(Text) /\ context.start \in 0 .. Len(lines) - 1
          /\ context.point \in Nat
      BY <3>1, <3>2, InSearchIs DEF Fine
    <3> QED
      BY <3>1, <3>2, <3>3, BeforeIs
  <2>2. CASE mode # "isearch"
    BY <1>2, <1>4, <2>2 DEF Behind
  <2> QED
    BY <2>1, <2>2
<1>6. ~Dangling(editor)
  BY <1>4, <1>5, SameHeld
<1>7. ASSUME NEW k \in DOMAIN editor.list
      PROVE  Reverted(editor, editor.list[k].line, editor.list[k].data) = o[k]
  <2>1. k \in 1 .. Len(b.list) /\ Sound(editor.rec)
    BY <1>5, <1>7, Parts DEF Fine
  <2>2. PICK t, p : t = editor.list[k].line /\ p = editor.list[k].data
    OBVIOUS
  <2>3. p \in Pointer /\ Takes(editor.rec, p, t, o[k])
    BY <1>4, <1>5, <2>1, <2>2, SpreadIs DEF Spread
  <2> QED
    BY <2>1, <2>2, <2>3, TakesReverted
<1> QED
  BY <1>2, <1>6, <1>7

\* What is displayed while and after a search is what the search found, typing
\* finds the nearest line, and no search loses a line: neither the one being
\* typed nor, unless it began with an entry in view, an entry.
THEOREM SearchInvariantHolds == Spec => []SearchInvariant
<1> DEFINE I == /\ Good(editor, mode, context, memory, typed, used)
                /\ Entries(editor, mode, context, original, used)
<1>1. Init => I
  BY InitGood, InitEntries
<1>2. I /\ [Next]_vars => I'
  BY NextGood, NextEntries
<1>3. I => SearchInvariant
  BY TypeHolds, FoundHolds, NearestHolds, PrefixHolds, TypedHolds, RestorableHolds
     DEF SearchInvariant, LinesKept
<1> QED
  BY <1>1, <1>2, <1>3, PTL DEF Spec

==============================================================================
